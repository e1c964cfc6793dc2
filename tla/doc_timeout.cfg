SPECIFICATION FairSpec
CONSTANTS
  None = None
  Hosts <- MCHosts
  AsciiHosts <- MCAsciiHosts
  Encode <- MCEncode
  Glue <- MCGlue
  Paths <- MCPaths
  Fragments <- MCFragments
  Locations <- MCLocations
  Requests <- FullRequests
  Statuses <- MCStatuses
  MaxRedirects = 2
  MaxAddrs = 2
  MaxNow = 3
  MaxInstant = 5
PROPERTIES
  TimeoutBoundsResponse
