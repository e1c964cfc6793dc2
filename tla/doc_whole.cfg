SPECIFICATION Spec
CONSTANTS
  None = None
  Hosts <- MCHosts
  AsciiHosts <- MCAsciiHosts
  Encode <- MCEncode
  Glue <- MCGlue
  Paths <- MCPaths
  Fragments <- MCFragments
  Locations <- MCLocations
  Requests <- PlainRequests
  Statuses <- MCStatuses
  MaxRedirects = 1
  MaxAddrs = 2
  MaxNow = 2
  MaxInstant = 5
INVARIANTS
  RequestSentWhole
