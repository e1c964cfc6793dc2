SPECIFICATION FairSpec
CONSTANTS
  None = None
  Hosts <- MCHosts
  AsciiHosts <- MCAsciiHosts
  Encode <- MCEncode
  Glue <- MCGlue
  Paths <- MCPaths
  Fragments <- MCFragments
  Locations <- MCLocations
  Requests <- MCRequests
  Statuses <- MCStatuses
  MaxRedirects = 3
  MaxAddrs = 2
  MaxNow = 3
  MaxInstant = 5
INVARIANTS
  TypeOK
  ChainSound
  MethodRule
  IsHeadFresh
  FragmentKept
  TlsIffHttps
  TimedOutNotEarly
PROPERTIES
  NoDialPastDeadline
  HeadByDeadline
  KeepsPromise
