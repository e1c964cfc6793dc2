SPECIFICATION Spec
CONSTANTS
  None = None
  Symbol <- MCSymbol
  Escape <- MCEscape
  PortOf <- MCPortOf
  WordOf <- MCWordOf
  Callers <- MCCallers
  Builds = {TRUE, FALSE}
  Bodies <- MCBodies
  HandKeys <- MCHandKeys
  HandLength = 7
  Words <- MCWords
  ParamEscape <- MCParamEscape
  Locations <- MCLocations
  Statuses = {301, 303}
INVARIANTS
  TypeOK
  
  UrlRoundTrip
  LengthHonest
  FragmentNotSent
PROPERTIES
  RelativeKeepsAuthority
