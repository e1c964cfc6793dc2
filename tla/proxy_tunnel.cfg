SPECIFICATION FairSpec
CONSTANTS
  None = None
  Symbol <- MCSymbol
  PortOf <- MCPortOf
  Cases <- MCCases
  Targets <- MCTargets
  Octet <- MCOctet
  MaxHops = 1
  BufLen = 6
INVARIANTS
  TypeOK
  TunnelMeans200
  CleanStart
  SettingUnderstood
PROPERTIES
  Answered
