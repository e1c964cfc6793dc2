SPECIFICATION FairSpec
CONSTANTS
  None = None
  Requests = {r1, r2, r3}
  Setters = {s1, s2}
  Certs <- MCCerts
  Valid <- MCValid
  CertLists <- MCCertLists
  BuiltIn <- MCBuiltIn
  Native <- MCNative
  Features <- MCFeatures
INVARIANTS
  TypeOK
  OneTrust
  RootsFirst
PROPERTIES
  PanicIsFinal
  Served
