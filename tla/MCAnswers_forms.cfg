CONSTANTS
  Hosts <- MCHosts
  Questions <- MCQuestions
  Lower <- MCLower
  ReleaseNames <- MCReleaseNames
  SystemNames <- MCSystemNames
  OtherData <- MCOtherData
  Used <- MCUsed
  MaxDamages = 2
SPECIFICATION Spec
INVARIANTS
  SelectsInstalled
  PrettyNameIsWhole
  ReadsAsItsSeconds
  RoundTrip
  TakesOnlyWhole
  NoLeftovers
  ToJsonIsSafe
