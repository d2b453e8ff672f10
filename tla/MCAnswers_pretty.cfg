\* A macOS whose release the code does not know.
CONSTANTS
  Hosts <- MCHosts
  Questions <- MCQuestions
  Lower <- MCLower
  ReleaseNames <- MCReleaseNames
  SystemNames <- MCSystemNames
  OtherData <- MCOtherData
  Used <- MCUsed
  MaxDamages = 2
SPECIFICATION Spec
INVARIANT PrettyNameIsFound
