\* -p 67661, which is no TCP port, connects to 2125.
CONSTANTS
  Files <- MCFiles
  AddressOf <- MCAddressOf
  PrefixOf <- MCPrefixOf
  Lines <- MCLines
  YesTexts <- MCYesTexts
SPECIFICATION Spec
INVARIANT ConnectsToPortGiven
