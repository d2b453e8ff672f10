\* Neither the file nor the command line has a port: 2124 against 2125.
CONSTANTS
  Files <- MCFiles
  AddressOf <- MCAddressOf
  PrefixOf <- MCPrefixOf
  Lines <- MCLines
  YesTexts <- MCYesTexts
SPECIFICATION Spec
INVARIANT DefaultsMeet
