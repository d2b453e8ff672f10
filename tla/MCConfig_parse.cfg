\* Every file of up to two stanzas of two settings, or three of one, and after a
\* few of them every command line of up to two or three words.
CONSTANTS
  Files <- MCFiles
  AddressOf <- MCAddressOf
  PrefixOf <- MCPrefixOf
  Lines <- MCLines
  YesTexts <- MCYesTexts
SPECIFICATION Spec
INVARIANTS AcceptsValid MeansWhatItSays RoundTrip AsksAsTold MeetWhereTold
