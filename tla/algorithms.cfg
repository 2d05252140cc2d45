SPECIFICATION AlgorithmsSpec
CONSTANTS
  None = None
  Error = Error
  Weak = Weak
  Quote = Quote
  Mark = Mark
  Letters = Letters
  Blank = Blank
  FirstYear = 1969
  FirstDay <- MCFirstDay
  LastYear = 2401
  Clocks <- MCClocks
  MaxSecs = 2097151
  TimeOf <- MCTimeOf
  LowerCase <- MCLowerCase
  NameChars = {"a", "A", "1", "-"}
  LowerOf <- MCLowerOf
  MaxLen = 64
  Named <- MCNamed
  Control <- MCControl
  Chars <- MCChars
  JsonCodes <- MCJsonCodes
  Pieces <- MCPieces
  Etags <- MCEtags
  MarkWindows = {7, 9}
  Words <- MCWords
  Bodies <- MCBodies
  Cutoffs = {0, 1, 2}
  Settings <- MCSettings
  Epochs <- MCEpochs
  CratePaths <- MCCratePaths
  Messages <- MCMessages
INVARIANTS
  ConversionsAgree
  HttpDateRoundTrip
  ConfirmsOnlyThatCopy
  ScanFindsPubtime
  GateAgreesWithIndex
  CooldownAsConfigured
  PathsNameTheirCrate
  JsonEscapeRoundTrip
CHECK_DEADLOCK FALSE
