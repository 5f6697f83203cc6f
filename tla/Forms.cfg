SPECIFICATION Spec
CONSTANTS
  Hex <- Hexes
  CharOf <- Chars
  HexOf <- Codes
  Plain <- Unescaped
  Uris <- SomeUris
  Queries <- SomeQueries
  Names <- SomeNames
  Cookies <- SomeCookies
  Patterns <- SomePatterns
  Paths <- SomePaths
  Files <- SomeFiles
  Heads <- SomeHeads
  Lists <- SomeLists
  Quoted <- SomeQuoted
  Rules <- SomeRules
  Years <- SomeYears
  Days <- SomeDays
  Lengths <- SomeLengths
  Pages <- SomePages
  Parts <- SomeParts
  Bytes <- SomeBytes
  Items <- SomeItems
  Texts <- SomeTexts
  Commands <- SomeCommands
  Sources <- SomeSources
  Reads <- SomeReads
  Sizes = {1, 2, 5, 8}
  Node = {1, 2, 3, 4}
  MaxOps = 7
CHECK_DEADLOCK FALSE
INVARIANTS TextMeaning BuffersMeaning JsonMeaning DirectivesMeaning ListsLinked
