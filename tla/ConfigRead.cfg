SPECIFICATION FairSpec
CONSTANTS
  Word <- Words
  Given <- AnyFile
  Dirs <- Exist
  NoFile = NoFile
  NotJson = NotJson
CHECK_DEADLOCK FALSE
INVARIANTS PortKept OptionsKept
PROPERTIES Ends
