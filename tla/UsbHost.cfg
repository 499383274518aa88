SPECIFICATION FairSpec
CONSTANTS
  LastAddr = 2
  Kinds = {"kbd", "mouse"}
  KeyCodes = {NoKey, A}
  NoKey = NoKey
  Glitch = TRUE
  Lossy = TRUE
  Wraps = TRUE
  MaxPlugs = 3
  A = A
INVARIANTS TypeOK ConfiguredWhileRunning LedTellsRunning
PROPERTIES KeysFromKeyboard DetachNoticed
