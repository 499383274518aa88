SPECIFICATION Spec
CONSTANTS
  LastAddr = 2
  Kinds = {"kbd"}
  KeyCodes = {NoKey}
  NoKey = NoKey
  Glitch = FALSE
  Lossy = FALSE
  Wraps = FALSE
  MaxPlugs = 2
INVARIANT DetachedMeansEmpty
