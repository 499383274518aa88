SPECIFICATION CalmFairSpec
CONSTANTS
  LastAddr = 1
  Kinds = {"kbd"}
  KeyCodes = {NoKey}
  NoKey = NoKey
  Glitch = FALSE
  Lossy = TRUE
  Wraps = TRUE
  MaxPlugs = 2
PROPERTY HostDecides
