SPECIFICATION Spec
CONSTANTS
    RamSize = 16
    Settings = {0, 3}
    Program <- SmallProgram
    PowerUpRam <- Jumps
    Undriven = {0, 4660}
INVARIANTS
    TypeOK
    BusDriven
PROPERTIES
    PauseTakesAPress
    LoadIsComplete
    InstructionsEnd
    ImplementsIsa
