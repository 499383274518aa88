SPECIFICATION LabsSpec
CONSTANTS
    Switches = {3, 127, 128}
    AccSwitches = {512, 960}
    SerSwitches = {51, 85}
    Functions = {0, 1, 2, 3, 4, 5, 6, 7}
    Routes = {0, 1, 2, 3}
    Ball_X_Max = 12
    Ball_Y_Max = 11
    Ball_X_Center = 6
    Ball_Y_Center = 5
    hpixels = 16
    vlines = 15
    Width = 13
    Height = 12
    HSyncFirst = 14
    HSyncEnd = 16
    VSyncFirst = 13
    CellCount = 2
    ColorTable <- Colors
    Glyphs = {65, 66}
    PowerUp = {0, 99}
    RamSize = 256
    Operands = {0, 1, 5, 127, 128, 255, 1023}
    Starts = {3, 6, 20, 49, 90, 173}
    Settings = {0, 1, 2, 3, 5, 6, 20, 49, 90, 127, 128, 173, 255, 1023}
    Program <- TestPrograms
    Chosen <- ChosenAt
INVARIANTS
    TypesOK
    ProductCorrect
    AddersAgree
    WordsDone
    BallStaysOnScreen
    SyncOutsidePicture
    ColorsKept
    ShownAsDrawn
    ResultsShown
    SortReturnsSorted
    DisplayShowsDatum
PROPERTIES
    AddsOnce
    NoTearing
    EveryTypeComesUp
