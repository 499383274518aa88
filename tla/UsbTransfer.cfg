SPECIFICATION WaitSpec
CONSTANTS
    Reports = {"a", "b"}
    Ahead = 1
    Packets = 2
    NakLimit = 2
    RetryLimit = 2
    Timeout = 4
    LastTime = 6
    Word = 128
    PerSecond = 10
    Rate = 10
    Settle = 3
INVARIANTS
    ReadIsComplete
PROPERTIES
    GivesUpOnlyTheDead
    TransfersReturn
    ReportsShownOnce
    NeverEarly
    EndsWithinClock
