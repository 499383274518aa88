SPECIFICATION ClockSpec
CONSTANTS
  Word = 256
  PerSecond = 10
  Rate = 10
  Settle = 3
PROPERTY SettleEnds
