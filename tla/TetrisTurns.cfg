SPECIFICATION GamesSpec
CONSTANTS
  XMod = 12
  YMod = 9
  LeftWall = 2
  RightWall = 9
  Depth = 5
  SpawnX = 4
  GameOverBoard <- MCGameOverBoard
  MoveAt = 3
  LockPoints = 1
  ClearPoints = 2
  PointsPerSpeed = 2
  ScoreMod = 4
  RandomTypes = {0, 3, 5}
  Keys = {"A", "D", "Up", "Down", "None"}
INVARIANTS
  TypeOK
  NoOverlapWhileIntact
PROPERTY GameOverIsFinal
