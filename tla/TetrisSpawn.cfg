SPECIFICATION UndisturbedSpec
CONSTANTS
  XMod = 16
  YMod = 32
  LeftWall = 2
  RightWall = 13
  Depth = 20
  SpawnX = 4
  GameOverBoard <- RealGameOverBoard
  MoveAt = 63
  LockPoints = 64
  ClearPoints = 512
  PointsPerSpeed = 4096
  ScoreMod = 16777216
  RandomTypes = {3}
  Keys = {"None"}
PROPERTY SpawnsOnlyInFreeSpace
