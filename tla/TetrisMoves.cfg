SPECIFICATION FairIntactSpec
CONSTANTS
  XMod = 12
  YMod = 9
  LeftWall = 2
  RightWall = 9
  Depth = 6
  SpawnX = 4
  GameOverBoard <- MCGameOverBoard
  MoveAt = 3
  LockPoints = 1
  ClearPoints = 2
  PointsPerSpeed = 2
  ScoreMod = 8
  RandomTypes = {0, 3}
  Keys = {"A", "D", "S", "None"}
INVARIANTS NoOverlapWhileIntact WallsStandWhileIntact
PROPERTIES BlocksConserved ClearDrains PiecesLand
