SPECIFICATION FairSpec
CONSTANTS
  Axis = {"x"}
  Board = 2
  Spawn = {1}
  Accel = 1
  MaxSpeed = 1
  Directions <- MCDirections
  Muzzle = 1
  Ring = 2
  ShootCd = 1
  HalfLife = 4
  MaxAge = 9
  UpBuffer = 1
  Limit = 2
  HitRadius = 1
CHECK_DEADLOCK FALSE
INVARIANTS
  TypeOK
  NearBoard
  RingOrder
  OnlyRecentShotsCount
PROPERTIES
  LeftShotsEnd
