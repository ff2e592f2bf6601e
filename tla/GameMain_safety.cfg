SPECIFICATION Spec
CONSTANTS
  Players = {p1, p2, p3}
  NoPlayer = NoPlayer
SYMMETRY Symmetry
CHECK_DEADLOCK FALSE
INVARIANTS
  TypeOK
  IInv
  PlayersRaceFree
  NoLatchDeletedInUse
  LatchPrecondition
  InvalidIsSet
  SurvivorsToldOfKills
  WinnerIsLast
  NoDeadlock
  ArrivalsToCome
