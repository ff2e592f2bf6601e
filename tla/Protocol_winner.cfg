SPECIFICATION Spec
CONSTANTS
  Players = {p1, p2}
  Buffer = 2
  UpBuffer = 1
  StartSize = 2
CHECK_DEADLOCK FALSE
INVARIANTS
  WinnerNotDefeated
