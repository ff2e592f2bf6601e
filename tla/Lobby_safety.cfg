SPECIFICATION Spec
CONSTANTS
  Conns = {c1, c2, c3, c4, c5}
  Capacity = 4
  StartSize = 3
  KeepSize = 2
  Countdown = 2
SYMMETRY Symmetry
CHECK_DEADLOCK FALSE
INVARIANTS
  TypeOK
  QueuesAgree
  OnlyNamedPlay
