SPECIFICATION Spec
CONSTANTS
  Players = {p1, p2}
  Buffer = 3
  UpBuffer = 1
  StartSize = 2
CHECK_DEADLOCK FALSE
SYMMETRY Symmetry
INVARIANTS
  TypeOK
  UpdatesNameKnownPlayers
  SurvivorsAgree
  MessagesMeetTheirStage
  NoStageSkipped
