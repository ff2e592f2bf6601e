SPECIFICATION FairSpec
CONSTANTS
  Players = {p1, p2}
  NoPlayer = NoPlayer
CHECK_DEADLOCK FALSE
PROPERTIES
  LostPeerRemoved
  FramesGoOn
  ImplementsLockStep
