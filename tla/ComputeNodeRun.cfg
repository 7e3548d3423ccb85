SPECIFICATION LiveSpec
CONSTANTS
  Pieces = {p, q, r}
  SleepPieces = {p}
  NoPiece = NoPiece
  Handles = {h1, h2}
  NoHandle = NoHandle
  LocalId = 2
  HostCounts = {1, 2}
INVARIANTS TypeOK
PROPERTIES ServesPieces RunsServedPiece CancelReachesJoined TakenIsAnswered
CHECK_DEADLOCK FALSE
