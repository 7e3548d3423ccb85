SPECIFICATION Spec
CONSTANTS
  Pieces = {p, q}
  SleepPieces = {}
  NoPiece = NoPiece
  Handles = {h1}
  NoHandle = NoHandle
  LocalId = 2
  HostCounts = {2}
INVARIANTS CancelLoopGoesOn
CHECK_DEADLOCK FALSE
