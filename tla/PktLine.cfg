SPECIFICATION Spec
CONSTANTS
  Bodies <- MCBodies
  Prefix = 2
  Base = 4
  Parts = Parts
  Magic = Magic
  Other = Other
  None = None
CHECK_DEADLOCK FALSE
INVARIANTS TypeOK ForwardedOnce ExecutedWasJudged ChunksDoNotMatter
