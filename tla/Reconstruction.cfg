SPECIFICATION Spec
CONSTANTS
  N = 3
  XGaps = {0, 1, 2, 3, 4}
  YGaps = {0, 1, 2, 3, 4}
  Images5x1 <- Frames5x1
  Images2x2 <- Frames2x2
  Positions <- PairsAndTriples
INVARIANT Widened5x1
INVARIANT WalkIsSafe5x1
INVARIANT UpperIsRight2x2
INVARIANT Squared2x2
INVARIANT TurnedInPlace
INVARIANT PlacedAndTurned
CHECK_DEADLOCK FALSE
