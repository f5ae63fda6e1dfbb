SPECIFICATION Spec
CONSTANTS
  Tracks = {t1, t2}
  NumBuffers = 2
  MaxTs = 3
  NoFrame = NoFrame
SYMMETRY Symmetry
INVARIANTS
  LentIsInHand
  OneHolder
CHECK_DEADLOCK FALSE
