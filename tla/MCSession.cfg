CONSTANTS
  Resources = {t1, t2, other}
  Tracks = {t1, t2}
  MaxStarts = 2
  MaxWork = 3
  MaxChanges = 3
SPECIFICATION Spec
INVARIANTS NoDanglingWorker OneEncodes TracksOfItsStart LastTrackWins
PROPERTY StopsLatest
CHECK_DEADLOCK FALSE
