\* Two devices that lose their connection, or the app.
SPECIFICATION FairSpec
CONSTANTS
  Positions = {"crease"}
  Periods = {"p1", "p2"}
  Outcomes = {"Goal"}
  Absent = Absent
  MaxPucks = 3
  Crease = "crease"
  SavedGames <- OnePuck
  WriterSets <- MCWriterSets
  MaxTaps = 2
  MaxDrops = 1
  MaxEnds = 1
INVARIANTS TypeOK Converged AddersLeaveNoGap
PROPERTIES WriterUndisturbed EverythingArrives
CHECK_DEADLOCK FALSE
