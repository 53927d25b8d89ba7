\* A user who waits for the page, and signs out and in again.
SPECIFICATION Spec
CONSTANTS
  Positions <- MCPositions
  Periods = {"p1", "p2"}
  Outcomes = {"Goal"}
  Absent = Absent
  MaxPucks = 8
  Crease <- net
  SavedGames <- MCSavedGames
  FirstPeriod = "p1"
  All = "All"
  Undefined = Undefined
  Patient = TRUE
  MaxHandlers = 5
  MaxSignIns = 2
INVARIANTS TypeOK Mirrors NothingStray
PROPERTIES PeriodsAreReal ClosedSequencesKept ClickOverwritesNothing
