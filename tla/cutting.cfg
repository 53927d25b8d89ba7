\* Every list of up to four pucks; the loops end, so deadlock is not checked.
SPECIFICATION LoopsSpec
CONSTANTS
  Positions = {"slot"}
  Periods = {"p1"}
  Outcomes = {"Goal", "Square"}
  Absent = Absent
  MaxPucks = 4
  Lists <- MCLists
INVARIANTS AppCutsAtOutcomes PageCutsAtMarks SameWhereClean
CHECK_DEADLOCK FALSE
