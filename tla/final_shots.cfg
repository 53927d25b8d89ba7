\* The tab that draws, while the game is recorded.
SPECIFICATION Spec
CONSTANTS
  Positions = {"slot"}
  Periods = {p1, p2}
  Outcomes = {Goal, Square}
  Absent = Absent
  MaxPucks = 2
  SavedGames <- MCSavedGames
  All = All
  NoPeriod = NoPeriod
  MaxObservers = 4
  MaxEvents = 2
INVARIANTS TypeOK ListIsTheGame
PROPERTIES DrawsTheGame CountsTheGame
SYMMETRY Alike
