\* Two tabs, a user who taps at any moment, an app that may end at any moment.
SPECIFICATION Spec
CONSTANTS
  Positions = {"slot", "crease"}
  Periods = {p1, p2}
  Outcomes = {"Goal"}
  Absent = Absent
  MaxPucks = 2
  TouchZone = {"slot"}
  ButtonZone = {"slot"}
  Near <- MCNear
  Crease = "crease"
  Origin = "origin"
  SavedGames <- NewGame
  Patient = FALSE
  MayTerminate = TRUE
  MaxBacklog = 1
INVARIANTS TypeOK NoTabLeftBehind Agreement
SYMMETRY Alike
