\* Two tabs and a patient user, up to the step that tears the game.
SPECIFICATION Spec
CONSTANTS
  Positions = {"slot", "crease", "rim"}
  Periods = {"p1", "p2"}
  Outcomes = {"Goal"}
  Absent = Absent
  MaxPucks = 3
  TouchZone = {"slot", "rim"}
  ButtonZone = {"slot"}
  Near <- MCNear
  Crease = "crease"
  Origin = "origin"
  SavedGames <- MCSavedGames
  Patient = TRUE
  MayTerminate = TRUE
  MaxBacklog = 0
PROPERTIES TornOnlyWhenEmpty NoPuckLost
CONSTRAINT Untorn
