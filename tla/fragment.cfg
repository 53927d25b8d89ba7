\* Two tabs, a patient user: a skate after the game was emptied under a tab.
SPECIFICATION Spec
CONSTANTS
  Positions = {"slot", "crease", "rim"}
  Periods = {"p1", "p2"}
  Outcomes = {"Goal"}
  Absent = Absent
  MaxPucks = 3
  TouchZone = {"slot", "rim"}
  ButtonZone = {"slot"}
  Near <- MCNear
  Crease = "crease"
  Origin = "origin"
  SavedGames <- MCSavedGames
  Patient = TRUE
  MayTerminate = FALSE
  MaxBacklog = 0
PROPERTY CallbackNeverTraps
