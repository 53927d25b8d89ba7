\* One tab, a patient user; the app may end between any two writes; fair queues, a device that is online.
SPECIFICATION FairSpec
CONSTANTS
  Positions = {"slot", "crease", "rim", "board"}
  Periods = {"p1"}
  Outcomes = {"Goal"}
  Absent = Absent
  MaxPucks = 4
  TouchZone = {"slot", "rim"}
  ButtonZone = {"slot", "board"}
  Near <- MCNear
  Crease = "crease"
  Origin = "origin"
  SavedGames <- MCSavedGames
  Patient = TRUE
  MayTerminate = TRUE
  MaxBacklog = 0
INVARIANTS NeverTorn
PROPERTIES GameIsALog TabsCatchUp
