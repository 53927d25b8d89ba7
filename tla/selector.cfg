\* Two users, hasty or patient, and a page that comes and goes.
SPECIFICATION Spec
CONSTANTS
  Users = {ann, bob}
  Nobody = Nobody
  NoGame = NoGame
  SavedGames <- MCSavedGames
  MaxSeconds = 1
  MaxCallbacks = 5
  MaxSignIns = 2
INVARIANTS TypeOK EveryGameShown EveryRowWorks RowsAreTheGames
PROPERTIES ClickDeletesItsRow
SYMMETRY Alike
