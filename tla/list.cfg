\* One user, two visits to the list, changes on the web meanwhile.
SPECIFICATION FairSpec
CONSTANTS
  Hundredths = {0, 1}
  None = None
  LastSelectedGame = LastSelectedGame
  Undefined = Undefined
  SavedGames <- MCSavedGames
  MaxMinutes = 1
  MaxControllers = 2
  MaxElsewhere = 2
  MaxTaps = 3
INVARIANTS TypeOK ListIsTheGames AppAccountShowsNothing
PROPERTIES ListCatchesUp
CHECK_DEADLOCK FALSE
