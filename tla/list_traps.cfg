\* One visit to the list, and changes on the web.
SPECIFICATION Spec
CONSTANTS
  Hundredths = {0, 1}
  None = None
  LastSelectedGame = LastSelectedGame
  Undefined = Undefined
  SavedGames <- MCOnlyGames
  MaxMinutes = 1
  MaxControllers = 1
  MaxElsewhere = 1
  MaxTaps = 3
PROPERTY DataIsAString
CHECK_DEADLOCK FALSE
