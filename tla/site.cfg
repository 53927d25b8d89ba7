\* One tab, a user who waits or not, and a server that may restart.
SPECIFICATION FairSpec
CONSTANTS
  None = None
  Unset = Unset
  MaxAsking = 2
  MaxTroubles = 2
  Places = {"slot", "behind", "edge"}
  Behind = {"behind"}
  InRink = {"slot", "behind"}
  MaxTouches = 4
INVARIANTS TypeOK PagesGetTheirScripts GetsThere 
PROPERTIES WantedIsReached
