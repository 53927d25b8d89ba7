--------------------------- MODULE MCFBShotTracker ---------------------------
(***************************************************************************)
(* Values for the constants of FBShotTracker.  Positions: "slot" is inside *)
(* both of the app's rink tests; "crease" is where rebounds are put (and a *)
(* place like another); "rim" is at the left edge, where touches count but *)
(* puck buttons do not; "board" is at the right edge, where it is the      *)
(* other way round.                                                        *)
(***************************************************************************)
EXTENDS FBShotTracker, TLC

MCNear == {<<p, p>> : p \in Positions}

Pass(pos, v) == Puck(pos, "Pass", v, FALSE)
Goal(pos, v) == Puck(pos, "Goal", v, TRUE)

NewGame == {<<>>}

(* A closed sequence recorded in the first period, on this device or not. *)
OnePlay == {<<Pass("slot", "p1"), Goal("slot", "p1")>>}

MCSavedGames == NewGame \cup OnePlay

(* The tabs are alike when nothing is saved under a period's name. *)
Alike == Permutations(Periods)

(* A run with this constraint follows a game up to the step that tears it. *)
Untorn == WellFormed(data)
=============================================================================
