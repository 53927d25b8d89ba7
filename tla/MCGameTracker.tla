---------------------------- MODULE MCGameTracker ----------------------------
(***************************************************************************)
(* Values for the constants of GameTracker.  "slot" and "point" are in one *)
(* column of the rink, "point" far above "slot"; "net" is middleOfNet.     *)
(***************************************************************************)
EXTENDS GameTracker

slot == [x |-> 50, y |-> 60]
point == [x |-> 51, y |-> 10]
net == [x |-> 80, y |-> 80]

MCPositions == {slot, point, net}

(* A new game, and one with a closed sequence. *)
MCSavedGames ==
    {<<>>, <<Puck(slot, "Pass", "p1", FALSE), Puck(point, "Goal", "p1", TRUE)>>}
=============================================================================
