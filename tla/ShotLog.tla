------------------------------ MODULE ShotLog ------------------------------
(***************************************************************************)
(* What recording a game promises, whoever records it: the game is a log   *)
(* of pucks that changes at its end only.  One write records a puck after  *)
(* the last one, takes the last one back, or turns the last one into a     *)
(* skate; everything recorded earlier stays as it is.                      *)
(***************************************************************************)
EXTENDS Pucks

CONSTANT SavedGames     \* what a game may hold to begin with

VARIABLE log

Init == log \in SavedGames

(* makeNewShotEntity: one more puck. *)
Record(p) == log' = Append(log, p)

(* undoShot; deadSequence and "Same Sequence" do it puck by puck. *)
TakeBack ==
    /\ log # <<>>
    /\ log' = SubSeq(log, 1, Len(log) - 1)

(* A touch on the last puck. *)
Skate ==
    /\ log # <<>>
    /\ log' = [log EXCEPT ![Len(log)].shotType = "Skate"]

Next ==
    \/ \E p \in PuckModel : Len(log) < MaxPucks /\ Record(p)
    \/ TakeBack
    \/ Skate

Spec == Init /\ [][Next]_log
=============================================================================
