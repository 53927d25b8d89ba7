---------------------------- MODULE MCFinalShots ----------------------------
(* A new game, and games with one closed sequence.                         *)
EXTENDS FinalShots, TLC

MCSavedGames ==
    {<<>>} \cup {<<Puck("slot", "Pass", p, FALSE), Puck("slot", o, p, TRUE)>> :
                    p \in Periods, o \in Outcomes}

(* No period and no outcome is treated unlike the others. *)
Alike == Permutations(Periods) \cup Permutations(Outcomes)
=============================================================================
