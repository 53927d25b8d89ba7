---------------------------- MODULE MCSharedGame ----------------------------
(* Values for the constants of SharedGame. *)
EXTENDS SharedGame

OnePuck == {<<Puck("crease", "Pass", "p1", FALSE)>>}

MCWriterSets == {{"p1"}, {"p1", "p2"}}
=============================================================================
