--------------------------- MODULE MCProgressions ---------------------------
(* All lists of up to four pucks, whatever their types and marks.          *)
EXTENDS Progressions

MCLists == UNION {[1 .. n -> PuckModel] : n \in 0 .. 4}
=============================================================================
