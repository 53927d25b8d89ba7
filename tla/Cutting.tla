------------------------------ MODULE Cutting ------------------------------
(***************************************************************************)
(* The sequences a list of pucks consists of, as the app and as the page   *)
(* understand it.  They differ in what ends a sequence: the app wants an   *)
(* outcome that is marked as the end of a sequence, the page only looks at *)
(* the mark.  And the app shows one empty sequence where none is closed.   *)
(*                                                                         *)
(* These are the results; Progressions has the loops that compute them.    *)
(***************************************************************************)
EXTENDS Pucks, Integers

AppEnds(p) == EndsSequence(p) /\ p.newSequenceBool

PageEnds(p) == p.newSequenceBool

(* The sequences of s that end at the places E, one after the other. *)
Closed(s, E) ==
    [n \in 1 .. Cardinality(E) |->
        SubSeq(s, IF n = 1 THEN 1 ELSE KeyAt(E, n - 2) + 1, KeyAt(E, n - 1))]

(* Where sequences end among the first n pucks, for the app and the page. *)
AppEndings(s, n) == {k \in 1 .. n : AppEnds(s[k])}

PageEndings(s, n) == {k \in 1 .. n : PageEnds(s[k])}

AppSequences(s, n) ==
    IF AppEndings(s, n) = {} THEN << <<>> >> ELSE Closed(s, AppEndings(s, n))

PageSequences(s, n) == Closed(s, PageEndings(s, n))
=============================================================================
