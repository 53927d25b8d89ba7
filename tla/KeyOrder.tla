------------------------------ MODULE KeyOrder ------------------------------
(***************************************************************************)
(* The order in which the database enumerates the children of a node: by   *)
(* their keys.  Shared by the two lists of games.                          *)
(***************************************************************************)
EXTENDS Naturals, FiniteSets

(* The keys of S, a finite set, from the least to the greatest. *)
InKeyOrder(S) ==
    CHOOSE s \in [1 .. Cardinality(S) -> S] :
        /\ \A k \in S : \E n \in DOMAIN s : s[n] = k
        /\ \A m, n \in DOMAIN s : m < n => s[m] < s[n]
=============================================================================
