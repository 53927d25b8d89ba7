------------------------------- MODULE Pucks -------------------------------
(***************************************************************************)
(* The data of the system: a puck as the app and the page record it, and   *)
(* the Firebase node games/<uid>/<game>/data that holds the pucks of one   *)
(* game, one child per puck under the keys "0", "1", "2", ...              *)
(*                                                                         *)
(* A node maps every key to its child.  A child written whole is a puck;   *)
(* updateChildValues on a key the node lacks leaves a partial child that   *)
(* has a shot type and nothing else.                                       *)
(***************************************************************************)
EXTENDS Naturals, Sequences, FiniteSets

CONSTANTS
    Positions,      \* the places of the rink a puck can be recorded at
    Periods,        \* the titles of the recording tabs
    Outcomes,       \* "Goal", "Square", ...: the types that end a sequence
    Absent,         \* what a node has under a key it lacks
    MaxPucks        \* bound: a game holds at most this many pucks

(* Passes, skates and rebounds: the sequence goes on. *)
Continuing == {"Pass", "Skate", "Same Sequence"}

ShotTypes == Continuing \cup Outcomes

ASSUME PucksAssumption ==
    /\ MaxPucks \in Nat \ {0}
    /\ Outcomes \cap Continuing = {}

PuckModel == [pos : Positions, shotType : ShotTypes, period : Periods,
              newSequenceBool : BOOLEAN]

Puck(pos, type, period, newSeq) ==
    [pos |-> pos, shotType |-> type, period |-> period,
     newSequenceBool |-> newSeq]

(* The pucks of one game, in order. *)
PuckLists == {s \in Seq(PuckModel) : Len(s) <= MaxPucks}

EndsSequence(p) == p.shotType \notin Continuing

----------------------------------------------------------------------------
(* The node. *)

Keys == 0 .. MaxPucks - 1

PartialChild == [shotType : ShotTypes]

Child == PuckModel \cup PartialChild

Node == [Keys -> Child \cup {Absent}]

ASSUME AbsentAssumption == Absent \notin Child

(* The keys a node has. *)
Present(d) == {k \in Keys : d[k] # Absent}

(* setValue, removeValue and updateChildValues(["shotType": t]) on child k. *)
SetChild(d, k, p) == [d EXCEPT ![k] = p]

RemoveChild(d, k) == [d EXCEPT ![k] = Absent]

UpdateType(d, k, t) ==
    [d EXCEPT ![k] = IF @ = Absent THEN [shotType |-> t]
                                   ELSE [@ EXCEPT !.shotType = t]]

(* The key with n smaller keys below it. *)
KeyAt(D, n) == CHOOSE k \in D : Cardinality({j \in D : j < k}) = n

(* The children in key order, the order a snapshot enumerates them in. *)
Children(d) ==
    [i \in 1 .. Cardinality(Present(d)) |-> d[KeyAt(Present(d), i - 1)]]

(* The node that holds the pucks of s under the keys 0, 1, 2, ... *)
NodeOf(s) == [k \in Keys |-> IF k < Len(s) THEN s[k + 1] ELSE Absent]

(* Every child is a whole puck. *)
Whole(d) == \A k \in Present(d) : d[k] \in PuckModel

(* The keys are 0 .. n-1: no gap, as the code assumes of the node. *)
Contiguous(d) == \E n \in 0 .. MaxPucks : Present(d) = 0 .. n - 1

WellFormed(d) == Whole(d) /\ Contiguous(d)
=============================================================================
