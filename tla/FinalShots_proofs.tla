------------------------- MODULE FinalShots_proofs -------------------------
(***************************************************************************)
(* Theorems about the cutting of lists into sequences, for lists of any    *)
(* length, and about the Final Shots tab, for any number of observers,     *)
(* queued events, periods, outcomes and pucks.                             *)
(***************************************************************************)
EXTENDS Progressions, FinalShots, Pucks_proofs

----------------------------------------------------------------------------
(***************************************************************************)
(* The loops of the app and of the page compute the sequences that Cutting *)
(* defines, for lists of any length.  The loop invariants say where the    *)
(* last sequence ended and how many there have been; the rest is one lemma *)
(* about the sequences closed by one more ending.                          *)
(***************************************************************************)

(* The last place of E, 0 if there is none. *)
LastOf(E) == IF E = {} THEN 0 ELSE KeyAt(E, Cardinality(E) - 1)

(* Append in the form of a function. *)
LEMMA AppendIs ==
  ASSUME NEW c \in Nat, NEW f, f = [n \in 1 .. c |-> f[n]], NEW x
  PROVE  Append(f, x) = [n \in 1 .. c + 1 |-> IF n = c + 1 THEN x ELSE f[n]]
<1> DEFINE S == {f[n] : n \in 1 .. c} \cup {x}
<1>1. f \in [1 .. c -> S]
  OBVIOUS
<1>2. f \in Seq(S) /\ x \in S /\ Len(f) = c
  <2> HIDE DEF S
  <2>1. f \in Seq(S) /\ Len(f) = c
    BY <1>1
  <2>2. x \in S
    BY DEF S
  <2> QED
    BY <2>1, <2>2
<1> HIDE DEF S
<1> QED
  BY <1>2

(* The places of a set with one more place behind all others. *)
LEMMA KeyAtBehind ==
  ASSUME NEW b \in Nat, NEW E, E \subseteq 1 .. b, IsFiniteSet(E)
  PROVE  LET D == E \cup {b + 1}
         IN  /\ IsFiniteSet(D)
             /\ Cardinality(E) \in Nat
             /\ Cardinality(D) = Cardinality(E) + 1
             /\ KeyAt(D, Cardinality(E)) = b + 1
             /\ \A n \in 0 .. Cardinality(E) - 1 : KeyAt(D, n) = KeyAt(E, n)
<1> DEFINE D == E \cup {b + 1}
<1>1. /\ IsFiniteSet(D) /\ Cardinality(E) \in Nat
      /\ Cardinality(D) = Cardinality(E) + 1
  <2>1. b + 1 \notin E
    OBVIOUS
  <2> QED
    BY <2>1, FS_AddElement, FS_CardinalityType
<1>2. b + 2 \in Nat /\ D \subseteq 0 .. (b + 2) - 1 /\ E \subseteq 0 .. (b + 2) - 1
  OBVIOUS
<1>3. KeyAt(D, Cardinality(E)) = b + 1
  <2>1. {j \in D : j < b + 1} = E
    <3>1. (\A j \in E : j < b + 1) /\ ~ (b + 1 < b + 1)
      OBVIOUS
    <3> QED
      BY <3>1
  <2>2. b + 1 \in D
    OBVIOUS
  <2>3. KeyAt(D, Cardinality({j \in D : j < b + 1})) = b + 1
    <3> HIDE DEF D
    <3> QED
      BY <1>1, <1>2, <2>2, KeyAtPlace
  <2> QED
    BY <2>1, <2>3
<1>4. ASSUME NEW n \in 0 .. Cardinality(E) - 1
      PROVE  KeyAt(D, n) = KeyAt(E, n)
  <2> DEFINE x == KeyAt(E, n)
  <2>1. n \in Nat /\ n < Cardinality(E)
    BY <1>1
  <2>2. x \in E /\ Cardinality({j \in E : j < x}) = n
    <3> HIDE DEF D
    <3> QED
      BY <1>2, <2>1, KeyAtBounded
  <2>3. {j \in D : j < x} = {j \in E : j < x}
    <3>1. x \in 1 .. b
      BY <2>2
    <3> HIDE DEF x
    <3>2. ~ (b + 1 < x)
      BY <3>1
    <3> QED
      BY <3>2
  <2>4. KeyAt(D, Cardinality({j \in D : j < x})) = x
    <3>1. x \in D
      BY <2>2
    <3> HIDE DEF D, x
    <3> QED
      BY <1>1, <1>2, <3>1, KeyAtPlace
  <2> QED
    BY <2>2, <2>3, <2>4
<1> QED
  BY <1>1, <1>3, <1>4

(* One more ending closes one more sequence: the pucks behind the last one. *)
LEMMA ClosedOneMore ==
  ASSUME NEW s, NEW b \in Nat, NEW E, E \subseteq 1 .. b, IsFiniteSet(E)
  PROVE  Closed(s, E \cup {b + 1}) =
            Append(Closed(s, E), SubSeq(s, LastOf(E) + 1, b + 1))
<1> DEFINE D == E \cup {b + 1}
           c == Cardinality(E)
           x == SubSeq(s, LastOf(E) + 1, b + 1)
           f == Closed(s, E)
<1>1. /\ c \in Nat /\ Cardinality(D) = c + 1 /\ KeyAt(D, c) = b + 1
      /\ \A n \in 0 .. c - 1 : KeyAt(D, n) = KeyAt(E, n)
  BY KeyAtBehind
<1>2. Append(f, x) = [n \in 1 .. c + 1 |-> IF n = c + 1 THEN x ELSE f[n]]
  <2>1. f = [n \in 1 .. c |-> f[n]]
    BY DEF Closed
  <2> HIDE DEF f, x, c
  <2> QED
    BY <1>1, <2>1, AppendIs
<1>3. E = {} <=> c = 0
  BY FS_EmptySet
<1>4. LastOf(E) = IF c = 0 THEN 0 ELSE KeyAt(E, c - 1)
  BY <1>3 DEF LastOf
<1>5. ASSUME NEW n \in 1 .. c + 1
      PROVE  SubSeq(s, IF n = 1 THEN 1 ELSE KeyAt(D, n - 2) + 1, KeyAt(D, n - 1))
                = IF n = c + 1 THEN x ELSE f[n]
  <2>1. CASE n = c + 1
    <3>1. KeyAt(D, n - 1) = b + 1
      BY <1>1, <2>1
    <3>2. (IF n = 1 THEN 1 ELSE KeyAt(D, n - 2) + 1) = LastOf(E) + 1
      <4>1. CASE n = 1
        <5>1. LastOf(E) = 0
          BY <1>1, <1>4, <2>1, <4>1
        <5> QED
          BY <4>1, <5>1
      <4>2. CASE n # 1
        <5>1. c # 0 /\ n - 2 = c - 1 /\ c - 1 \in 0 .. c - 1
          BY <1>1, <2>1, <4>2
        <5>2. KeyAt(D, n - 2) = KeyAt(E, c - 1)
          BY <1>1, <5>1
        <5> QED
          BY <1>4, <4>2, <5>1, <5>2
      <4> QED
        BY <4>1, <4>2
    <3> QED
      BY <2>1, <3>1, <3>2
  <2>2. CASE n # c + 1
    <3>1. n \in 1 .. c /\ n - 1 \in 0 .. c - 1 /\ (n # 1 => n - 2 \in 0 .. c - 1)
      BY <1>1, <2>2
    <3>2. KeyAt(D, n - 1) = KeyAt(E, n - 1) /\ (n # 1 => KeyAt(D, n - 2) = KeyAt(E, n - 2))
      BY <1>1, <3>1
    <3>3. f[n] = SubSeq(s, IF n = 1 THEN 1 ELSE KeyAt(E, n - 2) + 1, KeyAt(E, n - 1))
      BY <3>1 DEF Closed
    <3> HIDE DEF f, x, D
    <3> QED
      BY <2>2, <3>2, <3>3
  <2> QED
    BY <2>1, <2>2
<1>6. Closed(s, D) = [n \in 1 .. c + 1 |-> IF n = c + 1 THEN x ELSE f[n]]
  <2>1. Closed(s, D) =
          [n \in 1 .. c + 1 |->
             SubSeq(s, IF n = 1 THEN 1 ELSE KeyAt(D, n - 2) + 1, KeyAt(D, n - 1))]
    BY <1>1 DEF Closed
  <2> HIDE DEF f, x, D, c
  <2> QED
    BY <1>5, <2>1
<1> QED
  BY <1>2, <1>6

----------------------------------------------------------------------------
(* The app's loop. *)

AppInvariant ==
    LET E == AppEndings(list, current)
    IN  /\ current \in Nat
        /\ seqNum = Cardinality(E)
        /\ lastCurrent = LastOf(E)
        /\ sequencesFromFirebase = AppSequences(list, current)

(* The loop of createProgressionsNoType cuts a list of any length at its   *)
(* marked outcomes.                                                        *)
THEOREM AppCutsRight == LoopsSpec => []AppCutsAtOutcomes
<1>1. LoopsInit => AppInvariant
  <2> SUFFICES ASSUME LoopsInit PROVE AppInvariant
    OBVIOUS
  <2>1. AppEndings(list, 0) = {}
    BY DEF AppEndings
  <2> QED
    BY <2>1, FS_EmptySet DEF LoopsInit, AppInvariant, AppSequences, LastOf
<1>2. AppInvariant /\ [LoopsNext]_loopVars => AppInvariant'
  <2> SUFFICES ASSUME AppInvariant, [LoopsNext]_loopVars PROVE AppInvariant'
    OBVIOUS
  <2> DEFINE E == AppEndings(list, current)
  <2>0. current \in Nat /\ E \subseteq 1 .. current /\ IsFiniteSet(E)
    <3>1. current \in Nat
      BY DEF AppInvariant
    <3>2. E \in SUBSET (1 .. current)
      BY DEF AppEndings
    <3>3. IsFiniteSet(1 .. current)
      BY <3>1, FS_Interval
    <3> HIDE DEF E
    <3>4. IsFiniteSet(E)
      BY <3>2, <3>3, FS_Subset
    <3> QED
      BY <3>1, <3>2, <3>4
  <2>1. CASE AppGoesOn
    <3>1. AppEndings(list, current + 1) = E
      <4>1. 1 .. current + 1 = (1 .. current) \cup {current + 1}
        BY <2>0
      <4> QED
        BY <2>1, <4>1 DEF AppGoesOn, AppEndings
    <3> QED
      BY <2>0, <2>1, <3>1 DEF AppGoesOn, AppInvariant, AppSequences, app, web
  <2>2. CASE AppCuts
    <3> DEFINE t == SubSeq(list, lastCurrent + 1, current + 1)
    <3>1. AppEndings(list, current + 1) = E \cup {current + 1}
      <4>1. 1 .. current + 1 = (1 .. current) \cup {current + 1}
        BY <2>0
      <4> QED
        BY <2>2, <4>1 DEF AppCuts, AppEndings
    <3>2. /\ Cardinality(E \cup {current + 1}) = Cardinality(E) + 1
          /\ LastOf(E \cup {current + 1}) = current + 1
          /\ Cardinality(E) \in Nat
          /\ E = {} <=> Cardinality(E) = 0
      <4>1. /\ Cardinality(E) \in Nat
            /\ Cardinality(E \cup {current + 1}) = Cardinality(E) + 1
            /\ KeyAt(E \cup {current + 1}, Cardinality(E)) = current + 1
        BY <2>0, KeyAtBehind
      <4>2. E = {} <=> Cardinality(E) = 0
        BY <2>0, FS_EmptySet
      <4> HIDE DEF E
      <4>3. (Cardinality(E) + 1) - 1 = Cardinality(E)
        BY <4>1
      <4> QED
        BY <4>1, <4>2, <4>3 DEF LastOf
    <3>3. Closed(list, E \cup {current + 1}) = Append(Closed(list, E), t)
      BY <2>0, ClosedOneMore DEF AppInvariant
    <3>4. sequencesFromFirebase' = Closed(list, E \cup {current + 1})
      <4>1. CASE E = {}
        <5>1. sequencesFromFirebase' = [sequencesFromFirebase EXCEPT ![1] = t] /\ sequencesFromFirebase = << <<>> >>
          BY <2>2, <3>2, <4>1 DEF AppCuts, AppInvariant, AppSequences
        <5>2. Closed(list, E) = <<>>
          BY <3>2, <4>1 DEF Closed
        <5> HIDE DEF t
        <5>3. sequencesFromFirebase' = <<t>> /\ Append(<<>>, t) = <<t>>
          BY <5>1
        <5> QED
          BY <3>3, <5>2, <5>3
      <4>2. CASE E # {}
        BY <2>2, <3>2, <3>3, <4>2 DEF AppCuts, AppInvariant, AppSequences
      <4> QED
        BY <4>1, <4>2
    <3> HIDE DEF E
    <3>5. AppSequences(list, current + 1) = Closed(list, E \cup {current + 1})
      BY <3>1 DEF AppSequences
    <3>6. /\ list' = list /\ current' = current + 1
          /\ lastCurrent' = current + 1 /\ seqNum' = Cardinality(E) + 1
      BY <2>2 DEF AppCuts, AppInvariant, E
    <3>7. AppEndings(list, current)' = E \cup {current + 1}
      BY <3>1, <3>6
    <3>8. AppSequences(list, current)' = Closed(list, E \cup {current + 1})
      BY <3>5, <3>6
    <3> QED
      BY <2>0, <3>2, <3>4, <3>6, <3>7, <3>8 DEF AppInvariant
  <2>3. CASE PageGoesOn \/ PageCuts \/ UNCHANGED loopVars
    <3>1. UNCHANGED <<list, app>>
      BY <2>3 DEF PageGoesOn, PageCuts, loopVars
    <3> QED
      BY <3>1 DEF AppInvariant, app
  <2> QED
    BY <2>1, <2>2, <2>3 DEF LoopsNext
<1>3. AppInvariant => AppCutsAtOutcomes
  BY DEF AppInvariant, AppCutsAtOutcomes
<1> QED
  BY <1>1, <1>2, <1>3, PTL DEF LoopsSpec

----------------------------------------------------------------------------
(* The page's loop. *)

PageInvariant ==
    LET E == PageEndings(list, i)
    IN  /\ i \in Nat
        /\ endOfLastSequence = LastOf(E) - 1
        /\ sequencesByPeriod = Closed(list, E)

(* The loop of split cuts a list of any length at its marks. *)
THEOREM PageCutsRight == LoopsSpec => []PageCutsAtMarks
<1>1. LoopsInit => PageInvariant
  <2> SUFFICES ASSUME LoopsInit PROVE PageInvariant
    OBVIOUS
  <2>1. PageEndings(list, 0) = {}
    BY DEF PageEndings
  <2>2. Closed(list, {}) = <<>>
    BY FS_EmptySet DEF Closed
  <2>3. i = 0 /\ endOfLastSequence = -1 /\ sequencesByPeriod = <<>>
    BY DEF LoopsInit
  <2>4. LastOf({}) - 1 = -1
    BY DEF LastOf
  <2> QED
    BY <2>1, <2>2, <2>3, <2>4 DEF PageInvariant
<1>2. PageInvariant /\ [LoopsNext]_loopVars => PageInvariant'
  <2> SUFFICES ASSUME PageInvariant, [LoopsNext]_loopVars PROVE PageInvariant'
    OBVIOUS
  <2> DEFINE E == PageEndings(list, i)
  <2>0. i \in Nat /\ E \subseteq 1 .. i /\ IsFiniteSet(E)
    <3>1. i \in Nat
      BY DEF PageInvariant
    <3>2. E \in SUBSET (1 .. i)
      BY DEF PageEndings
    <3>3. IsFiniteSet(1 .. i)
      BY <3>1, FS_Interval
    <3> HIDE DEF E
    <3>4. IsFiniteSet(E)
      BY <3>2, <3>3, FS_Subset
    <3> QED
      BY <3>1, <3>2, <3>4
  <2>1. CASE PageGoesOn
    <3>1. PageEndings(list, i + 1) = E
      <4>1. 1 .. i + 1 = (1 .. i) \cup {i + 1}
        BY <2>0
      <4> QED
        BY <2>1, <4>1 DEF PageGoesOn, PageEndings
    <3> QED
      BY <2>0, <2>1, <3>1 DEF PageGoesOn, PageInvariant
  <2>2. CASE PageCuts
    <3>1. PageEndings(list, i + 1) = E \cup {i + 1}
      <4>1. 1 .. i + 1 = (1 .. i) \cup {i + 1}
        BY <2>0
      <4> QED
        BY <2>2, <4>1 DEF PageCuts, PageEndings
    <3>2. LastOf(E \cup {i + 1}) = i + 1
      <4>1. /\ Cardinality(E) \in Nat
            /\ Cardinality(E \cup {i + 1}) = Cardinality(E) + 1
            /\ KeyAt(E \cup {i + 1}, Cardinality(E)) = i + 1
        BY <2>0, KeyAtBehind
      <4> HIDE DEF E
      <4>2. (Cardinality(E) + 1) - 1 = Cardinality(E)
        BY <4>1
      <4> QED
        BY <4>1, <4>2 DEF LastOf
    <3>3. Closed(list, E \cup {i + 1}) =
             Append(Closed(list, E), SubSeq(list, LastOf(E) + 1, i + 1))
      BY <2>0, ClosedOneMore
    <3>4. endOfLastSequence + 2 = LastOf(E) + 1
      <4>1. LastOf(E) \in Nat
        <5>1. CASE E = {}
          BY <5>1 DEF LastOf
        <5>2. CASE E # {}
          <6>1. Cardinality(E) \in Nat /\ Cardinality(E) # 0
            BY <2>0, <5>2, FS_EmptySet, FS_CardinalityType
          <6>2. i + 1 \in Nat /\ E \subseteq 0 .. (i + 1) - 1
            BY <2>0
          <6> HIDE DEF E
          <6>3. Cardinality(E) - 1 \in Nat /\ Cardinality(E) - 1 < Cardinality(E)
            BY <6>1
          <6>4. KeyAt(E, Cardinality(E) - 1) \in E
            BY <2>0, <6>2, <6>3, KeyAtBounded
          <6>5. LastOf(E) \in 1 .. i
            BY <2>0, <5>2, <6>4 DEF LastOf
          <6> QED
            BY <2>0, <6>5
        <5> QED
          BY <5>1, <5>2
      <4> QED
        BY <4>1 DEF PageInvariant
    <3>5. /\ list' = list /\ i' = i + 1 /\ endOfLastSequence' = i
          /\ sequencesByPeriod' = Append(sequencesByPeriod,
                SubSeq(list, endOfLastSequence + 2, i + 1))
      BY <2>2 DEF PageCuts
    <3>6. sequencesByPeriod' = Closed(list, E \cup {i + 1})
      BY <3>3, <3>4, <3>5 DEF PageInvariant
    <3> HIDE DEF E
    <3>7. PageEndings(list, i)' = E \cup {i + 1}
      BY <3>1, <3>5
    <3>8. endOfLastSequence' = LastOf(E \cup {i + 1}) - 1
      BY <2>0, <3>2, <3>5
    <3>9. i' \in Nat /\ i' <= Len(list')
      BY <2>0, <2>2, <3>5 DEF PageCuts
    <3>10. PageEndings(list, i)' = PageEndings(list', i')
      OBVIOUS
    <3> QED
      BY <2>0, <3>5, <3>6, <3>7, <3>8, <3>9, <3>10 DEF PageInvariant
  <2>3. CASE AppGoesOn \/ AppCuts \/ UNCHANGED loopVars
    <3>1. UNCHANGED <<list, web>>
      BY <2>3 DEF AppGoesOn, AppCuts, loopVars
    <3> QED
      BY <3>1 DEF PageInvariant, web
  <2> QED
    BY <2>1, <2>2, <2>3 DEF LoopsNext
<1>3. PageInvariant => PageCutsAtMarks
  BY DEF PageInvariant, PageCutsAtMarks, PageSequences
<1> QED
  BY <1>1, <1>2, <1>3, PTL DEF LoopsSpec

----------------------------------------------------------------------------
(* The app and the page show the same sequences of a list in which exactly *)
(* the outcomes are marked.                                                *)
THEOREM SameForCleanLists == LoopsSpec => []SameWhereClean
<1> DEFINE ListInvariant == list \in Seq(PuckModel)
<1>1. LoopsInit => ListInvariant
  BY ProgressionsAssumption DEF LoopsInit
<1>2. ListInvariant /\ [LoopsNext]_loopVars => ListInvariant'
  BY DEF LoopsNext, AppGoesOn, AppCuts, PageGoesOn, PageCuts, loopVars
<1>3. ListInvariant /\ AppCutsAtOutcomes /\ PageCutsAtMarks => SameWhereClean
  <2> SUFFICES ASSUME ListInvariant, AppCutsAtOutcomes, PageCutsAtMarks,
                      current = Len(list), i = Len(list), Clean(list)
               PROVE  sequencesFromFirebase = IF sequencesByPeriod = <<>> THEN << <<>> >>
                                  ELSE sequencesByPeriod
    BY DEF SameWhereClean
  <2> DEFINE n == Len(list)
             E == AppEndings(list, n)
  <2>1. n \in Nat /\ DOMAIN list = 1 .. n
    OBVIOUS
  <2>2. PageEndings(list, n) = E
    <3>1. ASSUME NEW k \in 1 .. n PROVE AppEnds(list[k]) <=> PageEnds(list[k])
      <4>1. list[k].newSequenceBool = EndsSequence(list[k])
        BY <2>1 DEF Clean
      <4> QED
        BY <4>1, Zenon DEF AppEnds, PageEnds
    <3> QED
      BY <3>1 DEF AppEndings, PageEndings
  <2>3. IsFiniteSet(E) /\ (E = {} <=> Cardinality(E) = 0) /\ Cardinality(E) \in Nat
    <3>1. E \in SUBSET (1 .. n)
      BY DEF AppEndings
    <3>0. IsFiniteSet(1 .. n)
      BY <2>1, FS_Interval
    <3> HIDE DEF E
    <3>2. IsFiniteSet(E)
      BY <3>0, <3>1, FS_Subset
    <3> QED
      BY <3>2, FS_EmptySet, FS_CardinalityType
  <2>4. Closed(list, E) = <<>> <=> E = {}
    <3>1. DOMAIN Closed(list, E) = 1 .. Cardinality(E)
      BY DEF Closed
    <3>2. DOMAIN <<>> = {}
      OBVIOUS
    <3>3. CASE E = {}
      <4>1. Cardinality(E) = 0
        BY <2>3, <3>3
      <4> QED
        BY <3>3, <4>1 DEF Closed
    <3>4. CASE E # {}
      <4>1. 1 \in 1 .. Cardinality(E)
        BY <2>3, <3>4
      <4> HIDE DEF E
      <4> QED
        BY <3>1, <3>2, <3>4, <4>1
    <3> QED
      BY <3>3, <3>4
  <2>5. sequencesByPeriod = Closed(list, E)
    BY <2>2 DEF PageCutsAtMarks, PageSequences
  <2>6. sequencesFromFirebase = IF E = {} THEN << <<>> >> ELSE Closed(list, E)
    BY DEF AppCutsAtOutcomes, AppSequences
  <2> HIDE DEF E
  <2> QED
    BY <2>4, <2>5, <2>6
<1>4. LoopsSpec => []ListInvariant
  BY <1>1, <1>2, PTL DEF LoopsSpec
<1> QED
  BY <1>3, <1>4, AppCutsRight, PageCutsRight, PTL

----------------------------------------------------------------------------
(* The Final Shots tab. *)

(* What the database and the lists are, whatever is drawn from them. *)
DatabaseTypes ==
    /\ game \in PuckLists
    /\ asked \in Nat /\ observers \in Nat
    /\ events \in Seq(PuckLists)
    /\ pucks \in PuckLists

(* The tab has asked for the game, or observes it; the last event on its   *)
(* way is the game, and when there is none the list is.                    *)
LastEventIsTheGame ==
    /\ asked + observers > 0
    /\ observers = 0 => events = <<>>
    /\ observers > 0 =>
          IF events = <<>> THEN game = <<>> \/ pucks = game
                           ELSE events[Len(events)] = game

ListInv == DatabaseTypes /\ LastEventIsTheGame

(* What a recording tab may do to the game leaves a game. *)
LEMMA LogType ==
  ASSUME game \in PuckLists,
         \/ \E p \in PuckModel : Len(game) < MaxPucks /\ Log!Record(p)
         \/ Log!TakeBack
         \/ Log!Skate
  PROVE  game' \in PuckLists
<1>1. game \in Seq(PuckModel) /\ Len(game) \in Nat /\ Len(game) <= MaxPucks /\ MaxPucks \in Nat
  BY PucksAssumption DEF PuckLists
<1>2. ASSUME NEW p \in PuckModel, Len(game) < MaxPucks, Log!Record(p)
      PROVE  game' \in PuckLists
  BY <1>1, <1>2 DEF Log!Record, PuckLists
<1>3. CASE Log!TakeBack
  BY <1>1, <1>3, SubSeqProperties DEF Log!TakeBack, PuckLists
<1>4. CASE Log!Skate
  <2> DEFINE n == Len(game)
  <2>1. n \in 1 .. n /\ game[n] \in PuckModel
    BY <1>1, <1>4 DEF Log!Skate
  <2>2. [game[n] EXCEPT !.shotType = "Skate"] \in PuckModel
    BY <2>1 DEF PuckModel, ShotTypes, Continuing
  <2>3. game' = [game EXCEPT ![n] = [game[n] EXCEPT !.shotType = "Skate"]]
    BY <1>4 DEF Log!Skate
  <2> QED
    BY <1>1, <2>1, <2>2, <2>3 DEF PuckLists
<1> QED
  BY <1>2, <1>3, <1>4

LEMMA ListInit == Init => ListInv
<1> SUFFICES ASSUME Init PROVE ListInv
  OBVIOUS
<1>1. game \in PuckLists
  BY FinalShotsAssumption DEF Init, Log!Init
<1>2. <<>> \in PuckLists
  BY PucksAssumption DEF PuckLists
<1> QED
  BY <1>1, <1>2 DEF Init, ListInv, DatabaseTypes, LastEventIsTheGame

LEMMA WriteKeeps ==
  ASSUME ListInv, Write
  PROVE  ListInv'
<1>1. game' \in PuckLists
  BY LogType DEF Write, ListInv, DatabaseTypes
<1> DEFINE round == [n \in 1 .. observers |-> game']
<1>2. round \in Seq(PuckLists) /\ Len(round) = observers /\ observers \in Nat
  BY <1>1 DEF ListInv, DatabaseTypes
<1>3. CASE game' = game
  BY <1>3 DEF Write, ListInv, DatabaseTypes, LastEventIsTheGame
<1>4. CASE game' # game
  <2>1. events' = events \o round /\ UNCHANGED <<asked, observers, pucks>>
    BY <1>4 DEF Write
  <2>2. /\ events' \in Seq(PuckLists)
        /\ Len(events') = Len(events) + observers
        /\ observers > 0 => events'[Len(events')] = game'
    <3>1. events \in Seq(PuckLists)
      BY DEF ListInv, DatabaseTypes
    <3> QED
      BY <1>2, <2>1, <3>1, ConcatProperties
  <2>3. observers = 0 => events' = <<>>
    <3> SUFFICES ASSUME observers = 0 PROVE events' = <<>>
      OBVIOUS
    <3>1. events = <<>> /\ Len(events) = 0
      BY DEF ListInv, LastEventIsTheGame
    <3>2. Len(events') = 0
      <4> HIDE DEF round
      <4> QED
        BY <3>1, <2>2
    <3> QED
      BY <3>2, <2>2, EmptySeq
  <2>4. observers > 0 => events' # <<>>
    <3>1. Len(events) \in Nat /\ observers \in Nat
      BY DEF ListInv, DatabaseTypes
    <3>2. observers > 0 => Len(events') # 0
      <4> HIDE DEF round
      <4> QED
        BY <3>1, <2>2
    <3> QED
      BY <3>2, EmptySeq
  <2> HIDE DEF round
  <2> QED
    BY <1>1, <2>1, <2>2, <2>3, <2>4 DEF ListInv, DatabaseTypes, LastEventIsTheGame
<1> QED
  BY <1>3, <1>4

LEMMA DeliverKeeps ==
  ASSUME ListInv, Deliver
  PROVE  ListInv'
<1> USE DEF ListInv, DatabaseTypes, LastEventIsTheGame
<1>1. /\ events \in Seq(PuckLists) /\ events # <<>> /\ events' = Tail(events)
      /\ events' \in Seq(PuckLists) /\ Head(events) \in PuckLists
      /\ Len(events') = Len(events) - 1 /\ Len(events) \in Nat \ {0}
      /\ UNCHANGED <<game, asked, observers>>
  BY DEF Deliver
<1>2. observers > 0 /\ events[Len(events)] = game
  BY <1>1
<1>3. CASE Len(events) = 1
  <2>1. events' = <<>> /\ Head(events) = game
    BY <1>1, <1>2, <1>3
  <2> QED
    BY <1>1, <1>2, <2>1 DEF Deliver
<1>4. CASE Len(events) # 1
  <2>1. events' # <<>> /\ events'[Len(events')] = game
    <3> DEFINE n == Len(events) - 1
    <3>1. n \in 1 .. Len(events')
      BY <1>1, <1>4
    <3>2. Tail(events)[n] = events[n + 1]
      BY <1>1, <3>1, HeadTailProperties
    <3> QED
      BY <1>1, <1>2, <3>1, <3>2
  <2> QED
    BY <1>1, <1>2, <2>1 DEF Deliver
<1> QED
  BY <1>3, <1>4

LEMMA ListNext == ListInv /\ [Next]_vars => ListInv'
<1> SUFFICES ASSUME ListInv, [Next]_vars PROVE ListInv'
  OBVIOUS
<1> USE DEF ListInv, DatabaseTypes, LastEventIsTheGame
<1>1. CASE Register
  <2>1. /\ asked > 0 /\ asked' = asked - 1 /\ observers' = observers + 1
        /\ events' = Append(events, game) /\ UNCHANGED <<game, pucks>>
    BY <1>1 DEF Register
  <2>2. /\ events' \in Seq(PuckLists) /\ events' # <<>>
        /\ events'[Len(events')] = game
    BY <2>1
  <2> QED
    BY <2>1, <2>2
<1>2. ASSUME NEW n \in Nat, Ask(n), UNCHANGED pucks
      PROVE  ListInv'
  BY <1>2 DEF Ask
<1>3. ASSUME NEW type \in Outcomes, ShowShotProgression(type)
      PROVE  ListInv'
  BY <1>2, <1>3 DEF ShowShotProgression
<1>4. ASSUME NEW period \in Periods, PeriodSelected(period)
      PROVE  ListInv'
  BY <1>2, <1>4 DEF PeriodSelected
<1>5. CASE AllSelected
  BY <1>2, <1>5 DEF AllSelected
<1>6. CASE ViewWillAppear \/ UNCHANGED vars
  BY <1>6 DEF ViewWillAppear, vars, database
<1> QED
  BY <1>1, <1>3, <1>4, <1>5, <1>6, WriteKeeps, DeliverKeeps DEF Next

LEMMA ListAlways == Spec => []ListInv
BY ListInit, ListNext, PTL DEF Spec

(* However many observers the buttons have piled up, and in whatever order *)
(* the game is changed and events are delivered: when nothing is under way *)
(* the tab's list is the game.                                             *)
THEOREM ListIsUpToDate == Spec => []ListIsTheGame
<1>1. ListInv => ListIsTheGame
  BY DEF ListInv, DatabaseTypes, LastEventIsTheGame, ListIsTheGame, Still
<1> QED
  BY <1>1, ListAlways, PTL

(* A button then draws the sequences of the game that end in its type and, *)
(* unless all periods are selected, in the period selected.                *)
THEOREM ButtonsDrawTheGame == Spec => DrawsTheGame
<1>1. ASSUME ListIsTheGame, NEW type \in Outcomes, Still, ShowShotProgression(type)
      PROVE  drawn' = GameSequences(type, periodText)
  <2>1. pucks = game
    BY <1>1 DEF ListIsTheGame
  <2>2. sequences' = AppSequences(game, Len(game))
    BY <1>1, <2>1 DEF ShowShotProgression, Progressions
  <2> QED
    BY <1>1, <2>2 DEF ShowShotProgression, GameSequences
<1>2. ListIsTheGame =>
        [\A type \in Outcomes :
            Still /\ ShowShotProgression(type) => drawn' = GameSequences(type, periodText)]_vars
  BY <1>1
<1> QED
  BY <1>2, ListIsUpToDate, PTL DEF DrawsTheGame

(* Selecting a period then shows the game's total; the period's number,    *)
(* and the total that "All" shows, are the game's if the sequences were    *)
(* cut from this game before.                                              *)
THEOREM PeriodsCountTheGame == Spec => CountsTheGame
<1>1. ASSUME ListIsTheGame, NEW period \in Periods, Still, PeriodSelected(period)
      PROVE  LET all == AppSequences(game, Len(game))
             IN  /\ totalShots' = Len(all)
                 /\ sequences = all => perShots' = Len(SortByPeriod(all, period))
  <2>1. pucks = game
    BY <1>1 DEF ListIsTheGame
  <2>2. sequences' = AppSequences(game, Len(game))
    BY <1>1, <2>1 DEF PeriodSelected, Progressions
  <2> QED
    BY <1>1, <2>2 DEF PeriodSelected
<1>2. ASSUME AllSelected, sequences = AppSequences(game, Len(game))
      PROVE  totalShots' = Len(AppSequences(game, Len(game)))
  BY <1>2 DEF AllSelected
<1>3. ListIsTheGame =>
        [LET all == AppSequences(game, Len(game))
         IN  /\ \A period \in Periods :
                  Still /\ PeriodSelected(period) =>
                      /\ totalShots' = Len(all)
                      /\ sequences = all => perShots' = Len(SortByPeriod(all, period))
             /\ Still /\ AllSelected /\ sequences = all => totalShots' = Len(all)]_vars
  BY <1>1, <1>2
<1> QED
  BY <1>3, ListIsUpToDate, PTL DEF CountsTheGame

----------------------------------------------------------------------------
(* What the tab draws and counts has its type: sequences that are not      *)
(* empty, cut from a list of pucks.                                        *)

LEMMA KeysGrow ==
  ASSUME NEW b \in Nat, NEW D, D \subseteq 0 .. b - 1, IsFiniteSet(D),
         NEW m \in Nat, NEW n \in Nat, m < n, n < Cardinality(D)
  PROVE  KeyAt(D, m) < KeyAt(D, n)
<1> DEFINE x == KeyAt(D, m)
           y == KeyAt(D, n)
           X == {j \in D : j < x}
           Y == {j \in D : j < y}
<1>1. Cardinality(D) \in Nat
  BY FS_CardinalityType
<1>2. m < Cardinality(D)
  BY <1>1
<1>3. x \in D /\ Cardinality(X) = m
  BY <1>2, KeyAtBounded
<1>4. y \in D /\ Cardinality(Y) = n
  BY KeyAtBounded
<1> HIDE DEF x, y
<1>5. x \in Int /\ y \in Int
  <2>1. \A j \in D : j \in Int
    OBVIOUS
  <2> QED
    BY <1>3, <1>4, <2>1
<1>6. ASSUME y <= x
      PROVE  FALSE
  <2>1. \A j \in D : j < y => j < x
    <3> SUFFICES ASSUME NEW j \in D, j < y PROVE j < x
      OBVIOUS
    <3>1. j \in Int
      OBVIOUS
    <3> QED
      BY <1>5, <1>6, <3>1
  <2>2. Y \subseteq X
    BY <2>1
  <2>3. IsFiniteSet(X)
    <3>1. X \in SUBSET D
      OBVIOUS
    <3> QED
      BY <3>1, FS_Subset
  <2> HIDE DEF X, Y
  <2>4. Cardinality(Y) <= Cardinality(X)
    BY <2>2, <2>3, FS_Subset
  <2> QED
    BY <1>3, <1>4, <2>4
<1> QED
  BY <1>5, <1>6 DEF x, y

LEMMA ClosedType ==
  ASSUME NEW s \in PuckLists, NEW E, E \subseteq 1 .. Len(s)
  PROVE  Closed(s, E) \in Seq(PuckLists)
<1> DEFINE c == Cardinality(E)
           b == Len(s) + 1
           from(n) == IF n = 1 THEN 1 ELSE KeyAt(E, n - 2) + 1
<1>1. s \in Seq(PuckModel) /\ Len(s) \in Nat /\ Len(s) <= MaxPucks /\ MaxPucks \in Nat
  BY PucksAssumption DEF PuckLists
<1>2. IsFiniteSet(E) /\ c \in Nat
  <2>1. IsFiniteSet(1 .. Len(s)) /\ E \in SUBSET (1 .. Len(s))
    BY <1>1, FS_Interval
  <2>2. IsFiniteSet(E)
    BY <2>1, FS_Subset
  <2> QED
    BY <2>2, FS_CardinalityType
<1>3. b \in Nat /\ E \subseteq 0 .. b - 1
  BY <1>1
<1> HIDE DEF c, b
<1>4. \A n \in 0 .. c - 1 : KeyAt(E, n) \in 1 .. Len(s)
  <2> SUFFICES ASSUME NEW n \in 0 .. c - 1 PROVE KeyAt(E, n) \in E
    OBVIOUS
  <2>1. n \in Nat /\ n < c
    BY <1>2
  <2> QED
    BY <1>2, <1>3, <2>1, KeyAtBounded DEF c
<1>5. ASSUME NEW n \in 1 .. c
      PROVE  SubSeq(s, from(n), KeyAt(E, n - 1)) \in PuckLists
  <2> DEFINE to == KeyAt(E, n - 1)
  <2>1. n - 1 \in 0 .. c - 1 /\ to \in 1 .. Len(s)
    BY <1>2, <1>4
  <2>2. from(n) \in 1 .. to
    <3>1. CASE n = 1
      BY <1>1, <2>1, <3>1
    <3>2. CASE n # 1
      <4>1. /\ n - 2 \in Nat /\ n - 1 \in Nat /\ n - 2 < n - 1 /\ n - 1 < c
            /\ n - 2 \in 0 .. c - 1
        BY <1>2, <3>2
      <4>2. KeyAt(E, n - 2) < to
        BY <1>2, <1>3, <4>1, KeysGrow DEF c
      <4>3. KeyAt(E, n - 2) \in 1 .. Len(s)
        BY <1>4, <4>1
      <4> HIDE DEF to
      <4> QED
        BY <1>1, <2>1, <3>2, <4>2, <4>3
    <3> QED
      BY <3>1, <3>2
  <2> HIDE DEF to, from
  <2>3. from(n) \in 1 .. Len(s) + 1 /\ to \in from(n) - 1 .. Len(s)
    BY <1>1, <2>1, <2>2
  <2>4. SubSeq(s, from(n), to) \in Seq(PuckModel) /\ Len(SubSeq(s, from(n), to)) = to - from(n) + 1
    BY <1>1, <2>3, SubSeqProperties
  <2>5. Len(SubSeq(s, from(n), to)) <= MaxPucks
    BY <1>1, <2>1, <2>2, <2>4
  <2> QED
    BY <2>4, <2>5 DEF PuckLists, to
<1>6. Closed(s, E) = [n \in 1 .. c |-> SubSeq(s, from(n), KeyAt(E, n - 1))]
  BY DEF Closed, c
<1> HIDE DEF from
<1>7. Closed(s, E) \in [1 .. c -> PuckLists]
  BY <1>5, <1>6
<1> QED
  BY <1>2, <1>7

LEMMA AppSequencesType ==
  ASSUME NEW s \in PuckLists
  PROVE  AppSequences(s, Len(s)) \in Seq(PuckLists)
<1>1. AppEndings(s, Len(s)) \subseteq 1 .. Len(s)
  BY DEF AppEndings
<1>2. Closed(s, AppEndings(s, Len(s))) \in Seq(PuckLists)
  BY <1>1, ClosedType
<1>3. << <<>> >> \in Seq(PuckLists)
  <2>1. <<>> \in PuckLists
    BY PucksAssumption DEF PuckLists
  <2> QED
    BY <2>1
<1> QED
  BY <1>2, <1>3 DEF AppSequences

LEMMA ChosenType ==
  ASSUME NEW E, NEW ss \in Seq(E), NEW I, I \subseteq DOMAIN ss, NEW F,
         \A n \in I : ss[n] \in F
  PROVE  Chosen(ss, I) \in Seq(F) /\ Len(Chosen(ss, I)) \in Nat
<1> DEFINE c == Cardinality(I)
           b == Len(ss) + 1
<1>1. Len(ss) \in Nat /\ I \subseteq 1 .. Len(ss)
  OBVIOUS
<1>2. IsFiniteSet(I) /\ c \in Nat
  <2>1. IsFiniteSet(1 .. Len(ss)) /\ I \in SUBSET (1 .. Len(ss))
    BY <1>1, FS_Interval
  <2>2. IsFiniteSet(I)
    BY <2>1, FS_Subset
  <2> QED
    BY <2>2, FS_CardinalityType
<1>3. b \in Nat /\ I \subseteq 0 .. b - 1
  BY <1>1
<1> HIDE DEF c, b
<1>4. ASSUME NEW n \in 1 .. c
      PROVE  ss[KeyAt(I, n - 1)] \in F
  <2>1. n - 1 \in Nat /\ n - 1 < c
    BY <1>2
  <2>2. KeyAt(I, n - 1) \in I
    BY <1>2, <1>3, <2>1, KeyAtBounded DEF c
  <2> QED
    BY <2>2
<1>5. Chosen(ss, I) \in [1 .. c -> F]
  BY <1>4 DEF Chosen, c
<1> QED
  BY <1>2, <1>5

LEMMA SortedTypes ==
  ASSUME NEW ss \in Seq(PuckLists), NEW x
  PROVE  /\ OfType(ss, x) \in Seq(PuckLists \ {<<>>})
         /\ SortByPeriod(ss, x) \in Seq(PuckLists \ {<<>>})
         /\ Len(SortByPeriod(ss, x)) \in Nat
<1> DEFINE T == {n \in DOMAIN ss : ss[n] # <<>> /\ Last(ss[n]).shotType = x}
           P == {n \in DOMAIN ss : ss[n] # <<>> /\ Last(ss[n]).period = x}
<1>1. \A n \in DOMAIN ss : ss[n] \in PuckLists
  BY ElementOfSeq
<1>2. T \subseteq DOMAIN ss /\ \A n \in T : ss[n] \in PuckLists \ {<<>>}
  BY <1>1
<1>3. P \subseteq DOMAIN ss /\ \A n \in P : ss[n] \in PuckLists \ {<<>>}
  BY <1>1
<1>4. OfType(ss, x) = Chosen(ss, T) /\ SortByPeriod(ss, x) = Chosen(ss, P)
  BY DEF OfType, SortByPeriod
<1> HIDE DEF T, P
<1>5. Chosen(ss, T) \in Seq(PuckLists \ {<<>>})
  BY <1>2, ChosenType
<1>6. Chosen(ss, P) \in Seq(PuckLists \ {<<>>}) /\ Len(Chosen(ss, P)) \in Nat
  BY <1>3, ChosenType
<1> QED
  BY <1>4, <1>5, <1>6

(* The rest of the type invariant. *)
DrawingTypes ==
    /\ sequences \in Seq(PuckLists)
    /\ periodText \in Periods \cup {All, NoPeriod}
    /\ perShots \in Nat \cup {All, NoPeriod}
    /\ totalShots \in Nat \cup {NoPeriod}
    /\ drawn \in Seq(PuckLists \ {<<>>})

LEMMA NothingDrawn == <<>> \in Seq(PuckLists) /\ <<>> \in Seq(PuckLists \ {<<>>})
BY EmptySeq

LEMMA DrawingInit == Init => DrawingTypes
BY NothingDrawn DEF Init, DrawingTypes

LEMMA DrawingNext ==
  ASSUME DatabaseTypes, DrawingTypes, [Next]_vars
  PROVE  DrawingTypes'
<1>1. /\ sequences \in Seq(PuckLists) /\ Len(sequences) \in Nat
      /\ periodText \in Periods \cup {All, NoPeriod}
      /\ perShots \in Nat \cup {All, NoPeriod}
      /\ totalShots \in Nat \cup {NoPeriod}
      /\ drawn \in Seq(PuckLists \ {<<>>})
  BY DEF DrawingTypes
<1>2. Progressions \in Seq(PuckLists) /\ Len(Progressions) \in Nat
  <2>1. Progressions \in Seq(PuckLists)
    BY AppSequencesType DEF DatabaseTypes, Progressions
  <2> QED
    BY <2>1
<1>3. CASE Write \/ Register \/ Deliver \/ UNCHANGED vars
  BY <1>1, <1>3 DEF Write, Register, Deliver, vars, labels, DrawingTypes
<1>4. ASSUME NEW type \in Outcomes, ShowShotProgression(type)
      PROVE  DrawingTypes'
  <2>1. /\ sequences' = Progressions /\ UNCHANGED labels
        /\ drawn' = IF periodText = All THEN OfType(Progressions, type)
                    ELSE SortByPeriod(OfType(Progressions, type), periodText)
    BY <1>4 DEF ShowShotProgression
  <2>2. OfType(Progressions, type) \in Seq(PuckLists \ {<<>>})
    BY <1>2, SortedTypes
  <2>3. OfType(Progressions, type) \in Seq(PuckLists)
    <3>1. PuckLists \ {<<>>} \subseteq PuckLists
      OBVIOUS
    <3> QED
      BY <2>2, <3>1, SeqMonotonic
  <2>4. SortByPeriod(OfType(Progressions, type), periodText) \in Seq(PuckLists \ {<<>>})
    BY <2>3, SortedTypes
  <2>5. drawn' \in Seq(PuckLists \ {<<>>})
    BY <2>1, <2>2, <2>4
  <2> QED
    BY <1>1, <1>2, <2>1, <2>5 DEF DrawingTypes, labels
<1>5. ASSUME NEW period \in Periods, PeriodSelected(period)
      PROVE  DrawingTypes'
  <2>1. Len(SortByPeriod(sequences, period)) \in Nat
    BY <1>1, SortedTypes
  <2>2. /\ drawn' = <<>> /\ periodText' = period
        /\ perShots' = Len(SortByPeriod(sequences, period))
        /\ sequences' = Progressions /\ totalShots' = Len(Progressions)
    BY <1>5 DEF PeriodSelected
  <2> QED
    BY <1>2, <2>1, <2>2, NothingDrawn DEF DrawingTypes
<1>6. CASE AllSelected
  BY <1>1, <1>6, NothingDrawn DEF AllSelected, DrawingTypes
<1>7. CASE ViewWillAppear
  BY <1>1, <1>7, NothingDrawn DEF ViewWillAppear, DrawingTypes, labels
<1> QED
  BY <1>3, <1>4, <1>5, <1>6, <1>7 DEF Next

(* The tab's variables keep their types: no empty sequence is ever drawn,  *)
(* although the app makes one of a game in which none is closed.           *)
THEOREM TabTypes == Spec => []TypeOK
<1>1. ListInv => DatabaseTypes
  BY DEF ListInv
<1>2. DatabaseTypes /\ DrawingTypes => TypeOK
  BY DEF DatabaseTypes, DrawingTypes, TypeOK
<1> QED
  BY <1>1, <1>2, ListAlways, DrawingInit, DrawingNext, PTL DEF Spec
=============================================================================
