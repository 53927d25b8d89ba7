--------------------------- MODULE GameList_proofs ---------------------------
(***************************************************************************)
(* Theorems about the list of games of the app, for any number of visits   *)
(* to the list, of taps, of changes made elsewhere and of games.           *)
(***************************************************************************)
EXTENDS GameList, FiniteSetTheorems, SequenceTheorems, WellFoundedInduction, TLAPS

(* A set of naturals that is not empty has a least element.  Induction     *)
(* over Nat is used in this form: as the least counterexample.             *)
LEMMA LeastNat ==
  ASSUME NEW T, T \subseteq Nat, T # {}
  PROVE  \E m \in T : \A k \in T : m <= k
<1> DEFINE Down == {0 .. n : n \in T}
<1>1. Down \subseteq FiniteSubsetsOf(Nat)
  <2> SUFFICES ASSUME NEW n \in T PROVE 0 .. n \in FiniteSubsetsOf(Nat)
    OBVIOUS
  <2>1. IsFiniteSet(0 .. n)
    BY FS_Interval
  <2> QED
    BY <2>1 DEF FiniteSubsetsOf
<1>2. Down # {}
  OBVIOUS
<1>3. PICK D \in Down : \A E \in Down : <<E, D>> \notin StrictSubsetOrdering(Nat)
  <2> HIDE DEF Down
  <2> QED
    BY <1>1, <1>2, FS_StrictSubsetOrderingWellFounded, WFMin
<1>4. PICK m \in T : D = 0 .. m
  BY <1>3
<1>5. ASSUME NEW k \in T, k < m
      PROVE  FALSE
  <2>1. m \in 0 .. m /\ m \notin 0 .. k
    BY <1>5
  <2>2. 0 .. k \in Down /\ 0 .. k \subseteq 0 .. m /\ 0 .. k # 0 .. m
    BY <1>5, <2>1
  <2>3. <<0 .. k, 0 .. m>> \in StrictSubsetOrdering(Nat)
    BY <2>2 DEF StrictSubsetOrdering
  <2> QED
    BY <1>3, <1>4, <2>2, <2>3
<1> QED
  BY <1>4, <1>5

(* The keys of a finite set can be enumerated from the least to the        *)
(* greatest.  The proof takes a smallest set that cannot and removes its   *)
(* least key.                                                              *)
InOrder(s, S) ==
    /\ s \in [1 .. Cardinality(S) -> S]
    /\ \A k \in S : \E n \in DOMAIN s : s[n] = k
    /\ \A m, n \in DOMAIN s : m < n => s[m] < s[n]

LEMMA LeastFirst ==
  ASSUME NEW S, S \subseteq Nat, IsFiniteSet(S), NEW x \in S,
         \A k \in S : x <= k, NEW r, InOrder(r, S \ {x})
  PROVE  InOrder([n \in 1 .. Cardinality(S) |-> IF n = 1 THEN x ELSE r[n - 1]], S)
<1> DEFINE c == Cardinality(S)
           s == [n \in 1 .. c |-> IF n = 1 THEN x ELSE r[n - 1]]
<1>1. c \in Nat /\ c > 0 /\ Cardinality(S \ {x}) = c - 1
  BY FS_RemoveElement, FS_CardinalityType, FS_EmptySet
<1>2. DOMAIN r = 1 .. c - 1 /\ \A n \in 1 .. c - 1 : r[n] \in S /\ x < r[n]
  <2>1. r \in [1 .. c - 1 -> S \ {x}]
    BY <1>1 DEF InOrder
  <2>2. \A k \in S \ {x} : k \in S /\ x < k
    OBVIOUS
  <2> QED
    BY <2>1, <2>2
<1> HIDE DEF c
<1>3. ASSUME NEW n \in 1 .. c, n # 1
      PROVE  n - 1 \in 1 .. c - 1
  BY <1>1, <1>3
<1>4. s \in [1 .. c -> S]
  BY <1>2, <1>3
<1>5. ASSUME NEW k \in S
      PROVE  \E n \in DOMAIN s : s[n] = k
  <2>1. CASE k = x
    <3>1. 1 \in 1 .. c /\ s[1] = k
      BY <1>1, <2>1
    <3> QED
      BY <3>1
  <2>2. CASE k # x
    <3>1. PICK n \in 1 .. c - 1 : r[n] = k
      BY <1>2, <2>2 DEF InOrder
    <3>2. n + 1 \in 1 .. c /\ n + 1 # 1 /\ (n + 1) - 1 = n
      BY <1>1
    <3>3. s[n + 1] = k
      BY <3>1, <3>2
    <3> QED
      BY <3>2, <3>3
  <2> QED
    BY <2>1, <2>2
<1>6. ASSUME NEW m \in DOMAIN s, NEW n \in DOMAIN s, m < n
      PROVE  s[m] < s[n]
  <2>1. n # 1 /\ n - 1 \in 1 .. c - 1 /\ s[n] = r[n - 1]
    BY <1>3, <1>6
  <2>2. CASE m = 1
    BY <1>2, <2>1, <2>2
  <2>3. CASE m # 1
    <3>1. m - 1 \in 1 .. c - 1 /\ m - 1 < n - 1 /\ s[m] = r[m - 1]
      BY <1>3, <1>6, <2>3
    <3>2. r[m - 1] < r[n - 1]
      BY <1>2, <2>1, <3>1 DEF InOrder
    <3> QED
      BY <2>1, <3>1, <3>2
  <2> QED
    BY <2>2, <2>3
<1> QED
  BY <1>4, <1>5, <1>6 DEF InOrder, c

LEMMA InKeyOrderIs ==
  ASSUME NEW S, S \subseteq Nat, IsFiniteSet(S)
  PROVE  InOrder(InKeyOrder(S), S)
<1> DEFINE B == {T \in FiniteSubsetsOf(Nat) : ~ \E s : InOrder(s, T)}
<1>1. B = {}
  <2> SUFFICES ASSUME B # {} PROVE FALSE
    OBVIOUS
  <2>1. PICK T \in B : \A U \in B : <<U, T>> \notin StrictSubsetOrdering(Nat)
    <3>1. B \subseteq FiniteSubsetsOf(Nat)
      OBVIOUS
    <3> HIDE DEF B
    <3> QED
      BY <3>1, FS_StrictSubsetOrderingWellFounded, WFMin
  <2>2. T \subseteq Nat /\ IsFiniteSet(T)
    BY DEF FiniteSubsetsOf
  <2>3. T # {}
    <3> SUFFICES ASSUME T = {} PROVE FALSE
      OBVIOUS
    <3>1. Cardinality(T) = 0 /\ 1 .. 0 = {}
      BY FS_EmptySet
    <3>2. InOrder([n \in 1 .. 0 |-> n], T)
      BY <3>1 DEF InOrder
    <3> QED
      BY <3>2
  <2>4. PICK x \in T : \A k \in T : x <= k
    BY <2>2, <2>3, LeastNat
  <2>5. T \ {x} \in FiniteSubsetsOf(Nat) /\ <<T \ {x}, T>> \in StrictSubsetOrdering(Nat)
    <3>1. IsFiniteSet(T \ {x}) /\ T \ {x} \subseteq Nat
      BY <2>2, FS_RemoveElement
    <3> QED
      BY <2>2, <2>4, <3>1 DEF FiniteSubsetsOf, StrictSubsetOrdering
  <2>6. PICK r : InOrder(r, T \ {x})
    BY <2>1, <2>5
  <2>7. \E s : InOrder(s, T)
    <3> HIDE DEF B
    <3> QED
      BY <2>2, <2>4, <2>6, LeastFirst
  <2> QED
    BY <2>7
<1>2. \E s : InOrder(s, S)
  BY <1>1 DEF FiniteSubsetsOf
<1>3. \E s \in [1 .. Cardinality(S) -> S] :
        /\ \A k \in S : \E n \in DOMAIN s : s[n] = k
        /\ \A m, n \in DOMAIN s : m < n => s[m] < s[n]
  BY <1>2 DEF InOrder
<1> QED
  BY <1>3 DEF InKeyOrder, InOrder

----------------------------------------------------------------------------
(* The events on their way. *)

(* An event for controller c is among q. *)
HasFor(q, c) == \E n \in DOMAIN q : q[n].controller = c

(* The last event for c carries d. *)
LastFor(q, c, d) ==
    \A n \in DOMAIN q :
        /\ q[n].controller = c
        /\ \A m \in DOMAIN q : m > n => q[m].controller # c
        => q[n].snap = d

(* The list on the screen has an observer. *)
Observing == controllers \in Range(observers)

(* It has one, or has asked for one. *)
Asked ==
    signedIn /\ shown =>
        Observing \/ \E n \in DOMAIN sharedQueue :
            /\ sharedQueue[n].op = "observe"
            /\ sharedQueue[n].controller = controllers

(* A write that waits will change the games. *)
IsWrite(w) == w.op # "observe"

Effective ==
    \E n \in DOMAIN sharedQueue :
        IsWrite(sharedQueue[n]) /\ Apply(games, sharedQueue[n]) # games

(* The last event for the list on the screen carries the games of now; and *)
(* there is such an event, or one will be raised by a write that waits, or *)
(* the list shows the games already.                                       *)
ListNotLeftBehind ==
    shown /\ synced /\ Observing =>
        /\ LastFor(mainQueue, controllers, games)
        /\ HasFor(mainQueue, controllers) \/ Effective \/ Lists

IInv == TypeOK /\ Asked /\ ListNotLeftBehind

LEMMA ConcatFor ==
  ASSUME NEW E, NEW q \in Seq(E), NEW r \in Seq(E), NEW c, NEW d,
         HasFor(r, c), LastFor(r, c, d)
  PROVE  HasFor(q \o r, c) /\ LastFor(q \o r, c, d)
<1>1. /\ Len(q) \in Nat /\ Len(r) \in Nat
      /\ DOMAIN q = 1 .. Len(q) /\ DOMAIN r = 1 .. Len(r)
      /\ DOMAIN (q \o r) = 1 .. Len(q) + Len(r)
      /\ \A n \in 1 .. Len(q) : (q \o r)[n] = q[n]
      /\ \A n \in 1 .. Len(r) : (q \o r)[Len(q) + n] = r[n]
  BY ConcatProperties
<1>2. PICK k \in 1 .. Len(r) : r[k].controller = c
  BY <1>1 DEF HasFor
<1>3. Len(q) + k \in DOMAIN (q \o r) /\ (q \o r)[Len(q) + k].controller = c
  BY <1>1, <1>2
<1>4. ASSUME NEW n \in DOMAIN (q \o r), (q \o r)[n].controller = c,
             \A m \in DOMAIN (q \o r) : m > n => (q \o r)[m].controller # c
      PROVE  (q \o r)[n].snap = d
  <2>1. n \in 1 .. Len(q) + Len(r) /\ ~ (Len(q) + k > n)
    BY <1>1, <1>3, <1>4
  <2>2. n - Len(q) \in 1 .. Len(r) /\ Len(q) + (n - Len(q)) = n
    BY <1>1, <1>2, <2>1
  <2>3. (q \o r)[n] = r[n - Len(q)]
    BY <1>1, <2>2
  <2>4. ASSUME NEW m \in 1 .. Len(r), m > n - Len(q)
        PROVE  r[m].controller # c
    <3>1. Len(q) + m \in DOMAIN (q \o r) /\ Len(q) + m > n
      BY <1>1, <2>1, <2>4
    <3>2. (q \o r)[Len(q) + m].controller # c
      BY <1>4, <3>1
    <3> QED
      BY <1>1, <3>2
  <2> QED
    BY <1>1, <1>4, <2>2, <2>3, <2>4 DEF LastFor
<1> QED
  BY <1>3, <1>4 DEF HasFor, LastFor

(* One round reaches every observer. *)
LEMMA RoundFor ==
  ASSUME TypeOK, Observing, NEW d \in Node
  PROVE  /\ Round(d) \in Seq([controller : 1 .. controllers, snap : Node])
         /\ HasFor(Round(d), controllers)
         /\ LastFor(Round(d), controllers, d)
<1>1. /\ Len(observers) \in Nat /\ DOMAIN observers = 1 .. Len(observers)
      /\ \A n \in DOMAIN observers : observers[n] \in 1 .. controllers
  BY DEF TypeOK
<1>2. \A n \in DOMAIN observers :
        /\ Event(observers[n], d) \in [controller : 1 .. controllers, snap : Node]
        /\ Event(observers[n], d).controller = observers[n]
        /\ Event(observers[n], d).snap = d
  BY <1>1 DEF Event
<1>3. DOMAIN Round(d) = DOMAIN observers
      /\ \A n \in DOMAIN observers : Round(d)[n] = Event(observers[n], d)
  BY DEF Round
<1>4. Round(d) \in [1 .. Len(observers) -> [controller : 1 .. controllers, snap : Node]]
  BY <1>1, <1>2 DEF Round
<1>5. PICK n \in DOMAIN observers : observers[n] = controllers
  BY DEF Observing, Range
<1>6. Round(d) \in Seq([controller : 1 .. controllers, snap : Node])
  <2> DEFINE E == [controller : 1 .. controllers, snap : Node]
  <2>1. Round(d) \in [1 .. Len(observers) -> E] /\ Len(observers) \in Nat
    BY <1>1, <1>4
  <2> HIDE DEF E
  <2>2. Round(d) \in Seq(E)
    BY <2>1
  <2> QED
    BY <2>2 DEF E
<1>7. HasFor(Round(d), controllers)
  BY <1>2, <1>3, <1>5 DEF HasFor
<1>8. LastFor(Round(d), controllers, d)
  BY <1>2, <1>3 DEF LastFor
<1> QED
  BY <1>6, <1>7, <1>8

LEMMA RoundType ==
  ASSUME TypeOK, NEW d \in Node
  PROVE  Round(d) \in Seq([controller : 1 .. controllers, snap : Node])
<1>1. /\ Len(observers) \in Nat /\ DOMAIN observers = 1 .. Len(observers)
      /\ \A n \in DOMAIN observers : observers[n] \in 1 .. controllers
  BY DEF TypeOK
<1> DEFINE E == [controller : 1 .. controllers, snap : Node]
<1>2. Round(d) \in [1 .. Len(observers) -> E]
  BY <1>1 DEF Round, Event
<1>3. Round(d) \in Seq(E)
  <2> HIDE DEF E
  <2> QED
    BY <1>1, <1>2
<1> QED
  BY <1>3

(* One more event: it is the last one, or one for another controller. *)
LEMMA AppendFor ==
  ASSUME NEW E, NEW q \in Seq(E), NEW e \in E, NEW c, NEW d,
         e.controller = c => e.snap = d,
         e.controller # c => LastFor(q, c, d)
  PROVE  /\ LastFor(Append(q, e), c, d)
         /\ e.controller = c \/ HasFor(q, c) => HasFor(Append(q, e), c)
<1>1. /\ Len(q) \in Nat /\ DOMAIN q = 1 .. Len(q)
      /\ DOMAIN Append(q, e) = 1 .. Len(q) + 1
      /\ \A n \in 1 .. Len(q) : Append(q, e)[n] = q[n]
      /\ Append(q, e)[Len(q) + 1] = e
  BY AppendProperties
<1>2. Len(q) + 1 \in DOMAIN Append(q, e) /\ \A n \in 1 .. Len(q) : n \in DOMAIN Append(q, e)
  BY <1>1
<1>3. e.controller = c \/ HasFor(q, c) => HasFor(Append(q, e), c)
  BY <1>1, <1>2 DEF HasFor
<1>4. ASSUME NEW n \in DOMAIN Append(q, e), Append(q, e)[n].controller = c,
             \A m \in DOMAIN Append(q, e) : m > n => Append(q, e)[m].controller # c
      PROVE  Append(q, e)[n].snap = d
  <2>1. CASE n = Len(q) + 1
    BY <1>1, <1>4, <2>1
  <2>2. CASE n # Len(q) + 1
    <3>1. n \in 1 .. Len(q) /\ Len(q) + 1 > n
      BY <1>1, <2>2
    <3>2. e.controller # c
      BY <1>1, <1>2, <1>4, <3>1
    <3>3. \A m \in DOMAIN q : m > n => q[m].controller # c
      BY <1>1, <1>2, <1>4
    <3> QED
      BY <1>1, <1>4, <3>1, <3>2, <3>3 DEF LastFor
  <2> QED
    BY <2>1, <2>2
<1> QED
  BY <1>3, <1>4 DEF LastFor

(* The first event delivered. *)
LEMMA TailFor ==
  ASSUME NEW E, NEW q \in Seq(E), q # <<>>, NEW c, NEW d, LastFor(q, c, d)
  PROVE  /\ LastFor(Tail(q), c, d)
         /\ Head(q).controller # c /\ HasFor(q, c) => HasFor(Tail(q), c)
         /\ Head(q).controller = c /\ ~HasFor(Tail(q), c) => Head(q).snap = d
<1>1. /\ Len(q) \in Nat /\ Len(q) > 0 /\ DOMAIN q = 1 .. Len(q)
      /\ Head(q) = q[1]
      /\ Tail(q) \in Seq(E) /\ Len(Tail(q)) = Len(q) - 1
      /\ \A n \in 1 .. Len(q) - 1 : Tail(q)[n] = q[n + 1]
  BY HeadTailProperties, EmptySeq
<1>2. DOMAIN Tail(q) = 1 .. Len(q) - 1
  BY <1>1
<1>3. \A n \in DOMAIN Tail(q) : n + 1 \in DOMAIN q /\ n + 1 > 1
  BY <1>1, <1>2
<1>4. \A m \in DOMAIN q : m # 1 => m - 1 \in DOMAIN Tail(q) /\ q[m] = Tail(q)[m - 1]
  BY <1>1, <1>2
<1>5. ASSUME NEW n \in DOMAIN Tail(q), Tail(q)[n].controller = c,
             \A m \in DOMAIN Tail(q) : m > n => Tail(q)[m].controller # c
      PROVE  Tail(q)[n].snap = d
  <2>1. n + 1 \in DOMAIN q /\ Tail(q)[n] = q[n + 1]
    BY <1>1, <1>2
  <2>2. ASSUME NEW m \in DOMAIN q, m > n + 1
        PROVE  q[m].controller # c
    <3>1. m # 1 /\ m - 1 > n
      BY <1>1, <1>2, <2>2
    <3> QED
      BY <1>4, <1>5, <3>1
  <2> QED
    BY <1>5, <2>1, <2>2 DEF LastFor
<1>6. Head(q).controller # c /\ HasFor(q, c) => HasFor(Tail(q), c)
  BY <1>1, <1>4 DEF HasFor
<1>7. Head(q).controller = c /\ ~HasFor(Tail(q), c) => Head(q).snap = d
  <2> SUFFICES ASSUME q[1].controller = c, ~HasFor(Tail(q), c)
               PROVE  q[1].snap = d
    BY <1>1
  <2>1. ASSUME NEW m \in DOMAIN q, m > 1
        PROVE  q[m].controller # c
    <3>1. m - 1 \in DOMAIN Tail(q) /\ q[m] = Tail(q)[m - 1]
      BY <1>1, <1>4, <2>1
    <3> QED
      BY <3>1 DEF HasFor
  <2> QED
    BY <1>1, <2>1 DEF LastFor
<1> QED
  BY <1>5, <1>6, <1>7 DEF LastFor

----------------------------------------------------------------------------
(* The list. *)

LEMMA LabelsFinite == Labels \subseteq Nat /\ IsFiniteSet(Labels)
<1>1. MaxMinutes \in Nat /\ Hundredths \subseteq 0 .. 99
  BY GameListAssumption
<1>2. ASSUME NEW m \in 0 .. MaxMinutes, NEW h \in Hundredths
      PROVE  100 * m + h \in 0 .. 100 * MaxMinutes + 99
  <2>1. m \in Nat /\ m <= MaxMinutes /\ h \in Nat /\ h <= 99
    BY <1>1
  <2> QED
    BY <1>1, <2>1
<1>3. Labels \in SUBSET (0 .. 100 * MaxMinutes + 99)
  BY <1>2 DEF Labels
<1>4. IsFiniteSet(0 .. 100 * MaxMinutes + 99)
  BY <1>1, FS_Interval
<1>5. IsFiniteSet(Labels)
  BY <1>3, <1>4, FS_Subset
<1>6. Labels \subseteq Nat
  <2>1. 100 * MaxMinutes + 99 \in Nat
    BY <1>1
  <2> QED
    BY <1>3, <2>1
<1> QED
  BY <1>5, <1>6

(* Lists of labels in order, as the type invariant wants them. *)
InOrderList(s) ==
    /\ s \in Seq(Labels)
    /\ \A r, t \in DOMAIN s : r < t => s[r] < s[t]

LEMMA ChildrenType ==
  ASSUME NEW d
  PROVE  InOrderList(Children(d))
<1> DEFINE S == Present(d) \cap Labels
<1>1. S \in SUBSET Labels
  OBVIOUS
<1>2. S \subseteq Nat /\ IsFiniteSet(S)
  BY <1>1, LabelsFinite, FS_Subset
<1>3. InOrder(Children(d), S) /\ Cardinality(S) \in Nat
  BY <1>2, InKeyOrderIs, FS_CardinalityType DEF Children
<1> HIDE DEF S
<1> QED
  BY <1>1, <1>3 DEF InOrder, InOrderList

LEMMA RemoveType ==
  ASSUME NEW s, InOrderList(s), NEW r \in DOMAIN s
  PROVE  InOrderList(RemoveAt(s, r))
<1> DEFINE a == SubSeq(s, 1, r - 1)
           b == SubSeq(s, r + 1, Len(s))
<1>1. s \in Seq(Labels) /\ Len(s) \in Nat /\ DOMAIN s = 1 .. Len(s) /\ r \in 1 .. Len(s)
  BY DEF InOrderList
<1>2. /\ a \in Seq(Labels) /\ Len(a) = r - 1
      /\ \A n \in 1 .. r - 1 : a[n] = s[n]
  <2>1. 1 \in 1 .. Len(s) + 1 /\ r - 1 \in 1 - 1 .. Len(s)
    BY <1>1
  <2> QED
    BY <1>1, <2>1, SubSeqProperties
<1>3. /\ b \in Seq(Labels) /\ Len(b) = Len(s) - r
      /\ \A n \in 1 .. Len(s) - r : b[n] = s[r + n]
  <2>1. r + 1 \in 1 .. Len(s) + 1 /\ Len(s) \in r + 1 - 1 .. Len(s)
    BY <1>1
  <2>2. /\ b \in Seq(Labels) /\ Len(b) = Len(s) - (r + 1) + 1
        /\ \A n \in 1 .. Len(s) - (r + 1) + 1 : b[n] = s[(r + 1) + n - 1]
    BY <1>1, <2>1, SubSeqProperties
  <2>3. Len(s) \in Int /\ r \in Int
    BY <1>1
  <2>4. Len(b) = Len(s) - r
    BY <2>2, <2>3
  <2>5. ASSUME NEW n \in 1 .. Len(s) - r PROVE b[n] = s[r + n]
    <3>1. n \in 1 .. Len(s) - (r + 1) + 1 /\ (r + 1) + n - 1 = r + n
      BY <2>3
    <3> HIDE DEF b
    <3> QED
      BY <2>2, <3>1
  <2> QED
    BY <2>2, <2>4, <2>5
<1> HIDE DEF a, b
<1>4. /\ a \o b \in Seq(Labels)
      /\ Len(a \o b) = Len(s) - 1
      /\ \A n \in 1 .. Len(a \o b) : (a \o b)[n] = s[IF n < r THEN n ELSE n + 1]
  <2>1. /\ a \o b \in Seq(Labels) /\ Len(a \o b) = Len(a) + Len(b)
        /\ \A n \in 1 .. Len(a) : (a \o b)[n] = a[n]
        /\ \A n \in 1 .. Len(b) : (a \o b)[Len(a) + n] = b[n]
    <3>1. a \in Seq(Labels) /\ b \in Seq(Labels)
      BY <1>2, <1>3
    <3> QED
      BY <3>1, ConcatProperties
  <2>2. ASSUME NEW n \in 1 .. Len(s) - 1
        PROVE  (a \o b)[n] = s[IF n < r THEN n ELSE n + 1]
    <3>1. CASE n < r
      BY <1>1, <1>2, <2>1, <3>1
    <3>2. CASE ~ (n < r)
      <4>0. n \in Int /\ r \in Int /\ Len(s) \in Int
        BY <1>1
      <4>a. Len(a) = r - 1 /\ Len(b) = Len(s) - r
        BY <1>2, <1>3
      <4>b. n - (r - 1) \in 1 .. Len(s) - r
        BY <3>2, <4>0
      <4>c. (r - 1) + (n - (r - 1)) = n /\ r + (n - (r - 1)) = n + 1
        BY <4>0
      <4>1. n - (r - 1) \in 1 .. Len(b) /\ Len(a) + (n - (r - 1)) = n
            /\ r + (n - (r - 1)) = n + 1
        BY <4>a, <4>b, <4>c
      <4>2. (a \o b)[n] = b[n - (r - 1)]
        BY <2>1, <4>1
      <4>3. b[n - (r - 1)] = s[n + 1]
        BY <1>3, <4>1
      <4> QED
        BY <3>2, <4>2, <4>3
    <3> QED
      BY <3>1, <3>2
  <2> QED
    BY <1>1, <1>2, <1>3, <2>1, <2>2
<1>5. DOMAIN (a \o b) = 1 .. Len(s) - 1
  BY <1>4
<1>6. ASSUME NEW m \in DOMAIN (a \o b), NEW n \in DOMAIN (a \o b), m < n
      PROVE  (a \o b)[m] < (a \o b)[n]
  <2> DEFINE i == IF m < r THEN m ELSE m + 1
             j == IF n < r THEN n ELSE n + 1
  <2>0. m \in 1 .. Len(s) - 1 /\ n \in 1 .. Len(s) - 1
    BY <1>5
  <2>1. i \in DOMAIN s /\ j \in DOMAIN s /\ i < j
    BY <1>1, <1>6, <2>0
  <2>2. (a \o b)[m] = s[i] /\ (a \o b)[n] = s[j]
    BY <1>4, <1>5
  <2> QED
    BY <2>1, <2>2 DEF InOrderList
<1> QED
  BY <1>4, <1>6 DEF InOrderList, RemoveAt, a, b

WriteSet == [op : {"set", "remove"}, label : Labels]

ObserveSet(c) == [op : {"observe"}, controller : 1 .. c]

EventSet(c) == [controller : 1 .. c, snap : Node]

LEMMA ApplyType ==
  ASSUME NEW d \in Node, NEW w \in WriteSet
  PROVE  Apply(d, w) \in Node
BY GameListAssumption DEF Node, WriteSet, Apply, Keys, Kinds, Games

LEMMA HeadType ==
  ASSUME TypeOK, sharedQueue # <<>>
  PROVE  /\ Head(sharedQueue) \in WriteSet \cup ObserveSet(controllers)
         /\ Tail(sharedQueue) \in Seq(WriteSet \cup ObserveSet(controllers))
         /\ Head(sharedQueue).op = "observe" => Head(sharedQueue).controller \in 1 .. controllers
         /\ Head(sharedQueue).op # "observe" => Head(sharedQueue) \in WriteSet
<1>1. sharedQueue \in Seq(WriteSet \cup ObserveSet(controllers))
  BY DEF TypeOK, WriteSet, ObserveSet
<1>2. /\ Head(sharedQueue) \in WriteSet \cup ObserveSet(controllers)
      /\ Tail(sharedQueue) \in Seq(WriteSet \cup ObserveSet(controllers))
  BY <1>1, HeadTailProperties, EmptySeq
<1> QED
  BY <1>2 DEF WriteSet, ObserveSet

LEMMA EventType ==
  ASSUME TypeOK, mainQueue # <<>>
  PROVE  /\ Head(mainQueue) \in EventSet(controllers)
         /\ Tail(mainQueue) \in Seq(EventSet(controllers))
<1>1. mainQueue \in Seq(EventSet(controllers))
  BY DEF TypeOK, EventSet
<1> QED
  BY <1>1, HeadTailProperties, EmptySeq

(* The types, for a step that leaves the screen alone. *)
LEMMA GamesType ==
  ASSUME TypeOK, NEW d \in Node, Becomes(d), UNCHANGED <<screen, observers>>
  PROVE  games' \in Node /\ mainQueue' \in Seq([controller : 1 .. controllers', snap : Node])
<1>1. mainQueue \in Seq([controller : 1 .. controllers, snap : Node])
  BY DEF TypeOK
<1>2. Round(d) \in Seq([controller : 1 .. controllers, snap : Node])
  BY RoundType
<1>3. mainQueue \o Round(d) \in Seq([controller : 1 .. controllers, snap : Node])
  BY <1>1, <1>2, ConcatProperties
<1> QED
  BY <1>1, <1>3 DEF Becomes, screen

LEMMA NothingType == \A S : <<>> \in Seq(S)
BY EmptySeq

LEMMA TypeInit == Init => TypeOK
<1> SUFFICES ASSUME Init PROVE TypeOK
  OBVIOUS
<1>1. MaxControllers \in Nat /\ MaxMinutes \in Nat /\ MaxTaps \in Nat /\ MaxElsewhere \in Nat
  BY GameListAssumption
<1>2. games \in Node
  BY GameListAssumption DEF Init, Saved, Node, Keys, Kinds, Games
<1>3. /\ DOMAIN gamesList = {} /\ gamesList \in Seq(Labels)
      /\ observers \in Seq(1 .. controllers)
      /\ sharedQueue \in Seq(WriteSet \cup ObserveSet(controllers))
      /\ mainQueue \in Seq(EventSet(controllers))
  BY NothingType DEF Init
<1>4. /\ signedIn \in BOOLEAN /\ running \in BOOLEAN
      /\ shown \in BOOLEAN /\ synced \in BOOLEAN
  BY DEF Init
<1>6. /\ controllers \in 0 .. MaxControllers
      /\ minute \in 0 .. MaxMinutes
      /\ taps \in 0 .. MaxTaps
      /\ elsewhere \in 0 .. MaxElsewhere
  BY <1>1 DEF Init
<1>7. alert \in Labels \cup {None}
  BY DEF Init
<1>5. \A r, t \in DOMAIN gamesList : r < t => gamesList[r] < gamesList[t]
  BY <1>3
<1> QED
  BY <1>2, <1>3, <1>4, <1>5, <1>6, <1>7 DEF TypeOK, WriteSet, ObserveSet, EventSet

LEMMA HandleType ==
  ASSUME TypeOK, Tap, NEW s, NEW a \in Labels \cup {None}, NEW ws,
         InOrderList(s), ws \in Seq(WriteSet), Handle(s, a, ws)
  PROVE  TypeOK'
<1>1. sharedQueue \in Seq(WriteSet \cup ObserveSet(controllers))
  BY DEF TypeOK, WriteSet, ObserveSet
<1>2. ws \in Seq(WriteSet \cup ObserveSet(controllers))
  BY SeqMonotonic
<1>3. sharedQueue \o ws \in Seq(WriteSet \cup ObserveSet(controllers))
  BY <1>1, <1>2, ConcatProperties
<1>4. sharedQueue' \in Seq([op : {"set", "remove"}, label : Labels]
                            \cup [op : {"observe"}, controller : 1 .. controllers'])
  BY <1>3 DEF Handle, WriteSet, ObserveSet
<1>5. /\ gamesList' \in Seq(Labels)
      /\ \A r, t \in DOMAIN gamesList' : r < t => gamesList'[r] < gamesList'[t]
  BY DEF Handle, InOrderList
<1>6. taps' \in 0 .. MaxTaps
  BY GameListAssumption DEF Tap, TypeOK
<1> QED
  BY <1>4, <1>5, <1>6 DEF TypeOK, Handle, outside, firebase

LEMMA EndsType ==
  ASSUME TypeOK, Ends, taps' \in 0 .. MaxTaps
  PROVE  TypeOK'
<1>1. /\ DOMAIN gamesList' = {} /\ gamesList' \in Seq(Labels)
      /\ observers' \in Seq(1 .. controllers')
      /\ sharedQueue' \in Seq(WriteSet \cup ObserveSet(controllers'))
      /\ mainQueue' \in Seq(EventSet(controllers'))
  BY NothingType DEF Ends
<1>2. /\ signedIn' \in BOOLEAN /\ running' \in BOOLEAN
      /\ shown' \in BOOLEAN /\ synced' \in BOOLEAN
      /\ games' \in Node
  BY DEF TypeOK, Ends
<1>4. controllers' \in 0 .. MaxControllers
  BY GameListAssumption DEF Ends
<1>5. alert' \in Labels \cup {None}
  BY DEF Ends
<1>6. /\ minute' \in 0 .. MaxMinutes
      /\ elsewhere' \in 0 .. MaxElsewhere
  BY DEF TypeOK, Ends, outside
<1>3. \A r, t \in DOMAIN gamesList' : r < t => gamesList'[r] < gamesList'[t]
  BY <1>1
<1> QED
  BY <1>1, <1>2, <1>3, <1>4, <1>5, <1>6 DEF TypeOK, WriteSet, ObserveSet, EventSet

(* A change made elsewhere leaves a node, in which lastSelectedGame is as  *)
(* it was.                                                                 *)
LEMMA ElsewhereIs ==
  ASSUME TypeOK, Elsewhere
  PROVE  \E d \in Node :
            /\ elsewhere' \in 0 .. MaxElsewhere
            /\ Becomes(d)
            /\ d[LastSelectedGame] = games[LastSelectedGame]
            /\ UNCHANGED <<signedIn, running, taps, screen, minute, synced, observers, sharedQueue>>
<1>1. ASSUME NEW k \in Labels \cup {Undefined}, NEW x \in Kinds \cup {None},
             ChangedElsewhere(k, x), x # "text", k = Undefined => x \in {"fragment", None}
      PROVE  \E d \in Node :
                /\ elsewhere' \in 0 .. MaxElsewhere
                /\ Becomes(d)
                /\ d[LastSelectedGame] = games[LastSelectedGame]
                /\ UNCHANGED <<signedIn, running, taps, screen, minute, synced, observers, sharedQueue>>
  <2> DEFINE d == [games EXCEPT ![k] = x]
  <2>1. d \in Node /\ d[LastSelectedGame] = games[LastSelectedGame]
    BY <1>1, GameListAssumption DEF TypeOK, Node, Keys
  <2>2. elsewhere' \in 0 .. MaxElsewhere
    BY <1>1, GameListAssumption DEF ChangedElsewhere, TypeOK
  <2>3. Becomes(d) /\ UNCHANGED <<signedIn, running, taps, screen, minute, synced, observers, sharedQueue>>
    BY <1>1 DEF ChangedElsewhere
  <2> HIDE DEF d
  <2> QED
    BY <2>1, <2>2, <2>3
<1>2. ASSUME NEW l \in Labels, DeletedElsewhere(l) \/ AddedElsewhere(l)
      PROVE  \E x \in {None, "missing"} : ChangedElsewhere(l, x) /\ l # Undefined
  BY <1>2, GameListAssumption DEF DeletedElsewhere, AddedElsewhere
<1>3. ASSUME NEW k \in Labels \cup {Undefined}, RecordedElsewhere(k) \/ EmptiedElsewhere(k)
      PROVE  \E x \in {None, "missing", "pucks", "fragment"} :
                ChangedElsewhere(k, x) /\ (k = Undefined => x \in {"fragment", None})
  <2>1. k = Undefined => games[k] \in {"fragment", None}
    BY DEF TypeOK, Node
  <2>2. "fragment" \notin Games /\ None \notin Games
    BY GameListAssumption DEF Games, Kinds
  <2>3. None # "pucks" /\ None # "fragment"
    BY GameListAssumption DEF Games, Kinds
  <2> QED
    BY <1>3, <2>1, <2>2, <2>3 DEF RecordedElsewhere, EmptiedElsewhere
<1>4. {None, "missing", "pucks", "fragment"} \subseteq Kinds \cup {None} /\ None # "text"
  BY GameListAssumption DEF Kinds, Games
<1> QED
  BY <1>1, <1>2, <1>3, <1>4 DEF Elsewhere

LEMMA TypeNext == TypeOK /\ [Next]_vars => TypeOK'
<1> SUFFICES ASSUME TypeOK, [Next]_vars PROVE TypeOK'
  OBVIOUS
<1> USE GameListAssumption
<1>0. InOrderList(gamesList)
  BY DEF TypeOK, InOrderList
<1>1. CASE ViewDidLoad
  <2>1. controllers' = controllers + 1 /\ controllers \in Nat /\ controllers' \in 0 .. MaxControllers
    BY <1>1 DEF ViewDidLoad, TypeOK
  <2>2. 1 .. controllers \subseteq 1 .. controllers' /\ controllers' \in 1 .. controllers'
    BY <2>1
  <2>3. observers' \in Seq(1 .. controllers')
    BY <1>1, <2>2, SeqMonotonic DEF ViewDidLoad, TypeOK, firebase
  <2>4. mainQueue' \in Seq([controller : 1 .. controllers', snap : Node])
    <3>1. EventSet(controllers) \subseteq EventSet(controllers')
      BY <2>2 DEF EventSet
    <3>2. mainQueue \in Seq(EventSet(controllers))
      BY DEF TypeOK, EventSet
    <3>3. mainQueue \in Seq(EventSet(controllers'))
      BY <3>1, <3>2, SeqMonotonic
    <3> QED
      BY <1>1, <3>3 DEF ViewDidLoad, EventSet
  <2>5. sharedQueue' \in Seq(WriteSet \cup ObserveSet(controllers'))
    <3>1. WriteSet \cup ObserveSet(controllers) \subseteq WriteSet \cup ObserveSet(controllers')
      BY <2>2 DEF ObserveSet
    <3>2. sharedQueue \in Seq(WriteSet \cup ObserveSet(controllers))
      BY DEF TypeOK, WriteSet, ObserveSet
    <3>3. sharedQueue \in Seq(WriteSet \cup ObserveSet(controllers'))
      BY <3>1, <3>2, SeqMonotonic
    <3>4. Observe(controllers') \in WriteSet \cup ObserveSet(controllers')
      BY <2>2 DEF Observe, ObserveSet
    <3> QED
      BY <1>1, <3>3, <3>4, AppendProperties DEF ViewDidLoad
  <2>6. gamesList' = <<>>
    BY <1>1 DEF ViewDidLoad
  <2> QED
    BY <1>1, <2>1, <2>3, <2>4, <2>5, <2>6 DEF ViewDidLoad, TypeOK, outside, firebase, WriteSet, ObserveSet
<1>2. CASE Back
  BY <1>2 DEF Back, TypeOK, outside, firebase, queues
<1>3. CASE AddNewGame
  <2>1. PICK h \in Hundredths : Handle(gamesList, 100 * minute + h, <<>>)
    BY <1>3 DEF AddNewGame
  <2>2. 100 * minute + h \in Labels
    <3>1. minute \in 0 .. MaxMinutes
      BY DEF TypeOK
    <3> QED
      BY <3>1 DEF Labels
  <2> QED
    BY <1>0, <1>3, <2>1, <2>2, NothingType, HandleType DEF AddNewGame
<1>4. CASE Save
  <2>1. <<SetValue(alert)>> \in Seq(WriteSet)
    BY <1>4 DEF Save, SetValue, WriteSet, TypeOK
  <2> QED
    BY <1>0, <1>4, <2>1, HandleType DEF Save
<1>5. CASE SaveTraps
  BY <1>5, EndsType DEF SaveTraps, Tap, TypeOK
<1>6. CASE Cancel
  BY <1>0, <1>6, NothingType, HandleType DEF Cancel
<1>7. ASSUME NEW r \in DOMAIN gamesList, DeleteRow(r)
      PROVE  TypeOK'
  <2>1. InOrderList(RemoveAt(gamesList, r))
    BY <1>0, RemoveType
  <2>2. <<RemoveValue(gamesList[r])>> \in Seq(WriteSet)
    BY DEF RemoveValue, WriteSet, TypeOK
  <2>3. alert \in Labels \cup {None}
    BY DEF TypeOK
  <2> QED
    BY <1>7, <2>1, <2>2, <2>3, HandleType DEF DeleteRow
<1>8. CASE RunObserve
  <2>1. /\ Head(sharedQueue).controller \in 1 .. controllers
        /\ Tail(sharedQueue) \in Seq(WriteSet \cup ObserveSet(controllers))
    BY <1>8, HeadType DEF RunObserve
  <2>2. observers' \in Seq(1 .. controllers)
    BY <1>8, <2>1, AppendProperties DEF RunObserve, TypeOK
  <2>3. mainQueue' \in Seq(EventSet(controllers))
    <3>1. Event(Head(sharedQueue).controller, games) \in EventSet(controllers)
      BY <2>1 DEF Event, EventSet, TypeOK
    <3>2. mainQueue \in Seq(EventSet(controllers))
      BY DEF TypeOK, EventSet
    <3> QED
      BY <1>8, <3>1, <3>2, AppendProperties DEF RunObserve
  <2> QED
    BY <1>8, <2>1, <2>2, <2>3 DEF RunObserve, TypeOK, screen, outside, WriteSet, ObserveSet, EventSet
<1>9. CASE RunWrite
  <2>1. /\ Head(sharedQueue) \in WriteSet
        /\ Tail(sharedQueue) \in Seq(WriteSet \cup ObserveSet(controllers))
    BY <1>9, HeadType DEF RunWrite
  <2>2. Apply(games, Head(sharedQueue)) \in Node
    BY <2>1, ApplyType DEF TypeOK
  <2>3. games' \in Node /\ mainQueue' \in Seq([controller : 1 .. controllers', snap : Node])
    BY <1>9, <2>2, GamesType DEF RunWrite
  <2> QED
    BY <1>9, <2>1, <2>3 DEF RunWrite, TypeOK, screen, outside, WriteSet, ObserveSet
<1>10. CASE DeliverEvent
  <2>1. InOrderList(gamesList')
    BY <1>0, <1>10, ChildrenType DEF DeliverEvent
  <2>2. Tail(mainQueue) \in Seq(EventSet(controllers))
    BY <1>10, EventType DEF DeliverEvent
  <2> QED
    BY <1>10, <2>1, <2>2 DEF DeliverEvent, TypeOK, InOrderList, outside, firebase, EventSet
<1>11. CASE CallbackTraps
  BY <1>11, EndsType DEF CallbackTraps, TypeOK
<1>12. CASE ServerAnswers
  <2>1. Round(games) \in Seq([controller : 1 .. controllers, snap : Node])
    BY RoundType DEF TypeOK
  <2>2. mainQueue \o Round(games) \in Seq([controller : 1 .. controllers, snap : Node])
    BY <2>1, ConcatProperties DEF TypeOK
  <2> QED
    BY <1>12, <2>2 DEF ServerAnswers, TypeOK, screen, outside
<1>14. CASE Elsewhere
  <2>1. PICK d \in Node :
            /\ elsewhere' \in 0 .. MaxElsewhere
            /\ Becomes(d)
            /\ UNCHANGED <<signedIn, running, taps, screen, minute, synced, observers, sharedQueue>>
    BY <1>14, ElsewhereIs
  <2>2. games' \in Node /\ mainQueue' \in Seq([controller : 1 .. controllers', snap : Node])
    BY <2>1, GamesType DEF screen
  <2> QED
    BY <2>1, <2>2 DEF TypeOK, screen
<1>15. CASE Relaunch
  BY <1>15 DEF Relaunch, TypeOK, screen, outside, firebase, queues
<1>16. CASE Tick
  BY <1>16 DEF Tick, TypeOK, screen, firebase, queues
<1>17. CASE UNCHANGED vars
  BY <1>17 DEF vars, TypeOK, screen, outside, firebase, queues
<1> QED
  BY <1>1, <1>2, <1>3, <1>4, <1>5, <1>6, <1>7, <1>8, <1>9, <1>10, <1>11, <1>12, <1>14,
     <1>15, <1>16, <1>17 DEF Next, UserStep, QueueStep

(* The list on the screen is a list of labels in the order of their keys,  *)
(* every write names a label, and every event is for a controller made     *)
(* since the app was started: for any number of visits, taps and changes.  *)
THEOREM ListTypes == Spec => []TypeOK
BY TypeInit, TypeNext, PTL DEF Spec

----------------------------------------------------------------------------
(* No list is left behind. *)

(* Writes that wait stay effective while the games are as they are.        *)
LEMMA EffectiveStays ==
  ASSUME TypeOK, Effective, games' = games, NEW ws \in Seq(WriteSet),
         sharedQueue' = sharedQueue \o ws
  PROVE  Effective'
<1>1. sharedQueue \in Seq(WriteSet \cup ObserveSet(controllers))
  BY DEF TypeOK, WriteSet, ObserveSet
<1>2. ws \in Seq(WriteSet \cup ObserveSet(controllers))
  BY SeqMonotonic
<1>3. \A n \in DOMAIN sharedQueue : n \in DOMAIN sharedQueue' /\ sharedQueue'[n] = sharedQueue[n]
  BY <1>1, <1>2, ConcatProperties
<1> QED
  BY <1>3 DEF Effective, Apply

(* The first of the queue is done: if it was no effective write, the       *)
(* others are as effective as before.                                      *)
LEMMA EffectiveTail ==
  ASSUME TypeOK, sharedQueue # <<>>, Effective, games' = games,
         sharedQueue' = Tail(sharedQueue),
         IsWrite(Head(sharedQueue)) => Apply(games, Head(sharedQueue)) = games
  PROVE  Effective'
<1>1. /\ Len(sharedQueue) \in Nat /\ DOMAIN sharedQueue = 1 .. Len(sharedQueue)
      /\ Head(sharedQueue) = sharedQueue[1]
      /\ DOMAIN sharedQueue' = 1 .. Len(sharedQueue) - 1
      /\ \A n \in 1 .. Len(sharedQueue) - 1 : sharedQueue'[n] = sharedQueue[n + 1]
  <2>1. sharedQueue \in Seq(WriteSet \cup ObserveSet(controllers))
    BY DEF TypeOK, WriteSet, ObserveSet
  <2> QED
    BY <2>1, HeadTailProperties, EmptySeq
<1>2. PICK n \in DOMAIN sharedQueue :
        IsWrite(sharedQueue[n]) /\ Apply(games, sharedQueue[n]) # games
  BY DEF Effective
<1>3. n # 1 /\ n - 1 \in DOMAIN sharedQueue' /\ sharedQueue'[n - 1] = sharedQueue[n]
  BY <1>1, <1>2
<1> QED
  BY <1>2, <1>3 DEF Effective, Apply

(* The same for a request that waits. *)
LEMMA AskedStays ==
  ASSUME TypeOK, Asked, NEW ws \in Seq(WriteSet),
         sharedQueue' = sharedQueue \o ws,
         UNCHANGED <<signedIn, shown, controllers, observers>>
  PROVE  Asked'
<1>1. sharedQueue \in Seq(WriteSet \cup ObserveSet(controllers))
  BY DEF TypeOK, WriteSet, ObserveSet
<1>2. ws \in Seq(WriteSet \cup ObserveSet(controllers))
  BY SeqMonotonic
<1>3. \A n \in DOMAIN sharedQueue : n \in DOMAIN sharedQueue' /\ sharedQueue'[n] = sharedQueue[n]
  BY <1>1, <1>2, ConcatProperties
<1> QED
  BY <1>3 DEF Asked, Observing

LEMMA AskedTail ==
  ASSUME TypeOK, Asked, sharedQueue # <<>>, sharedQueue' = Tail(sharedQueue),
         UNCHANGED <<signedIn, shown, controllers>>,
         Observing => Observing',
         Head(sharedQueue).op = "observe" /\ Head(sharedQueue).controller = controllers
            => Observing'
  PROVE  Asked'
<1> SUFFICES ASSUME signedIn, shown, ~Observing, ~Observing'
             PROVE  \E n \in DOMAIN sharedQueue' :
                       sharedQueue'[n].op = "observe" /\ sharedQueue'[n].controller = controllers
  BY DEF Asked
<1>1. /\ Len(sharedQueue) \in Nat /\ DOMAIN sharedQueue = 1 .. Len(sharedQueue)
      /\ Head(sharedQueue) = sharedQueue[1]
      /\ DOMAIN sharedQueue' = 1 .. Len(sharedQueue) - 1
      /\ \A n \in 1 .. Len(sharedQueue) - 1 : sharedQueue'[n] = sharedQueue[n + 1]
  <2>1. sharedQueue \in Seq(WriteSet \cup ObserveSet(controllers))
    BY DEF TypeOK, WriteSet, ObserveSet
  <2> QED
    BY <2>1, HeadTailProperties, EmptySeq
<1>2. PICK n \in DOMAIN sharedQueue :
        sharedQueue[n].op = "observe" /\ sharedQueue[n].controller = controllers
  BY DEF Asked
<1>3. n # 1 /\ n - 1 \in DOMAIN sharedQueue' /\ sharedQueue'[n - 1] = sharedQueue[n]
  BY <1>1, <1>2
<1> QED
  BY <1>2, <1>3

(* When the games change every observer hears of it. *)
LEMMA ChangeIsHeard ==
  ASSUME IInv, NEW d \in Node, Becomes(d), d # games,
         UNCHANGED <<screen, synced, observers>>
  PROVE  ListNotLeftBehind'
<1> SUFFICES ASSUME shown, synced, Observing
             PROVE  LastFor(mainQueue', controllers, d) /\ HasFor(mainQueue', controllers)
  BY DEF ListNotLeftBehind, screen, Becomes, Observing
<1>1. mainQueue' = mainQueue \o Round(d)
  BY DEF Becomes
<1>2. /\ Round(d) \in Seq([controller : 1 .. controllers, snap : Node])
      /\ HasFor(Round(d), controllers)
      /\ LastFor(Round(d), controllers, d)
  BY RoundFor DEF IInv
<1>3. mainQueue \in Seq([controller : 1 .. controllers, snap : Node])
  BY DEF IInv, TypeOK
<1> HIDE DEF IInv
<1> QED
  BY <1>1, <1>2, <1>3, ConcatFor

(* A handler keeps up: when the list shows the games, a row removed from   *)
(* it is removed by a write that waits.                                    *)
LEMMA HandleKeeps ==
  ASSUME IInv, NEW s, NEW a, NEW ws \in Seq(WriteSet), Handle(s, a, ws),
         s # gamesList /\ Lists => \/ Present(games) = {}
                                   \/ \E n \in DOMAIN ws : Apply(games, ws[n]) # games
  PROVE  Asked' /\ ListNotLeftBehind'
<1> USE DEF IInv
<1>1. /\ sharedQueue' = sharedQueue \o ws /\ gamesList' = s
      /\ UNCHANGED <<signedIn, shown, controllers, observers, games, synced, mainQueue>>
  BY DEF Handle, firebase
<1>2. Asked'
  BY <1>1, AskedStays
<1>3. (\E n \in DOMAIN ws : Apply(games, ws[n]) # games) => Effective'
  <2> SUFFICES ASSUME NEW n \in DOMAIN ws, Apply(games, ws[n]) # games PROVE Effective'
    OBVIOUS
  <2>1. /\ sharedQueue \in Seq(WriteSet \cup ObserveSet(controllers))
        /\ ws \in Seq(WriteSet \cup ObserveSet(controllers))
        /\ ws[n] \in WriteSet
    <3>1. sharedQueue \in Seq(WriteSet \cup ObserveSet(controllers))
      BY DEF TypeOK, WriteSet, ObserveSet
    <3>2. ws \in Seq(WriteSet \cup ObserveSet(controllers))
      BY SeqMonotonic
    <3>3. ws[n] \in WriteSet
      OBVIOUS
    <3> QED
      BY <3>1, <3>2, <3>3
  <2>2. Len(sharedQueue) + n \in DOMAIN sharedQueue' /\ sharedQueue'[Len(sharedQueue) + n] = ws[n]
    BY <1>1, <2>1, ConcatProperties
  <2>3. IsWrite(ws[n])
    BY <2>1 DEF WriteSet, IsWrite
  <2> QED
    BY <1>1, <2>2, <2>3 DEF Effective, Apply
<1>4. Effective => Effective'
  BY <1>1, EffectiveStays
<1>5. Lists => Lists' \/ Effective'
  BY <1>1, <1>3 DEF Lists, Children, Present, Castable
<1>6. ListNotLeftBehind'
  BY <1>1, <1>4, <1>5 DEF ListNotLeftBehind, Observing
<1> QED
  BY <1>2, <1>6

LEMMA InvInit == Init => IInv
<1> SUFFICES ASSUME Init PROVE IInv
  OBVIOUS
<1>1. Asked /\ ListNotLeftBehind
  BY DEF Init, Asked, ListNotLeftBehind
<1> QED
  BY <1>1, TypeInit DEF IInv

LEMMA InvNext == IInv /\ [Next]_vars => IInv'
<1> SUFFICES ASSUME IInv, [Next]_vars PROVE IInv'
  OBVIOUS
<1>0. TypeOK /\ Asked /\ ListNotLeftBehind
  BY DEF IInv
<1>t. TypeOK'
  BY TypeNext DEF IInv
<1> SUFFICES Asked' /\ ListNotLeftBehind'
  BY <1>t DEF IInv
<1>a. ASSUME Ends PROVE Asked' /\ ListNotLeftBehind'
  BY <1>a DEF Ends, Asked, ListNotLeftBehind
<1>b. ASSUME UNCHANGED <<signedIn, shown, controllers, gamesList, firebase, queues>>
      PROVE  Asked' /\ ListNotLeftBehind'
  BY <1>0, <1>b DEF firebase, queues, Asked, ListNotLeftBehind, Observing, Effective, Lists,
     Children, Present, Castable, Apply
<1>1. CASE ViewDidLoad
  <2>1. controllers' = controllers + 1 /\ controllers \in Nat
    BY <1>0, <1>1 DEF ViewDidLoad, TypeOK
  <2>2. ~Observing'
    <3>0. observers \in Seq(1 .. controllers)
      BY <1>0 DEF TypeOK
    <3>1. \A n \in DOMAIN observers : observers[n] \in 1 .. controllers
      <4>1. DOMAIN observers = 1 .. Len(observers)
        BY <3>0
      <4> QED
        BY <3>0, <4>1, ElementOfSeq
    <3> QED
      BY <1>1, <2>1, <3>1 DEF ViewDidLoad, firebase, Observing, Range
  <2>3. Asked'
    <3> SUFFICES ASSUME signedIn PROVE \E n \in DOMAIN sharedQueue' :
                    sharedQueue'[n].op = "observe" /\ sharedQueue'[n].controller = controllers'
      BY <1>1 DEF ViewDidLoad, Asked
    <3>1. sharedQueue' = Append(sharedQueue, Observe(controllers'))
      BY <1>1 DEF ViewDidLoad
    <3>2. sharedQueue \in Seq(WriteSet \cup ObserveSet(controllers))
      BY <1>0 DEF TypeOK, WriteSet, ObserveSet
    <3>3. /\ Len(sharedQueue) + 1 \in DOMAIN sharedQueue'
          /\ sharedQueue'[Len(sharedQueue) + 1] = Observe(controllers')
      BY <3>1, <3>2
    <3> QED
      BY <3>3 DEF Observe
  <2> QED
    BY <2>2, <2>3 DEF ListNotLeftBehind
<1>2. CASE Back
  BY <1>2 DEF Back, Asked, ListNotLeftBehind
<1>3. CASE AddNewGame
  <2>1. <<>> \in Seq(WriteSet)
    BY NothingType
  <2> QED
    BY <1>3, <2>1, HandleKeeps DEF AddNewGame
<1>4. CASE Save
  <2>1. <<SetValue(alert)>> \in Seq(WriteSet)
    BY <1>0, <1>4 DEF Save, SetValue, WriteSet, TypeOK
  <2> QED
    BY <1>4, <2>1, HandleKeeps DEF Save
<1>5. CASE SaveTraps
  BY <1>5, <1>a DEF SaveTraps
<1>6. CASE Cancel
  <2>1. <<>> \in Seq(WriteSet)
    BY NothingType
  <2> QED
    BY <1>6, <2>1, HandleKeeps DEF Cancel
<1>7. ASSUME NEW r \in DOMAIN gamesList, DeleteRow(r)
      PROVE  Asked' /\ ListNotLeftBehind'
  <2> DEFINE l == gamesList[r]
             ws == <<RemoveValue(l)>>
  <2>1. l \in Labels
    BY <1>0 DEF TypeOK
  <2>2. ws \in Seq(WriteSet) /\ 1 \in DOMAIN ws /\ ws[1] = RemoveValue(l)
    BY <2>1 DEF RemoveValue, WriteSet
  <2>3. ASSUME Lists, Present(games) # {}
        PROVE  Apply(games, RemoveValue(l)) # games
    <3> DEFINE S == Present(games) \cap Labels
    <3>1. S \subseteq Nat /\ IsFiniteSet(S)
      BY LabelsFinite, FS_Subset
    <3>2. gamesList \in [1 .. Cardinality(S) -> S]
      BY <2>3, <3>1, InKeyOrderIs DEF Lists, Children, InOrder
    <3>3. games[l] # None
      BY <3>2 DEF Present
    <3>4. Apply(games, RemoveValue(l))[l] = None
      BY <1>0, <2>1 DEF TypeOK, Node, Keys, Apply, RemoveValue
    <3> QED
      BY <3>3, <3>4
  <2>4. Handle(RemoveAt(gamesList, r), alert, ws)
    BY <1>7 DEF DeleteRow
  <2> HIDE DEF ws
  <2> QED
    BY <2>2, <2>3, <2>4, HandleKeeps
<1>8. CASE RunObserve
  <2> DEFINE c == Head(sharedQueue).controller
  <2>1. /\ sharedQueue # <<>> /\ Head(sharedQueue).op = "observe" /\ c \in 1 .. controllers
        /\ sharedQueue' = Tail(sharedQueue) /\ observers' = Append(observers, c)
        /\ mainQueue' = IF synced THEN Append(mainQueue, Event(c, games)) ELSE mainQueue
        /\ UNCHANGED <<signedIn, shown, controllers, gamesList, games, synced>>
    BY <1>0, <1>8, HeadType DEF RunObserve, screen
  <2> HIDE DEF c
  <2>2. observers' \in Seq(1 .. controllers) /\ Range(observers') = Range(observers) \cup {c}
    <3>1. observers \in Seq(1 .. controllers)
      BY <1>0 DEF TypeOK
    <3>2. /\ Len(observers) \in Nat /\ DOMAIN observers = 1 .. Len(observers)
          /\ DOMAIN observers' = 1 .. Len(observers) + 1
          /\ \A n \in 1 .. Len(observers) : observers'[n] = observers[n]
          /\ observers'[Len(observers) + 1] = c
          /\ observers' \in Seq(1 .. controllers)
      BY <2>1, <3>1, AppendProperties
    <3>3. Len(observers) + 1 \in DOMAIN observers'
      BY <3>2
    <3> QED
      BY <3>2, <3>3 DEF Range
  <2>3. Asked'
    <3>1. c = controllers \/ Observing => Observing'
      BY <2>1, <2>2 DEF Observing
    <3> QED
      BY <1>0, <2>1, <3>1, AskedTail DEF c
  <2>4. ListNotLeftBehind'
    <3> SUFFICES ASSUME shown, synced, Observing'
                 PROVE  /\ LastFor(mainQueue', controllers, games)
                        /\ HasFor(mainQueue', controllers) \/ Effective' \/ Lists
      BY <2>1 DEF ListNotLeftBehind, Lists, Children, Present, Castable
    <3> DEFINE e == Event(c, games)
    <3>1. /\ e \in EventSet(controllers) /\ e.controller = c /\ e.snap = games
          /\ mainQueue \in Seq(EventSet(controllers))
      BY <1>0, <2>1 DEF Event, EventSet, TypeOK
    <3>2. mainQueue' = Append(mainQueue, e)
      BY <2>1
    <3> HIDE DEF e
    <3>3. c # controllers => Observing
      BY <2>1, <2>2 DEF Observing
    <3>4. LastFor(mainQueue', controllers, games)
      BY <1>0, <3>1, <3>2, <3>3, AppendFor DEF ListNotLeftBehind
    <3>5. c = controllers \/ HasFor(mainQueue, controllers) => HasFor(mainQueue', controllers)
      BY <1>0, <3>1, <3>2, <3>3, AppendFor DEF ListNotLeftBehind
    <3>6. Effective => Effective'
      BY <1>0, <2>1, EffectiveTail DEF IsWrite
    <3> QED
      BY <1>0, <3>3, <3>4, <3>5, <3>6 DEF ListNotLeftBehind
  <2> QED
    BY <2>3, <2>4
<1>9. CASE RunWrite
  <2> DEFINE w == Head(sharedQueue)
             d == Apply(games, w)
  <2>1. /\ sharedQueue # <<>> /\ w.op # "observe" /\ w \in WriteSet
        /\ sharedQueue' = Tail(sharedQueue)
        /\ Becomes(d)
        /\ UNCHANGED <<signedIn, screen, synced, observers>>
    BY <1>0, <1>9, HeadType DEF RunWrite
  <2>2. Asked'
    <3>1. Observing => Observing'
      BY <2>1 DEF Observing, screen
    <3> QED
      BY <1>0, <2>1, <3>1, AskedTail DEF screen
  <2>3. CASE d # games
    <3>1. d \in Node
      BY <1>0, <2>1, ApplyType DEF TypeOK
    <3> HIDE DEF d
    <3> QED
      BY <2>1, <2>2, <2>3, <3>1, ChangeIsHeard
  <2>4. CASE d = games
    <3>1. Effective => Effective'
      BY <1>0, <2>1, <2>4, EffectiveTail DEF Becomes
    <3>2. UNCHANGED <<shown, controllers, gamesList, games, synced, observers, mainQueue>>
      BY <2>1, <2>4 DEF Becomes, screen
    <3>3. Lists => Lists'
      BY <3>2 DEF Lists, Children, Present, Castable
    <3> QED
      BY <1>0, <2>2, <3>1, <3>2, <3>3 DEF ListNotLeftBehind, Observing
  <2> QED
    BY <2>3, <2>4
<1>10. CASE DeliverEvent
  <2> DEFINE e == Head(mainQueue)
  <2>1. /\ mainQueue # <<>> /\ mainQueue' = Tail(mainQueue)
        /\ mainQueue \in Seq(EventSet(controllers))
        /\ Castable(e.snap)
        /\ gamesList' = IF e.controller # controllers \/ Present(e.snap) = {} THEN gamesList
                        ELSE Children(e.snap)
        /\ UNCHANGED <<signedIn, shown, controllers, games, synced, observers, sharedQueue>>
    BY <1>0, <1>10 DEF DeliverEvent, firebase, TypeOK, EventSet
  <2>2. Asked'
    BY <1>0, <2>1 DEF Asked, Observing
  <2>3. ListNotLeftBehind'
    <3> SUFFICES ASSUME shown, synced, Observing
                 PROVE  /\ LastFor(mainQueue', controllers, games)
                        /\ HasFor(mainQueue', controllers) \/ Effective' \/ Lists'
      BY <2>1 DEF ListNotLeftBehind, Observing
    <3>1. LastFor(mainQueue, controllers, games)
          /\ (HasFor(mainQueue, controllers) \/ Effective \/ Lists)
      BY <1>0 DEF ListNotLeftBehind
    <3>2. /\ LastFor(mainQueue', controllers, games)
          /\ e.controller # controllers /\ HasFor(mainQueue, controllers)
                => HasFor(mainQueue', controllers)
          /\ e.controller = controllers /\ ~HasFor(mainQueue', controllers) => e.snap = games
      BY <2>1, <3>1, TailFor
    <3>3. Effective => Effective'
      BY <2>1 DEF Effective, Apply
    <3>4. CASE e.controller = controllers
      <4>1. e.snap = games => Lists'
        BY <2>1, <3>4 DEF Lists, Children, Present, Castable
      <4> QED
        BY <3>2, <3>4, <4>1
    <3>5. CASE e.controller # controllers
      <4>1. Lists => Lists'
        BY <2>1, <3>5 DEF Lists, Children, Present, Castable
      <4> QED
        BY <3>1, <3>2, <3>3, <3>5, <4>1
    <3> QED
      BY <3>4, <3>5
  <2> QED
    BY <2>2, <2>3
<1>11. CASE CallbackTraps
  BY <1>11, <1>a DEF CallbackTraps
<1>12. CASE ServerAnswers
  <2>1. /\ mainQueue' = mainQueue \o Round(games)
        /\ UNCHANGED <<signedIn, shown, controllers, games, observers, sharedQueue>>
    BY <1>12 DEF ServerAnswers, screen
  <2>2. Asked'
    BY <1>0, <2>1 DEF Asked, Observing
  <2>3. ASSUME Observing
        PROVE  LastFor(mainQueue', controllers, games) /\ HasFor(mainQueue', controllers)
    <3>1. games \in Node /\ mainQueue \in Seq([controller : 1 .. controllers, snap : Node])
      BY <1>0 DEF TypeOK
    <3>2. /\ Round(games) \in Seq([controller : 1 .. controllers, snap : Node])
          /\ HasFor(Round(games), controllers)
          /\ LastFor(Round(games), controllers, games)
      BY <1>0, <2>3, <3>1, RoundFor
    <3> QED
      BY <2>1, <3>1, <3>2, ConcatFor
  <2> QED
    BY <2>1, <2>2, <2>3 DEF ListNotLeftBehind, Observing
<1>14. CASE Elsewhere
  <2>1. PICK d \in Node :
            /\ Becomes(d)
            /\ UNCHANGED <<signedIn, running, taps, screen, minute, synced, observers, sharedQueue>>
    BY <1>0, <1>14, ElsewhereIs
  <2>2. CASE d # games
    <3>1. Asked'
      BY <1>0, <2>1 DEF Asked, Observing, screen
    <3> QED
      BY <2>1, <2>2, <3>1, ChangeIsHeard
  <2>3. CASE d = games
    BY <1>b, <2>1, <2>3 DEF Becomes, screen, firebase, queues
  <2> QED
    BY <2>2, <2>3
<1>15. CASE Relaunch
  BY <1>15, <1>b DEF Relaunch, screen
<1>16. CASE Tick
  BY <1>16, <1>b DEF Tick, screen
<1>17. CASE UNCHANGED vars
  BY <1>17, <1>b DEF vars, screen
<1> QED
  BY <1>1, <1>2, <1>3, <1>4, <1>5, <1>6, <1>7, <1>8, <1>9, <1>10, <1>11, <1>12, <1>14,
     <1>15, <1>16, <1>17 DEF Next, UserStep, QueueStep

(* Whatever was tapped, changed elsewhere and delivered late, and however  *)
(* many lists were opened and closed before: when both queues have run dry *)
(* the list on the screen is the user's games in the order of their keys,  *)
(* and no other child is among them.                                       *)
THEOREM ListShowsTheGames == Spec => []ListIsTheGames
<1>1. IInv => ListIsTheGames
  <2> SUFFICES ASSUME IInv, signedIn, shown, Settled PROVE Lists
    BY DEF ListIsTheGames
  <2>1. synced /\ DOMAIN sharedQueue = {} /\ DOMAIN mainQueue = {}
    BY DEF Settled
  <2>2. Observing
    BY <2>1 DEF IInv, Asked
  <2> QED
    BY <2>1, <2>2 DEF IInv, ListNotLeftBehind, HasFor, Effective
<1> QED
  BY <1>1, InvInit, InvNext, PTL DEF Spec

----------------------------------------------------------------------------
(* Accounts made in the app. *)

(* No event on its way differs from the node in lastSelectedGame: only the *)
(* sign-up writes it.                                                      *)
SameMark ==
    \A n \in DOMAIN mainQueue :
        mainQueue[n].snap[LastSelectedGame] = games[LastSelectedGame]

AppInv == TypeOK /\ SameMark /\ AppAccountShowsNothing

LEMMA MarkedRound ==
  ASSUME TypeOK, SameMark, NEW d \in Node, d[LastSelectedGame] = games[LastSelectedGame]
  PROVE  \A n \in DOMAIN (mainQueue \o Round(d)) :
            (mainQueue \o Round(d))[n].snap[LastSelectedGame] = games[LastSelectedGame]
<1> DEFINE q == mainQueue
           t == Round(d)
<1>1. q \in Seq(EventSet(controllers)) /\ t \in Seq(EventSet(controllers))
  BY RoundType DEF TypeOK, EventSet
<1>2. \A n \in DOMAIN t : t[n].snap = d
  BY DEF Round, Event
<1>3. \A n \in DOMAIN q : q[n].snap[LastSelectedGame] = games[LastSelectedGame]
  BY DEF SameMark
<1> HIDE DEF q, t
<1>4. /\ Len(q) \in Nat /\ Len(t) \in Nat
      /\ DOMAIN q = 1 .. Len(q) /\ DOMAIN t = 1 .. Len(t)
      /\ DOMAIN (q \o t) = 1 .. Len(q) + Len(t)
      /\ \A n \in 1 .. Len(q) : (q \o t)[n] = q[n]
      /\ \A n \in 1 .. Len(t) : (q \o t)[Len(q) + n] = t[n]
  BY <1>1, ConcatProperties
<1>5. ASSUME NEW n \in DOMAIN (q \o t)
      PROVE  (q \o t)[n].snap[LastSelectedGame] = games[LastSelectedGame]
  <2>1. CASE n \in 1 .. Len(q)
    BY <1>3, <1>4, <2>1
  <2>2. CASE n \notin 1 .. Len(q)
    <3>1. n - Len(q) \in 1 .. Len(t) /\ Len(q) + (n - Len(q)) = n
      BY <1>4, <2>2
    <3>2. (q \o t)[n] = t[n - Len(q)]
      BY <1>4, <3>1
    <3> QED
      BY <1>2, <1>4, <3>1, <3>2
  <2> QED
    BY <2>1, <2>2
<1> QED
  BY <1>5 DEF q, t

LEMMA MarkNext == AppInv /\ [Next]_vars => AppInv'
<1> SUFFICES ASSUME AppInv, [Next]_vars PROVE AppInv'
  OBVIOUS
<1>0. TypeOK /\ SameMark /\ AppAccountShowsNothing
  BY DEF AppInv
<1> SUFFICES SameMark' /\ AppAccountShowsNothing'
  BY <1>0, TypeNext DEF AppInv
<1>a. ASSUME Ends PROVE SameMark' /\ AppAccountShowsNothing'
  <2>1. mainQueue' = <<>> /\ gamesList' = <<>>
    BY <1>a DEF Ends
  <2> QED
    BY <2>1 DEF SameMark, AppAccountShowsNothing
<1>b. ASSUME UNCHANGED <<gamesList, games, mainQueue>>
      PROVE  SameMark' /\ AppAccountShowsNothing'
  BY <1>0, <1>b DEF SameMark, AppAccountShowsNothing
<1>c. ASSUME NEW d \in Node, Becomes(d), d[LastSelectedGame] = games[LastSelectedGame],
             UNCHANGED gamesList
      PROVE  SameMark' /\ AppAccountShowsNothing'
  <2>1. mainQueue' = mainQueue \/ mainQueue' = mainQueue \o Round(d)
    BY <1>c DEF Becomes
  <2> QED
    BY <1>0, <1>c, <2>1, MarkedRound DEF Becomes, SameMark, AppAccountShowsNothing
<1>1. CASE ViewDidLoad
  BY <1>0, <1>1 DEF ViewDidLoad, firebase, SameMark, AppAccountShowsNothing
<1>2. ASSUME NEW s, NEW a, NEW ws, Handle(s, a, ws), gamesList = <<>> => s = <<>>
      PROVE  SameMark' /\ AppAccountShowsNothing'
  BY <1>0, <1>2 DEF Handle, firebase, SameMark, AppAccountShowsNothing
<1>3. CASE AddNewGame
  BY <1>2, <1>3 DEF AddNewGame
<1>4. CASE Save \/ Cancel
  BY <1>2, <1>4 DEF Save, Cancel
<1>5. ASSUME NEW r \in DOMAIN gamesList, DeleteRow(r)
      PROVE  SameMark' /\ AppAccountShowsNothing'
  <2>1. gamesList # <<>>
    BY <1>5
  <2> QED
    BY <1>2, <1>5, <2>1 DEF DeleteRow
<1>6. CASE RunObserve
  <2> DEFINE e == Event(Head(sharedQueue).controller, games)
  <2>1. /\ mainQueue' = mainQueue \/ mainQueue' = Append(mainQueue, e)
        /\ UNCHANGED <<games, gamesList>>
    BY <1>6 DEF RunObserve, screen
  <2>2. e.snap = games
    BY DEF Event
  <2>3. mainQueue \in Seq(EventSet(controllers)) /\ e \in EventSet(controllers)
    BY <1>0, <1>6, HeadType DEF RunObserve, TypeOK, EventSet, Event
  <2> HIDE DEF e
  <2>4. \A n \in DOMAIN Append(mainQueue, e) :
            Append(mainQueue, e)[n].snap[LastSelectedGame] = games[LastSelectedGame]
    BY <1>0, <2>2, <2>3, AppendProperties DEF SameMark
  <2> QED
    BY <1>0, <2>1, <2>4 DEF SameMark, AppAccountShowsNothing
<1>7. CASE RunWrite
  <2>1. Head(sharedQueue) \in WriteSet
    BY <1>0, <1>7, HeadType DEF RunWrite
  <2>2. /\ Apply(games, Head(sharedQueue)) \in Node
        /\ Apply(games, Head(sharedQueue))[LastSelectedGame] = games[LastSelectedGame]
    <3>1. Head(sharedQueue).label \in Labels
      BY <2>1 DEF WriteSet
    <3> QED
      BY <1>0, <2>1, <3>1, ApplyType, GameListAssumption DEF Apply, TypeOK, Node, Keys
  <2> QED
    BY <1>7, <1>c, <2>2 DEF RunWrite, screen
<1>8. CASE DeliverEvent
  <2> DEFINE e == Head(mainQueue)
  <2>1. /\ mainQueue \in Seq(EventSet(controllers)) /\ mainQueue # <<>>
        /\ mainQueue' = Tail(mainQueue) /\ games' = games
        /\ Castable(e.snap)
        /\ gamesList' = gamesList \/ gamesList' = Children(e.snap)
    BY <1>0, <1>8 DEF DeliverEvent, firebase, TypeOK, EventSet
  <2>2. /\ Len(mainQueue) \in Nat /\ Len(mainQueue) > 0 /\ e = mainQueue[1]
        /\ DOMAIN mainQueue = 1 .. Len(mainQueue)
        /\ DOMAIN Tail(mainQueue) = 1 .. Len(mainQueue) - 1
        /\ \A n \in 1 .. Len(mainQueue) - 1 : Tail(mainQueue)[n] = mainQueue[n + 1]
    BY <2>1, HeadTailProperties, EmptySeq
  <2>3. SameMark'
    <3>1. \A n \in 1 .. Len(mainQueue) - 1 : n + 1 \in DOMAIN mainQueue
      BY <2>2
    <3> QED
      BY <1>0, <2>1, <2>2, <3>1 DEF SameMark
  <2>4. games[LastSelectedGame] = None
    <3>1. e.snap[LastSelectedGame] = games[LastSelectedGame]
      BY <1>0, <2>2 DEF SameMark
    <3>2. games[LastSelectedGame] # "String"
      BY <1>0, GameListAssumption DEF TypeOK, Node, Kinds, Games
    <3> QED
      BY <2>1, <3>1, <3>2 DEF Castable, Present, Keys
  <2> QED
    BY <2>1, <2>3, <2>4 DEF AppAccountShowsNothing
<1>9. CASE SaveTraps \/ CallbackTraps
  BY <1>9, <1>a DEF SaveTraps, CallbackTraps
<1>10. CASE ServerAnswers
  <2>1. games \in Node
    BY <1>0 DEF TypeOK
  <2> QED
    BY <1>0, <1>10, <2>1, MarkedRound DEF ServerAnswers, screen, SameMark, AppAccountShowsNothing
<1>11. CASE Elsewhere
  BY <1>0, <1>11, <1>c, ElsewhereIs DEF screen
<1>12. CASE Back \/ Relaunch \/ Tick \/ UNCHANGED vars
  BY <1>12, <1>b DEF Back, Relaunch, Tick, vars, screen, firebase, queues
<1> QED
  BY <1>1, <1>3, <1>4, <1>5, <1>6, <1>7, <1>8, <1>9, <1>10, <1>11, <1>12
  DEF Next, UserStep, QueueStep

(* The list of an account made in the app never shows a game, however many *)
(* lists are opened and whatever becomes of the games: every event carries *)
(* lastSelectedGame, which the callback cannot cast.                       *)
THEOREM AppAccountsListNothing == Spec => []AppAccountShowsNothing
<1>1. Init => AppInv
  <2> SUFFICES ASSUME Init PROVE AppInv
    OBVIOUS
  <2>1. mainQueue = <<>> /\ gamesList = <<>>
    BY DEF Init
  <2> QED
    BY <2>1, TypeInit DEF AppInv, SameMark, AppAccountShowsNothing
<1>2. AppInv => AppAccountShowsNothing
  BY DEF AppInv
<1> QED
  BY <1>1, <1>2, MarkNext, PTL DEF Spec
=============================================================================
