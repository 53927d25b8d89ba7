---------------------------- MODULE Pucks_proofs ----------------------------
(***************************************************************************)
(* Lemmas about the node of a game and the list of its children, used by   *)
(* the proofs about the modules that extend Pucks.                         *)
(***************************************************************************)
EXTENDS ShotWrites, FiniteSetTheorems, SequenceTheorems, WellFoundedInduction, TLAPS

(* A set of naturals that is not empty has a least element.  Induction     *)
(* over Nat is used in this form: as the least counterexample.             *)
LEMMA LeastNat ==
  ASSUME NEW T, T \subseteq Nat, T # {}
  PROVE  \E m \in T : \A k \in T : m <= k
<1> DEFINE Down == {0 .. n : n \in T}
<1>1. Down \subseteq FiniteSubsetsOf(Nat)
  <2> SUFFICES ASSUME NEW n \in T PROVE 0 .. n \in FiniteSubsetsOf(Nat)
    OBVIOUS
  <2>1. IsFiniteSet(0 .. n)
    BY FS_Interval
  <2> QED
    BY <2>1 DEF FiniteSubsetsOf
<1>2. Down # {}
  OBVIOUS
<1>3. PICK D \in Down : \A E \in Down : <<E, D>> \notin StrictSubsetOrdering(Nat)
  <2> HIDE DEF Down
  <2> QED
    BY <1>1, <1>2, FS_StrictSubsetOrderingWellFounded, WFMin
<1>4. PICK m \in T : D = 0 .. m
  BY <1>3
<1>5. ASSUME NEW k \in T, k < m
      PROVE  FALSE
  <2>1. m \in 0 .. m /\ m \notin 0 .. k
    BY <1>5
  <2>2. 0 .. k \in Down /\ 0 .. k \subseteq 0 .. m /\ 0 .. k # 0 .. m
    BY <1>5, <2>1
  <2>3. <<0 .. k, 0 .. m>> \in StrictSubsetOrdering(Nat)
    BY <2>2 DEF StrictSubsetOrdering
  <2> QED
    BY <1>3, <1>4, <2>2, <2>3
<1> QED
  BY <1>4, <1>5

(* Induction up to n over a set of naturals. *)
LEMMA UpTo ==
  ASSUME NEW n \in Nat, NEW S, 0 \in S, \A i \in 1 .. n : i - 1 \in S => i \in S
  PROVE  \A i \in 0 .. n : i \in S
<1> DEFINE T == {i \in 0 .. n : i \notin S}
<1> SUFFICES ASSUME T # {} PROVE FALSE
  OBVIOUS
<1>1. PICK i \in T : \A k \in T : i <= k
  <2>1. T \subseteq Nat
    OBVIOUS
  <2> HIDE DEF T
  <2> QED
    BY <2>1, LeastNat
<1>2. i \in 0 .. n /\ i \notin S /\ i # 0
  BY <1>1
<1>3. i \in 1 .. n /\ i - 1 \in 0 .. n /\ i - 1 < i
  BY <1>2
<1>4. i - 1 \notin T
  <2> HIDE DEF T
  <2> QED
    BY <1>1, <1>2, <1>3
<1> QED
  BY <1>2, <1>3, <1>4

(* Sequences: the places of a concatenation, and a sequence as its first   *)
(* element and the rest.                                                   *)
LEMMA Joined ==
  ASSUME NEW E, NEW s \in Seq(E), NEW t \in Seq(E)
  PROVE  /\ s \o t \in Seq(E)
         /\ Len(s) \in Nat /\ Len(t) \in Nat
         /\ Len(s \o t) = Len(s) + Len(t)
         /\ \A i \in 1 .. Len(s) : (s \o t)[i] = s[i]
         /\ \A i \in 1 .. Len(t) : (s \o t)[Len(s) + i] = t[i]
BY ConcatProperties

LEMMA FirstAndRest ==
  ASSUME NEW E, NEW s \in Seq(E), s # <<>>
  PROVE  /\ Len(s) \in Nat \ {0}
         /\ Head(s) = s[1] /\ s[1] \in E
         /\ Tail(s) \in Seq(E)
         /\ Len(Tail(s)) = Len(s) - 1
         /\ \A i \in 1 .. Len(Tail(s)) : Tail(s)[i] = s[i + 1]
         /\ <<s[1]>> \in Seq(E)
         /\ s = <<s[1]>> \o Tail(s)
<1> DEFINE t == <<s[1]>>
           r == Tail(s)
<1>1. /\ Head(s) = s[1] /\ s[1] \in E /\ r \in Seq(E)
      /\ Len(s) \in Nat /\ Len(s) > 0 /\ Len(r) = Len(s) - 1
      /\ \A i \in 1 .. Len(r) : r[i] = s[i + 1]
  BY HeadTailProperties, EmptySeq
<1>2. t \in Seq(E) /\ Len(t) = 1 /\ t[1] = s[1]
  BY <1>1
<1> HIDE DEF t, r
<1>3. /\ t \o r \in Seq(E) /\ Len(t \o r) = Len(t) + Len(r)
      /\ \A i \in 1 .. Len(t) : (t \o r)[i] = t[i]
      /\ \A i \in 1 .. Len(r) : (t \o r)[Len(t) + i] = r[i]
  <2>1. t \in Seq(E) /\ r \in Seq(E)
    BY <1>1, <1>2
  <2> QED
    BY <2>1, Joined
<1>4. ASSUME NEW i \in 1 .. Len(s) PROVE (t \o r)[i] = s[i]
  <2>1. CASE i = 1
    BY <1>2, <1>3, <2>1
  <2>2. CASE i # 1
    <3>1. i - 1 \in 1 .. Len(r) /\ 1 + (i - 1) = i /\ (i - 1) + 1 = i
      BY <1>1, <2>2
    <3>2. (t \o r)[1 + (i - 1)] = r[i - 1]
      BY <1>2, <1>3, <3>1
    <3>3. r[i - 1] = s[(i - 1) + 1]
      BY <1>1, <3>1
    <3> QED
      BY <3>1, <3>2, <3>3
  <2> QED
    BY <2>1, <2>2
<1>5. t \o r = s
  <2>1. Len(t \o r) = Len(s)
    BY <1>1, <1>2, <1>3
  <2> QED
    BY <1>3, <1>4, <2>1, SeqEqual
<1> QED
  BY <1>1, <1>2, <1>5 DEF t, r

(* The keys of a node are finitely many, at most MaxPucks. *)
LEMMA PresentFinite ==
  ASSUME NEW d
  PROVE  /\ Present(d) \subseteq Keys
         /\ IsFiniteSet(Present(d))
         /\ Cardinality(Present(d)) \in 0 .. MaxPucks
<1>1. Present(d) \in SUBSET Keys
  BY DEF Present
<1>2. IsFiniteSet(Keys) /\ Cardinality(Keys) = MaxPucks
  BY FS_Interval, PucksAssumption DEF Keys
<1>3. IsFiniteSet(Present(d)) /\ Cardinality(Present(d)) <= MaxPucks
  BY <1>1, <1>2, FS_Subset
<1>4. Cardinality(Present(d)) \in Nat
  BY <1>3, FS_CardinalityType
<1> QED
  BY <1>1, <1>3, <1>4, PucksAssumption

(* KeyAt is well defined: among the keys in D there is one with n smaller  *)
(* ones, for every n below the number of keys.  (-1 is the key the tracker *)
(* page computes of an empty list.)                                        *)
LEMMA KeyAtFrom ==
  ASSUME NEW b \in Nat, NEW D, D \subseteq -1 .. b - 1, IsFiniteSet(D),
         NEW n \in Nat, n < Cardinality(D)
  PROVE  /\ KeyAt(D, n) \in D
         /\ Cardinality({j \in D : j < KeyAt(D, n)}) = n
<1> DEFINE Below(m) == {j \in D : j + 1 < m}
           T == {m \in Nat : Cardinality(Below(m)) > n}
<1>0. b \in Nat /\ \A j \in D : j \in Int /\ j + 1 \in Nat /\ j < b
  OBVIOUS
<1>1. ASSUME NEW m \in Nat
      PROVE  IsFiniteSet(Below(m)) /\ Cardinality(Below(m)) \in Nat
  <2>1. Below(m) \in SUBSET D
    OBVIOUS
  <2> QED
    BY <2>1, FS_Subset, FS_CardinalityType
<1>2. b + 1 \in T
  <2>1. \A j \in D : j + 1 < b + 1
    BY <1>0
  <2>2. Below(b + 1) = D
    BY <2>1
  <2>3. b + 1 \in Nat
    OBVIOUS
  <2> HIDE DEF Below
  <2> QED
    BY <2>2, <2>3
<1>3. PICK m \in T : \A k \in T : m <= k
  <2>1. T \subseteq Nat /\ T # {}
    BY <1>2
  <2> HIDE DEF T
  <2> QED
    BY <2>1, LeastNat
<1>4. m \in Nat /\ Cardinality(Below(m)) \in Nat /\ Cardinality(Below(m)) > n
  <2>1. m \in Nat /\ Cardinality(Below(m)) > n
    BY <1>3
  <2> QED
    BY <2>1, <1>1
<1>5. m # 0
  <2> SUFFICES ASSUME m = 0 PROVE FALSE
    OBVIOUS
  <2>0. \A j \in D : ~ (j + 1 < 0)
    BY <1>0
  <2>1. Below(m) = {}
    BY <2>0
  <2>2. Cardinality(Below(m)) = 0
    BY <2>1, FS_EmptySet
  <2> QED
    BY <2>2, <1>4
<1>6. /\ m - 1 \in Nat
      /\ Cardinality(Below(m - 1)) \in Nat
      /\ Cardinality(Below(m - 1)) <= n
  <2>1. m - 1 \in Nat /\ m - 1 < m
    BY <1>4, <1>5
  <2>2. m - 1 \notin T
    <3> HIDE DEF T
    <3> QED
      BY <2>1, <1>3, <1>4
  <2>3. ~ (Cardinality(Below(m - 1)) > n)
    BY <2>1, <2>2
  <2>4. Cardinality(Below(m - 1)) \in Nat
    BY <2>1, <1>1
  <2> HIDE DEF Below
  <2> QED
    BY <2>1, <2>3, <2>4
<1>7. m - 2 \in D
  <2> SUFFICES ASSUME m - 2 \notin D PROVE FALSE
    OBVIOUS
  <2>1. ASSUME NEW j \in D PROVE j + 1 < m <=> j + 1 < m - 1
    <3>1. j \in Int /\ j # m - 2
      BY <1>0
    <3> QED
      BY <3>1, <1>4
  <2>2. Below(m) = Below(m - 1)
    BY <2>1
  <2>3. Cardinality(Below(m)) = Cardinality(Below(m - 1))
    BY <2>2
  <2> HIDE DEF Below
  <2> QED
    BY <2>3, <1>4, <1>6
<1>8. Cardinality(Below(m)) = Cardinality(Below(m - 1)) + 1
  <2>1. ASSUME NEW j \in D PROVE j + 1 < m <=> j + 1 < m - 1 \/ j = m - 2
    <3>1. j \in Int
      BY <1>0
    <3> QED
      BY <3>1, <1>4
  <2>2. Below(m) = Below(m - 1) \cup {m - 2}
    BY <2>1, <1>7
  <2>3. m - 2 \notin Below(m - 1)
    BY <1>6
  <2> HIDE DEF Below
  <2> QED
    BY <2>2, <2>3, <1>1, <1>6, FS_AddElement
<1>9. Cardinality({j \in D : j < m - 2}) = n
  <2>1. \A j \in D : j + 1 < m - 1 <=> j < m - 2
    BY <1>0, <1>4
  <2>2. Below(m - 1) = {j \in D : j < m - 2}
    BY <2>1
  <2>3. Cardinality(Below(m - 1)) = n
    <3> HIDE DEF Below
    <3> QED
      BY <1>4, <1>6, <1>8
  <2> QED
    BY <2>2, <2>3
<1>10. \E k \in D : Cardinality({j \in D : j < k}) = n
  BY <1>7, <1>9
<1> QED
  BY <1>10 DEF KeyAt

LEMMA KeyAtBounded ==
  ASSUME NEW b \in Nat, NEW D, D \subseteq 0 .. b - 1, IsFiniteSet(D),
         NEW n \in Nat, n < Cardinality(D)
  PROVE  /\ KeyAt(D, n) \in D
         /\ Cardinality({j \in D : j < KeyAt(D, n)}) = n
<1>1. D \subseteq -1 .. b - 1
  OBVIOUS
<1> QED
  BY <1>1, KeyAtFrom

(* The same for keys of a node. *)
LEMMA KeyAtProperty ==
  ASSUME NEW D, D \subseteq Keys, IsFiniteSet(D),
         NEW n \in Nat, n < Cardinality(D)
  PROVE  /\ KeyAt(D, n) \in D
         /\ Cardinality({j \in D : j < KeyAt(D, n)}) = n
<1>1. MaxPucks \in Nat /\ D \subseteq 0 .. MaxPucks - 1
  BY PucksAssumption DEF Keys
<1> QED
  BY <1>1, KeyAtBounded

(* And it is the only one: a key is at the place that the number of        *)
(* smaller ones gives.                                                     *)
LEMMA KeyAtPlace ==
  ASSUME NEW b \in Nat, NEW D, D \subseteq 0 .. b - 1, IsFiniteSet(D), NEW x \in D
  PROVE  KeyAt(D, Cardinality({j \in D : j < x})) = x
<1> DEFINE Below(m) == {j \in D : j < m}
<1>1. ASSUME NEW m
      PROVE  IsFiniteSet(Below(m)) /\ Cardinality(Below(m)) \in Nat
  <2>1. Below(m) \in SUBSET D
    OBVIOUS
  <2> QED
    BY <2>1, FS_Subset, FS_CardinalityType
<1>2. ASSUME NEW y \in D, NEW z \in D, y < z
      PROVE  Cardinality(Below(y)) < Cardinality(Below(z))
  <2>1. y \in Nat /\ z \in Nat /\ D \subseteq Nat
    OBVIOUS
  <2>2. y \notin Below(y) /\ Below(y) \cup {y} \in SUBSET Below(z)
    <3>1. ASSUME NEW j \in Below(y) PROVE j \in Below(z)
      <4>1. j \in D /\ j < y /\ j \in Nat
        BY <2>1
      <4> QED
        BY <4>1, <2>1, <1>2
    <3>2. y \in Below(z) /\ y \notin Below(y)
      BY <2>1, <1>2
    <3> HIDE DEF Below
    <3> QED
      BY <3>1, <3>2
  <2>3. Cardinality(Below(y) \cup {y}) = Cardinality(Below(y)) + 1
    <3> HIDE DEF Below
    <3> QED
      BY <2>2, <1>1, FS_AddElement
  <2>4. Cardinality(Below(y) \cup {y}) <= Cardinality(Below(z))
    <3> HIDE DEF Below
    <3> QED
      BY <2>2, <1>1, FS_Subset
  <2>5. Cardinality(Below(y)) \in Nat /\ Cardinality(Below(z)) \in Nat
    BY <1>1
  <2> HIDE DEF Below
  <2> QED
    BY <2>3, <2>4, <2>5
<1>3. ASSUME NEW y \in D, Cardinality(Below(y)) = Cardinality(Below(x))
      PROVE  y = x
  <2>1. x \in Nat /\ y \in Nat
    OBVIOUS
  <2>2. Cardinality(Below(x)) \in Nat
    BY <1>1
  <2> HIDE DEF Below
  <2> QED
    BY <2>1, <2>2, <1>2, <1>3
<1> QED
  BY <1>3 DEF KeyAt

(* The key with n smaller ones among 0 .. m-1 is n itself. *)
LEMMA KeyAtInterval ==
  ASSUME NEW m \in 0 .. MaxPucks, NEW n \in 0 .. m - 1
  PROVE  KeyAt(0 .. m - 1, n) = n
<1> DEFINE k == KeyAt(0 .. m - 1, n)
<1>1. m \in Nat /\ n \in Nat /\ n < m /\ 0 .. m - 1 \subseteq Keys
  BY PucksAssumption DEF Keys
<1>2. IsFiniteSet(0 .. m - 1) /\ Cardinality(0 .. m - 1) = m
  BY <1>1, FS_Interval
<1>3. k \in 0 .. m - 1 /\ Cardinality({j \in 0 .. m - 1 : j < k}) = n
  BY <1>1, <1>2, KeyAtProperty
<1>4. {j \in 0 .. m - 1 : j < k} = 0 .. k - 1
  BY <1>1, <1>3
<1>5. Cardinality(0 .. k - 1) = k
  <2>1. k \in Nat
    BY <1>3
  <2> HIDE DEF k
  <2> QED
    BY <2>1, FS_Interval
<1> QED
  BY <1>3, <1>4, <1>5

(* A callback fills a list with pucks, at most MaxPucks of them. *)
LEMMA ChildrenType ==
  ASSUME NEW d \in Node, Whole(d)
  PROVE  Children(d) \in PuckLists
<1> DEFINE c == Cardinality(Present(d))
<1>1. c \in 0 .. MaxPucks /\ IsFiniteSet(Present(d)) /\ Present(d) \subseteq Keys
  BY PresentFinite
<1>2. c \in Nat /\ c <= MaxPucks
  BY <1>1, PucksAssumption
<1>3. ASSUME NEW i \in 1 .. c
      PROVE  d[KeyAt(Present(d), i - 1)] \in PuckModel
  <2>1. i - 1 \in Nat /\ i - 1 < c
    BY <1>2
  <2>2. KeyAt(Present(d), i - 1) \in Present(d)
    BY <1>1, <2>1, KeyAtProperty
  <2> QED
    BY <2>2 DEF Whole
<1>4. Children(d) \in [1 .. c -> PuckModel]
  BY <1>3 DEF Children
<1> QED
  BY <1>2, <1>4 DEF PuckLists

(* The list of a node without gaps has the puck of key i-1 at place i. *)
LEMMA ChildrenContiguous ==
  ASSUME NEW d \in Node, NEW m \in 0 .. MaxPucks, Present(d) = 0 .. m - 1
  PROVE  Children(d) = [i \in 1 .. m |-> d[i - 1]]
<1>1. m \in Nat /\ MaxPucks \in Nat
  BY PucksAssumption
<1>2. Cardinality(Present(d)) = m
  BY <1>1, FS_Interval
<1>3. ASSUME NEW i \in 1 .. m
      PROVE  KeyAt(Present(d), i - 1) = i - 1
  <2>1. i - 1 \in 0 .. m - 1
    BY <1>1
  <2> QED
    BY <2>1, KeyAtInterval
<1> QED
  BY <1>2, <1>3 DEF Children

(* The list of a node without gaps that shows all of it. *)
LEMMA ListOfNode ==
  ASSUME NEW d \in Node, WellFormed(d), NEW s, s = Children(d)
  PROVE  /\ Len(s) \in 0 .. MaxPucks
         /\ Present(d) = 0 .. Len(s) - 1
         /\ \A i \in 1 .. Len(s) : s[i] = d[i - 1]
         /\ \A k \in Present(d) : d[k] \in PuckModel
<1>1. PICK m \in 0 .. MaxPucks : Present(d) = 0 .. m - 1
  BY DEF WellFormed, Contiguous
<1>2. Children(d) = [i \in 1 .. m |-> d[i - 1]]
  BY <1>1, ChildrenContiguous
<1>3. m \in Nat
  BY PucksAssumption
<1>4. Len(s) = m
  BY <1>2, <1>3
<1> QED
  BY <1>1, <1>2, <1>3, <1>4 DEF WellFormed, Whole

(* A saved game is a node. *)
LEMMA NodeOfType ==
  ASSUME NEW s \in PuckLists
  PROVE  NodeOf(s) \in Node
<1>1. s \in Seq(PuckModel) /\ Len(s) \in Nat
  BY DEF PuckLists
<1>2. ASSUME NEW k \in Keys, k < Len(s)
      PROVE  s[k + 1] \in PuckModel
  <2>1. k + 1 \in 1 .. Len(s)
    BY <1>1, <1>2, PucksAssumption DEF Keys
  <2> QED
    BY <1>1, <2>1
<1> QED
  BY <1>2 DEF NodeOf, Node, Child

(* It has no gap, and lists the game. *)
LEMMA SavedNode ==
  ASSUME NEW s \in PuckLists
  PROVE  /\ Present(NodeOf(s)) = 0 .. Len(s) - 1
         /\ WellFormed(NodeOf(s))
         /\ Children(NodeOf(s)) = s
<1> DEFINE n == Len(s)
           x == NodeOf(s)
<1>1. /\ s \in Seq(PuckModel) /\ n \in Nat /\ n <= MaxPucks /\ MaxPucks \in Nat \ {0}
      /\ n \in 0 .. MaxPucks
  BY PucksAssumption DEF PuckLists
<1>2. ASSUME NEW k \in Keys
      PROVE  IF k < n THEN x[k] \in PuckModel /\ x[k] = s[k + 1] /\ x[k] # Absent ELSE x[k] = Absent
  <2>1. k \in Nat /\ (k < n => k + 1 \in 1 .. n)
    BY <1>1 DEF Keys
  <2>2. x[k] = IF k < n THEN s[k + 1] ELSE Absent
    BY DEF NodeOf
  <2>3. k < n => s[k + 1] \in PuckModel
    BY <1>1, <2>1
  <2> QED
    BY <2>2, <2>3, AbsentAssumption DEF Child
<1>3. 0 .. n - 1 \subseteq Keys /\ \A k \in Keys : k < n <=> k \in 0 .. n - 1
  BY <1>1 DEF Keys
<1>4. Present(x) = 0 .. n - 1
  BY <1>2, <1>3 DEF Present
<1>5. x \in Node
  BY NodeOfType
<1>6. Children(x) = [i \in 1 .. n |-> x[i - 1]]
  BY <1>1, <1>4, <1>5, ChildrenContiguous
<1>7. \A i \in 1 .. n : x[i - 1] = s[i]
  <2> SUFFICES ASSUME NEW i \in 1 .. n PROVE x[i - 1] = s[i]
    OBVIOUS
  <2>1. i - 1 \in Keys /\ i - 1 < n /\ (i - 1) + 1 = i
    BY <1>1 DEF Keys
  <2> QED
    BY <1>2, <2>1
<1>8. s = [i \in 1 .. n |-> s[i]]
  BY <1>1
<1>9. Children(x) = s
  BY <1>6, <1>7, <1>8
<1>10. WellFormed(x)
  <2>1. Contiguous(x)
    BY <1>1, <1>4 DEF Contiguous
  <2>2. Whole(x)
    BY <1>2, <1>3, <1>4 DEF Whole
  <2> QED
    BY <2>1, <2>2 DEF WellFormed
<1> QED
  BY <1>4, <1>9, <1>10

(* A write leaves a node behind. *)
LEMMA ApplyType ==
  ASSUME NEW d \in Node, NEW w \in Writes
  PROVE  Apply(d, w) \in Node
<1>1. CASE w \in [op : {"set"}, key : Keys, puck : PuckModel]
  <2>1. Apply(d, w) = [d EXCEPT ![w.key] = w.puck]
    BY <1>1 DEF Apply, SetChild
  <2> QED
    BY <1>1, <2>1 DEF Node, Child
<1>2. CASE w \in [op : {"remove"}, key : Keys]
  <2>1. Apply(d, w) = [d EXCEPT ![w.key] = Absent]
    BY <1>2 DEF Apply, RemoveChild
  <2> QED
    BY <1>2, <2>1 DEF Node
<1>3. CASE w \in [op : {"update"}, key : Keys, shotType : ShotTypes]
  <2> DEFINE c == d[w.key]
             u == IF c = Absent THEN [shotType |-> w.shotType]
                                ELSE [c EXCEPT !.shotType = w.shotType]
  <2>1. Apply(d, w) = [d EXCEPT ![w.key] = u]
    BY <1>3 DEF Apply, UpdateType
  <2>2. w.key \in Keys /\ w.shotType \in ShotTypes
    BY <1>3
  <2>3. c \in PuckModel \cup PartialChild \cup {Absent}
    BY <2>2 DEF Node, Child
  <2>4. u \in Child
    <3>1. CASE c = Absent
      BY <3>1, <2>2 DEF Child, PartialChild
    <3>2. CASE c # Absent /\ c \in PuckModel
      <4>1. [c EXCEPT !.shotType = w.shotType] \in PuckModel
        BY <3>2, <2>2 DEF PuckModel
      <4> QED
        BY <4>1, <3>2 DEF Child
    <3>3. CASE c # Absent /\ c \in PartialChild
      <4>1. [c EXCEPT !.shotType = w.shotType] \in PartialChild
        BY <3>3, <2>2 DEF PartialChild
      <4> QED
        BY <4>1, <3>3 DEF Child
    <3> QED
      BY <3>1, <3>2, <3>3, <2>3
  <2> HIDE DEF u
  <2> QED
    BY <2>1, <2>2, <2>4 DEF Node
<1> QED
  BY <1>1, <1>2, <1>3 DEF Writes

(* Lists of pucks: what the handlers do to them. *)
LEMMA PuckListsSub ==
  ASSUME NEW s \in PuckLists, NEW m \in 0 .. Len(s)
  PROVE  /\ SubSeq(s, 1, m) \in PuckLists
         /\ Len(SubSeq(s, 1, m)) = m
         /\ \A i \in 1 .. m : SubSeq(s, 1, m)[i] = s[i]
<1>1. s \in Seq(PuckModel) /\ Len(s) \in Nat /\ Len(s) <= MaxPucks /\ m \in Nat /\ m <= Len(s)
  BY DEF PuckLists
<1>2. \A i \in 1 .. m : s[i] \in PuckModel
  BY <1>1
<1>3. /\ SubSeq(s, 1, m) \in Seq(PuckModel)
      /\ Len(SubSeq(s, 1, m)) = m
      /\ \A i \in 1 .. m : SubSeq(s, 1, m)[i] = s[i]
  BY <1>1, <1>2, SubSeqProperties
<1> QED
  BY <1>1, <1>3, PucksAssumption DEF PuckLists

LEMMA PuckListsAppend ==
  ASSUME NEW s \in PuckLists, NEW p \in PuckModel, Len(s) < MaxPucks
  PROVE  Append(s, p) \in PuckLists
BY PucksAssumption DEF PuckLists

(* A puck made by a handler. *)
LEMMA PuckType ==
  ASSUME NEW pos \in Positions, NEW type \in ShotTypes, NEW v \in Periods,
         NEW newSeq \in BOOLEAN
  PROVE  Puck(pos, type, v, newSeq) \in PuckModel
BY DEF Puck, PuckModel

(* Writes that change a node without gaps. *)
LEMMA SetChanges ==
  ASSUME NEW d \in Node, NEW k \in Keys, k \notin Present(d), NEW p \in PuckModel
  PROVE  Apply(d, SetValue(k, p)) # d
<1>1. Apply(d, SetValue(k, p)) = [d EXCEPT ![k] = p]
  BY DEF Apply, SetValue, SetChild
<1>2. d[k] = Absent /\ p # Absent
  BY AbsentAssumption DEF Present, Child
<1> QED
  BY <1>1, <1>2 DEF Node

LEMMA RemoveChanges ==
  ASSUME NEW d \in Node, NEW k \in Present(d)
  PROVE  Apply(d, RemoveValue(k)) # d
<1>1. Apply(d, RemoveValue(k)) = [d EXCEPT ![k] = Absent]
  BY DEF Apply, RemoveValue, RemoveChild
<1> QED
  BY <1>1 DEF Present, Node

LEMMA UpdateChanges ==
  ASSUME NEW d \in Node, NEW k \in Present(d), d[k] \in PuckModel,
         NEW t, d[k].shotType # t
  PROVE  Apply(d, UpdateChildValues(k, t)) # d
<1>1. d[k] # Absent /\ k \in Keys
  BY DEF Present
<1>2. Apply(d, UpdateChildValues(k, t))[k] = [d[k] EXCEPT !.shotType = t]
  BY <1>1 DEF Apply, UpdateChildValues, UpdateType, Node
<1>3. [d[k] EXCEPT !.shotType = t].shotType = t
  BY DEF PuckModel
<1> QED
  BY <1>2, <1>3

(* What a write makes of the child it is made to. *)
Renewed(c, w) ==
    CASE w.op = "set"    -> w.puck
      [] w.op = "remove" -> Absent
      [] w.op = "update" -> IF c = Absent THEN [shotType |-> w.shotType]
                                          ELSE [c EXCEPT !.shotType = w.shotType]

LEMMA ApplyPut ==
  ASSUME NEW x \in Node, NEW w \in Writes
  PROVE  /\ w.key \in Keys /\ x[w.key] \in Child \cup {Absent}
         /\ Apply(x, w) \in Node
         /\ Apply(x, w)[w.key] = Renewed(x[w.key], w)
         /\ \A k \in Keys : k # w.key => Apply(x, w)[k] = x[k]
<1>1. w.key \in Keys /\ w.op \in {"set", "remove", "update"}
  BY DEF Writes
<1>2. Apply(x, w) = [x EXCEPT ![w.key] = Renewed(x[w.key], w)]
  BY <1>1 DEF Apply, SetChild, RemoveChild, UpdateType, Renewed
<1>3. x[w.key] \in Child \cup {Absent}
  BY <1>1 DEF Node
<1> QED
  BY <1>1, <1>2, <1>3, ApplyType DEF Node

LEMMA NodesEqual ==
  ASSUME NEW x \in Node, NEW y \in Node, \A k \in Keys : x[k] = y[k]
  PROVE  x = y
BY DEF Node

(* How many pucks a node holds. *)
Size(x) == Cardinality(Present(x))

LEMMA SizeType ==
  ASSUME NEW x
  PROVE  Size(x) \in Nat /\ Size(x) <= MaxPucks /\ (Size(x) = 0 <=> Present(x) = {})
<1>1. IsFiniteSet(Present(x)) /\ Size(x) \in 0 .. MaxPucks
  BY PresentFinite DEF Size
<1>2. Size(x) = 0 <=> Present(x) = {}
  BY <1>1, FS_EmptySet DEF Size
<1> QED
  BY <1>1, <1>2, PucksAssumption

LEMMA SizeOf ==
  ASSUME NEW x, NEW n \in Nat, Present(x) = 0 .. n - 1
  PROVE  Size(x) = n
<1>1. Cardinality(0 .. n - 1) = n
  BY FS_Interval
<1> QED
  BY <1>1 DEF Size

(* The keys of a node without gaps are the numbers below its size. *)
LEMMA SizeKeys ==
  ASSUME NEW x, WellFormed(x)
  PROVE  Present(x) = 0 .. Size(x) - 1
<1>1. PICK n \in 0 .. MaxPucks : Present(x) = 0 .. n - 1
  BY DEF WellFormed, Contiguous
<1>2. n \in Nat
  BY PucksAssumption
<1> QED
  BY <1>1, <1>2, SizeOf
=============================================================================
