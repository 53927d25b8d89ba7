------------------------- MODULE GameTracker_proofs -------------------------
(***************************************************************************)
(* What the tracker page makes of a game, for any number of pucks,         *)
(* callbacks and sign-ins.                                                 *)
(***************************************************************************)
EXTENDS GameTracker, Pucks_proofs

----------------------------------------------------------------------------
(* The page's copy of a game: children may lack fields, and the key of the *)
(* last puck of an empty list is -1.                                       *)

PuckKids == [pos : Positions, shotType : ShotTypes, period : Periods \cup {All},
             newSequenceBool : BOOLEAN]

Kids == [shotType : ShotTypes]
            \cup [shotType : ShotTypes, newSequenceBool : BOOLEAN]
            \cup PuckKids

NodeType(g) ==
    /\ g = [k \in DOMAIN g |-> g[k]]
    /\ \E b \in Nat : DOMAIN g \subseteq -1 .. b - 1
    /\ \A k \in DOMAIN g : g[k] \in Kids

(* Writing some fields of a child leaves a child. *)
LEMMA OverKid ==
  ASSUME NEW f \in Kids, NEW c \in Kids
  PROVE  Over(f, c) \in Kids
<1> DEFINE o == Over(f, c)
<1>1. CASE f \in PuckKids
  <2>1. DOMAIN f = Fields /\ DOMAIN c \subseteq Fields
    BY <1>1 DEF PuckKids, Kids, Fields
  <2>2. o = f
    BY <1>1, <2>1 DEF Over, PuckKids, Fields
  <2> QED
    BY <2>2
<1>2. CASE c \in PuckKids /\ f \notin PuckKids
  <2>1. DOMAIN c = Fields /\ DOMAIN f \subseteq Fields /\ "shotType" \in DOMAIN f
    BY <1>2 DEF PuckKids, Kids, Fields
  <2>2. f \in [shotType : ShotTypes] \/ f \in [shotType : ShotTypes, newSequenceBool : BOOLEAN]
    BY <1>2 DEF Kids
  <2>3. CASE f \in [shotType : ShotTypes]
    <3>1. o = [pos |-> c.pos, shotType |-> f.shotType, period |-> c.period,
               newSequenceBool |-> c.newSequenceBool]
      BY <1>2, <2>3 DEF Over, PuckKids
    <3> QED
      BY <1>2, <2>3, <3>1 DEF PuckKids, Kids
  <2>4. CASE f \in [shotType : ShotTypes, newSequenceBool : BOOLEAN]
    <3>1. o = [pos |-> c.pos, shotType |-> f.shotType, period |-> c.period,
               newSequenceBool |-> f.newSequenceBool]
      BY <1>2, <2>4 DEF Over, PuckKids
    <3> QED
      BY <1>2, <2>4, <3>1 DEF PuckKids, Kids
  <2> QED
    BY <2>2, <2>3, <2>4
<1>3. CASE f \in [shotType : ShotTypes] /\ c \in [shotType : ShotTypes]
  BY <1>3 DEF Over, Kids
<1>4. CASE f \in [shotType : ShotTypes, newSequenceBool : BOOLEAN]
           /\ c \in [shotType : ShotTypes]
  <2>1. o = [shotType |-> f.shotType, newSequenceBool |-> f.newSequenceBool]
    BY <1>4 DEF Over
  <2> QED
    BY <1>4, <2>1 DEF Kids
<1>5. CASE f \in [shotType : ShotTypes]
           /\ c \in [shotType : ShotTypes, newSequenceBool : BOOLEAN]
  <2>1. o = [shotType |-> f.shotType, newSequenceBool |-> c.newSequenceBool]
    BY <1>5 DEF Over
  <2> QED
    BY <1>5, <2>1 DEF Kids
<1>6. CASE f \in [shotType : ShotTypes, newSequenceBool : BOOLEAN]
           /\ c \in [shotType : ShotTypes, newSequenceBool : BOOLEAN]
  <2>1. o = [shotType |-> f.shotType, newSequenceBool |-> f.newSequenceBool]
    BY <1>6 DEF Over
  <2> QED
    BY <1>6, <2>1 DEF Kids
<1> QED
  BY <1>1, <1>2, <1>3, <1>4, <1>5, <1>6 DEF Kids

(* set writes a child, or makes one. *)
LEMMA PutType ==
  ASSUME NEW g, NodeType(g), NEW k \in Int, k >= -1, NEW c \in Kids
  PROVE  NodeType(Put(g, k, c))
<1> DEFINE h == Put(g, k, c)
<1>1. /\ DOMAIN h = DOMAIN g \cup {k}
      /\ h = [j \in DOMAIN g \cup {k} |-> IF j = k THEN c ELSE g[j]]
  BY DEF Put, Over
<1>2. h = [j \in DOMAIN h |-> h[j]]
  BY <1>1
<1>3. \E b \in Nat : DOMAIN h \subseteq -1 .. b - 1
  <2>1. PICK b \in Nat : DOMAIN g \subseteq -1 .. b - 1
    BY DEF NodeType
  <2> DEFINE m == IF k + 1 > b THEN k + 1 ELSE b
  <2>2. m \in Nat /\ -1 .. b - 1 \subseteq -1 .. m - 1 /\ k \in -1 .. m - 1
    OBVIOUS
  <2> HIDE DEF m, h
  <2>3. DOMAIN h \subseteq -1 .. m - 1
    BY <1>1, <2>1, <2>2
  <2> QED
    BY <2>2, <2>3
<1>4. \A j \in DOMAIN h : h[j] \in Kids
  BY <1>1 DEF NodeType
<1> QED
  BY <1>2, <1>3, <1>4 DEF NodeType

(* update changes a child, or makes one. *)
LEMMA UpdateFacts ==
  ASSUME NEW g, NodeType(g), NEW k \in Int, k >= -1, NEW f \in Kids
  PROVE  /\ NodeType(Update(g, k, f))
         /\ DOMAIN Update(g, k, f) = DOMAIN g \cup {k}
         /\ Update(g, k, f)[k] = IF k \in DOMAIN g THEN Over(f, g[k]) ELSE f
         /\ \A j \in DOMAIN g : j # k => Update(g, k, f)[j] = g[j]
<1> DEFINE c == IF k \in DOMAIN g THEN Over(f, g[k]) ELSE f
<1>1. c \in Kids
  BY OverKid DEF NodeType
<1>2. Update(g, k, f) = Put(g, k, c)
  BY DEF Update
<1> HIDE DEF c
<1>3. NodeType(Put(g, k, c))
  BY <1>1, PutType
<1>4. /\ DOMAIN Put(g, k, c) = DOMAIN g \cup {k}
      /\ Put(g, k, c)[k] = c
      /\ \A j \in DOMAIN g : j # k => Put(g, k, c)[j] = g[j]
  BY DEF Put, Over
<1> QED
  BY <1>2, <1>3, <1>4 DEF c

(* remove takes the child away. *)
LEMMA DropFacts ==
  ASSUME NEW g, NodeType(g), NEW k
  PROVE  /\ NodeType(Drop(g, k))
         /\ DOMAIN Drop(g, k) = DOMAIN g \ {k}
         /\ \A j \in DOMAIN g \ {k} : Drop(g, k)[j] = g[j]
<1> DEFINE h == Drop(g, k)
<1>1. h = [j \in DOMAIN g \ {k} |-> g[j]]
  BY DEF Drop
<1>2. DOMAIN h = DOMAIN g \ {k} /\ \A j \in DOMAIN g \ {k} : h[j] = g[j]
  BY <1>1
<1>3. h = [j \in DOMAIN h |-> h[j]]
  BY <1>1
<1> HIDE DEF h
<1>4. \E b \in Nat : DOMAIN h \subseteq -1 .. b - 1
  BY <1>2 DEF NodeType
<1>5. \A j \in DOMAIN h : h[j] \in Kids
  BY <1>2 DEF NodeType
<1> QED
  BY <1>2, <1>3, <1>4, <1>5 DEF NodeType, h

(* A child as the page reads it is an object, *)
LEMMA ReadType ==
  ASSUME NEW c \in Kids
  PROVE  PuckRead(c) \in Objects
<1>1. CASE c \in [shotType : ShotTypes]
  <2>1. PuckRead(c) = [pos |-> Undefined, shotType |-> c.shotType, period |-> Undefined,
                       newSequenceBool |-> Undefined]
    BY <1>1 DEF PuckRead, Fields
  <2> QED
    BY <1>1, <2>1 DEF Objects
<1>2. CASE c \in [shotType : ShotTypes, newSequenceBool : BOOLEAN]
  <2>1. PuckRead(c) = [pos |-> Undefined, shotType |-> c.shotType, period |-> Undefined,
                       newSequenceBool |-> c.newSequenceBool]
    BY <1>2 DEF PuckRead, Fields
  <2> QED
    BY <1>2, <2>1 DEF Objects
<1>3. CASE c \in PuckKids
  <2>1. PuckRead(c) = c
    BY <1>3 DEF PuckRead, Fields, PuckKids
  <2> QED
    BY <1>3, <2>1 DEF Objects, PuckKids
<1> QED
  BY <1>1, <1>2, <1>3 DEF Kids

(* and an object that set accepts is a child. *)
LEMMA SettableType ==
  ASSUME NEW p \in Objects, Settable(p)
  PROVE  p \in PuckKids /\ p \in Kids
<1>1. /\ p.pos # Undefined /\ p.shotType # Undefined
      /\ p.period # Undefined /\ p.newSequenceBool # Undefined
  BY DEF Settable, Fields
<1>2. p.pos \in Positions /\ p.shotType \in ShotTypes
  BY <1>1 DEF Objects
<1>3. p.period \in Periods \cup {All}
  BY <1>1 DEF Objects
<1>4. p.newSequenceBool \in BOOLEAN
  BY <1>1 DEF Objects
<1>5. p = [pos |-> p.pos, shotType |-> p.shotType, period |-> p.period,
           newSequenceBool |-> p.newSequenceBool]
  BY DEF Objects
<1> QED
  BY <1>2, <1>3, <1>4, <1>5 DEF PuckKids, Kids

LEMMA PuckSettable ==
  ASSUME NEW p \in PuckModel
  PROVE  p \in Objects /\ Settable(p) /\ p \in PuckKids /\ p \in Kids
<1>1. p \in PuckKids
  BY DEF PuckModel, PuckKids
<1>2. p \in Kids
  BY <1>1 DEF Kids
<1>3. p \in Objects
  BY <1>1 DEF PuckKids, Objects
<1>4. p.pos # Undefined /\ p.shotType # Undefined /\ p.period # Undefined
  BY GameTrackerAssumption DEF PuckModel
<1>5. p.newSequenceBool # Undefined
  BY GameTrackerAssumption DEF PuckModel
<1> QED
  BY <1>1, <1>2, <1>3, <1>4, <1>5 DEF Settable, Fields
----------------------------------------------------------------------------
(* The record the callbacks work on. *)

StateType(st) ==
    /\ st = [asked |-> st.asked, list |-> st.list, heap |-> st.heap, nodes |-> st.nodes]
    /\ st.asked \in Nat
    /\ st.heap \in Seq(Objects)
    /\ st.list \in Seq(1 .. Len(st.heap))
    /\ st.nodes = [game |-> st.nodes["game"], undefined |-> st.nodes["undefined"]]
    /\ NodeType(st.nodes["game"])
    /\ NodeType(st.nodes["undefined"])

Callback(n) ==
    {Load, Skate, Undo, Dead} \cup {Outcome(t) : t \in Outcomes}
        \cup {Save(o) : o \in 1 .. n} \cup {Rebound(o) : o \in 1 .. n}

(* The period a callback records is a period, or "All" while sequences are *)
(* viewed.                                                                 *)
PeriodType == period \in Periods \cup {All}

(* st with the node at Path replaced. *)
Store(st, g) == [st EXCEPT !.nodes[Path] = g]

LEMMA StoreFacts ==
  ASSUME NEW st, StateType(st), NEW g, NodeType(g)
  PROVE  /\ StateType(Store(st, g))
         /\ Store(st, g).asked = st.asked
         /\ Store(st, g).list = st.list
         /\ Store(st, g).heap = st.heap
         /\ Store(st, g).nodes[Path] = g
         /\ known => Store(st, g).nodes["undefined"] = st.nodes["undefined"]
<1>1. CASE known
  <2>1. Path = "game"
    BY <1>1 DEF Path
  <2>2. Store(st, g) = [asked |-> st.asked, list |-> st.list, heap |-> st.heap,
                        nodes |-> [game |-> g, undefined |-> st.nodes["undefined"]]]
    BY <2>1 DEF Store, StateType
  <2> QED
    BY <2>1, <2>2 DEF StateType
<1>2. CASE ~known
  <2>1. Path = "undefined"
    BY <1>2 DEF Path
  <2>2. Store(st, g) = [asked |-> st.asked, list |-> st.list, heap |-> st.heap,
                        nodes |-> [game |-> st.nodes["game"], undefined |-> g]]
    BY <2>1 DEF Store, StateType
  <2> QED
    BY <1>2, <2>1, <2>2 DEF StateType
<1> QED
  BY <1>1, <1>2

(* The node a callback writes to, and the key it writes under. *)
LEMMA StateFacts ==
  ASSUME NEW st, StateType(st)
  PROVE  /\ NodeType(st.nodes[Path])
         /\ LastKey(st) \in Int /\ LastKey(st) >= -1 /\ LastKey(st) < Len(st.list)
         /\ Len(st.list) \in Nat /\ Len(st.heap) \in Nat
<1>1. NodeType(st.nodes[Path])
  BY DEF StateType, Path
<1>2. Len(st.list) \in Nat /\ Len(st.heap) \in Nat
  BY DEF StateType
<1> QED
  BY <1>1, <1>2 DEF LastKey

LEMMA SetLastFacts ==
  ASSUME NEW st, StateType(st), NEW p \in Objects
  PROVE  /\ ~Settable(p) => SetLast(st, p) = st
         /\ Settable(p) =>
               LET g == Put(st.nodes[Path], LastKey(st), p)
               IN  NodeType(g) /\ SetLast(st, p) = Store(st, g)
<1>1. CASE ~Settable(p)
  BY <1>1 DEF SetLast
<1>2. CASE Settable(p)
  <2>1. SetLast(st, p) = Store(st, Put(st.nodes[Path], LastKey(st), p))
    BY <1>2 DEF SetLast, Store, LastKey
  <2>2. NodeType(Put(st.nodes[Path], LastKey(st), p))
    BY <1>2, SettableType, StateFacts, PutType
  <2> QED
    BY <1>2, <2>1, <2>2
<1> QED
  BY <1>1, <1>2

LEMMA UpdateLastFacts ==
  ASSUME NEW st, StateType(st), NEW f \in Kids
  PROVE  LET g == Update(st.nodes[Path], LastKey(st), f)
         IN  NodeType(g) /\ UpdateLast(st, f) = Store(st, g)
<1>1. UpdateLast(st, f) = Store(st, Update(st.nodes[Path], LastKey(st), f))
  BY DEF UpdateLast, Store
<1>2. NodeType(Update(st.nodes[Path], LastKey(st), f))
  BY StateFacts, UpdateFacts
<1> QED
  BY <1>1, <1>2

(* A list of objects stays one when objects are made. *)
LEMMA ListGrows ==
  ASSUME NEW m \in Nat, NEW n \in Nat, m <= n, NEW s \in Seq(1 .. m)
  PROVE  s \in Seq(1 .. n)
<1>1. 1 .. m \subseteq 1 .. n
  OBVIOUS
<1> QED
  BY <1>1, SeqMonotonic

LEMMA PushFacts ==
  ASSUME NEW st, StateType(st), NEW p \in Objects
  PROVE  /\ StateType(Push(st, p))
         /\ Push(st, p).asked = st.asked
         /\ Push(st, p).heap = Append(st.heap, p)
         /\ Push(st, p).list = Append(st.list, Len(st.heap) + 1)
         /\ Push(st, p).nodes = st.nodes
<1> DEFINE h == Append(st.heap, p)
           n == Len(st.heap)
           q == Append(st.list, n + 1)
<1>1. Push(st, p) = [asked |-> st.asked, list |-> q, heap |-> h, nodes |-> st.nodes]
  <2>1. st = [asked |-> st.asked, list |-> st.list, heap |-> st.heap, nodes |-> st.nodes]
    BY DEF StateType
  <2>2. Push(st, p) = [[st EXCEPT !.heap = h] EXCEPT !.list = q]
    BY <2>1 DEF Push
  <2> HIDE DEF h, q
  <2> QED
    BY <2>1, <2>2
<1>2. h \in Seq(Objects) /\ Len(h) = n + 1 /\ n \in Nat
  BY AppendProperties DEF StateType
<1> HIDE DEF h, n
<1>3. q \in Seq(1 .. n + 1)
  <2>1. st.list \in Seq(1 .. n)
    BY DEF StateType, n
  <2>2. st.list \in Seq(1 .. n + 1)
    BY <1>2, <2>1, ListGrows
  <2> QED
    BY <1>2, <2>2, AppendProperties
<1> HIDE DEF q
<1>4. StateType(Push(st, p))
  BY <1>1, <1>2, <1>3 DEF StateType
<1> QED
  BY <1>1, <1>4 DEF h, n, q

LEMMA FrontFacts ==
  ASSUME NEW E, NEW s \in Seq(E), s # <<>>
  PROVE  /\ Len(s) \in Nat \ {0}
         /\ Front(s) \in Seq(E)
         /\ Len(Front(s)) = Len(s) - 1
         /\ \A i \in 1 .. Len(s) - 1 : Front(s)[i] = s[i]
<1>1. Len(s) \in Nat \ {0}
  OBVIOUS
<1>2. \A i \in 1 .. Len(s) - 1 : s[i] \in E
  OBVIOUS
<1> DEFINE m == Len(s) - 1
           t == SubSeq(s, 1, m)
<1>3. m \in Nat /\ Front(s) = t
  BY <1>1 DEF Front
<1> HIDE DEF m
<1>4. /\ t \in Seq(E)
      /\ Len(t) = IF 1 <= m THEN m - 1 + 1 ELSE 0
      /\ \A i \in 1 .. m - 1 + 1 : t[i] = s[1 + i - 1]
  BY <1>2, <1>3, SubSeqProperties DEF m
<1> HIDE DEF t
<1>5. Len(t) = m /\ \A i \in 1 .. m : t[i] = s[i]
  BY <1>3, <1>4
<1> QED
  BY <1>1, <1>3, <1>4, <1>5 DEF m
----------------------------------------------------------------------------
(* One callback. *)

(* Every key of the game is below the length of the list: the next click   *)
(* gets a key that is free.                                                *)
Leads(st) == \A k \in DOMAIN st.nodes["game"] : k < Len(st.list)

Net == Puck(Crease, "Same Sequence", period, FALSE)

(* What the callback of "Same Sequence" does. *)
LEMMA ReboundedFacts ==
  ASSUME NEW st, StateType(st), PeriodType, NEW o \in 1 .. Len(st.heap)
  PROVE  LET n == Len(st.list)
             r == Rebounded(st, o)
             hp == Append(st.heap, Net)
             g1 == Update(st.nodes[Path], n, Net)
             g2 == Put(g1, n + 1, hp[o])
         IN  /\ Net \in Objects
             /\ StateType(r)
             /\ r.asked = st.asked
             /\ r.heap = hp
             /\ r.list = Append(Append(st.list, Len(st.heap) + 1), o)
             /\ Len(r.list) = n + 2
             /\ known => r.nodes["undefined"] = st.nodes["undefined"]
             /\ ~known => r.nodes["game"] = st.nodes["game"]
             /\ NodeType(g1)
             /\ r.nodes[Path] = IF Settable(hp[o]) THEN g2 ELSE g1
<1> DEFINE n == Len(st.list)
           m == Len(st.heap)
           hp == Append(st.heap, Net)
           q1 == Append(st.list, m + 1)
           q2 == Append(q1, o)
           p == Push(st, Net)
           g1 == Update(st.nodes[Path], n, Net)
           s1 == UpdateLast(p, Net)
           s2 == [s1 EXCEPT !.list = q2]
<1>1. Net \in PuckKids /\ Net \in Kids /\ Net \in Objects
  <2>1. Net \in PuckKids
    BY GameTrackerAssumption DEF Net, Puck, PuckKids, PeriodType, ShotTypes, Continuing
  <2> QED
    BY <2>1 DEF PuckKids, Kids, Objects
<1>2. /\ n \in Nat /\ m \in Nat /\ o \in 1 .. m + 1
      /\ st.heap \in Seq(Objects) /\ st.list \in Seq(1 .. m + 1)
      /\ NodeType(st.nodes[Path])
  <2>1. st.list \in Seq(1 .. m) /\ m \in Nat
    BY DEF StateType
  <2>2. st.list \in Seq(1 .. m + 1)
    BY <2>1, ListGrows
  <2>3. n \in Nat /\ NodeType(st.nodes[Path])
    BY StateFacts
  <2>4. o \in 1 .. m + 1 /\ st.heap \in Seq(Objects)
    BY <2>1 DEF StateType
  <2> QED
    BY <2>1, <2>2, <2>3, <2>4
<1>3. /\ hp \in Seq(Objects) /\ Len(hp) = m + 1
      /\ q1 \in Seq(1 .. m + 1) /\ Len(q1) = n + 1
      /\ q2 \in Seq(1 .. m + 1) /\ Len(q2) = n + 2
  <2>1. hp \in Seq(Objects) /\ Len(hp) = m + 1
    BY <1>1, <1>2, AppendProperties
  <2>2. q1 \in Seq(1 .. m + 1) /\ Len(q1) = n + 1
    BY <1>2, AppendProperties
  <2> HIDE DEF q1, hp
  <2>3. q2 \in Seq(1 .. m + 1) /\ Len(q2) = n + 1 + 1
    BY <1>2, <2>2, AppendProperties
  <2> QED
    BY <1>2, <2>1, <2>2, <2>3
<1>4. /\ StateType(p) /\ p.asked = st.asked /\ p.heap = hp /\ p.list = q1
      /\ p.nodes = st.nodes
  BY <1>1, PushFacts
<1>5. LastKey(p) = n
  BY <1>2, <1>3, <1>4 DEF LastKey
<1>6. NodeType(g1) /\ s1 = Store(p, g1)
  <2> HIDE DEF p
  <2>1. NodeType(Update(p.nodes[Path], LastKey(p), Net))
        /\ UpdateLast(p, Net) = Store(p, Update(p.nodes[Path], LastKey(p), Net))
    BY <1>1, <1>4, UpdateLastFacts
  <2> QED
    BY <1>4, <1>5, <2>1
<1> HIDE DEF p, g1
<1>7. /\ StateType(s1) /\ s1.asked = st.asked /\ s1.heap = hp /\ s1.list = q1
      /\ s1.nodes[Path] = g1
      /\ known => s1.nodes["undefined"] = st.nodes["undefined"]
      /\ ~known => s1.nodes["game"] = st.nodes["game"]
  <2>1. /\ StateType(s1) /\ s1.asked = p.asked /\ s1.heap = p.heap /\ s1.list = p.list
        /\ s1.nodes[Path] = g1
        /\ known => s1.nodes["undefined"] = p.nodes["undefined"]
    BY <1>4, <1>6, StoreFacts
  <2>2. ~known => s1.nodes["game"] = p.nodes["game"]
    BY <1>4, <1>6 DEF Store, StateType, Path
  <2> QED
    BY <1>4, <2>1, <2>2
<1> HIDE DEF s1, q1, q2, hp
<1>8. /\ StateType(s2) /\ s2.asked = st.asked /\ s2.heap = hp /\ s2.list = q2
      /\ s2.nodes = s1.nodes
  <2>1. s1 = [asked |-> s1.asked, list |-> s1.list, heap |-> s1.heap, nodes |-> s1.nodes]
    BY <1>7 DEF StateType
  <2>2. s2 = [asked |-> s1.asked, list |-> q2, heap |-> s1.heap, nodes |-> s1.nodes]
    BY <2>1
  <2> HIDE DEF s2
  <2>3. q2 \in Seq(1 .. Len(s2.heap))
    BY <1>3, <1>7, <2>2
  <2> QED
    BY <1>7, <2>2, <2>3 DEF StateType
<1> HIDE DEF s2
<1>9. hp[o] \in Objects
  BY <1>2, <1>3
<1>10. LastKey(s2) = n + 1
  BY <1>2, <1>3, <1>8 DEF LastKey
<1>11. Rebounded(st, o) = SetLast(s2, hp[o])
  BY <1>7 DEF Rebounded, Net, p, s1, s2, q2, q1
<1>12. CASE ~Settable(hp[o])
  <2>1. Rebounded(st, o) = s2
    BY <1>8, <1>9, <1>11, <1>12, SetLastFacts
  <2> QED
    BY <1>1, <1>3, <1>6, <1>7, <1>8, <1>12, <2>1 DEF q1, q2, hp, g1
<1>13. CASE Settable(hp[o])
  <2> DEFINE g2 == Put(g1, n + 1, hp[o])
  <2>1. NodeType(g2) /\ SetLast(s2, hp[o]) = Store(s2, g2)
    <3>1. LET g == Put(s2.nodes[Path], LastKey(s2), hp[o])
          IN  NodeType(g) /\ SetLast(s2, hp[o]) = Store(s2, g)
      BY <1>8, <1>9, <1>13, SetLastFacts
    <3> QED
      BY <1>7, <1>8, <1>10, <3>1
  <2> HIDE DEF g2
  <2> DEFINE r == Store(s2, g2)
  <2>2. /\ StateType(r) /\ r.asked = s2.asked /\ r.heap = s2.heap /\ r.list = s2.list
        /\ r.nodes[Path] = g2
        /\ known => r.nodes["undefined"] = s2.nodes["undefined"]
    BY <1>8, <2>1, StoreFacts
  <2>3. ~known => r.nodes["game"] = s2.nodes["game"]
    BY <1>8 DEF Store, StateType, Path
  <2>4. Rebounded(st, o) = r
    BY <1>11, <2>1
  <2> HIDE DEF r
  <2> QED
    BY <1>1, <1>3, <1>6, <1>7, <1>8, <1>13, <2>2, <2>3, <2>4 DEF q1, q2, hp, g1, g2
<1> QED
  BY <1>12, <1>13

(* What the callback of Undo and of Dead Sequence does. *)
LEMMA RemovedFacts ==
  ASSUME NEW st, StateType(st)
  PROVE  LET r == RemovedLast(st)
         IN  /\ StateType(r)
             /\ r.asked = st.asked /\ r.heap = st.heap
             /\ r.nodes["undefined"] = st.nodes["undefined"]
             /\ ~known => r = st
             /\ known => /\ r.list = IF st.list = <<>> THEN <<>> ELSE Front(st.list)
                         /\ r.nodes["game"] = Drop(st.nodes["game"], LastKey(st))
<1> DEFINE g == Drop(st.nodes["game"], LastKey(st))
           q == IF st.list = <<>> THEN <<>> ELSE Front(st.list)
<1>1. CASE ~known
  <2>1. RemovedLast(st) = st
    BY <1>1 DEF RemovedLast
  <2> QED
    BY <1>1, <2>1
<1>2. CASE known
  <2>1. NodeType(g)
    BY DropFacts DEF StateType
  <2>2. q \in Seq(1 .. Len(st.heap))
    <3>1. st.list \in Seq(1 .. Len(st.heap))
      BY DEF StateType
    <3>2. CASE st.list = <<>>
      BY <3>2
    <3>3. CASE st.list # <<>>
      BY <3>1, <3>3, FrontFacts
    <3> QED
      BY <3>2, <3>3
  <2> HIDE DEF g
  <2>3. RemovedLast(st) = [asked |-> st.asked, list |-> q, heap |-> st.heap,
                           nodes |-> [game |-> g, undefined |-> st.nodes["undefined"]]]
    <3>1. /\ st = [asked |-> st.asked, list |-> st.list, heap |-> st.heap, nodes |-> st.nodes]
          /\ st.nodes = [game |-> st.nodes["game"], undefined |-> st.nodes["undefined"]]
      BY DEF StateType
    <3>2. q = IF st.list = <<>> THEN st.list ELSE Front(st.list)
      OBVIOUS
    <3>3. RemovedLast(st) = [[st EXCEPT !.nodes["game"] = g] EXCEPT !.list = q]
      BY <1>2, <3>1, <3>2 DEF RemovedLast, g
    <3> HIDE DEF q
    <3>4. [st EXCEPT !.nodes["game"] = g] =
              [asked |-> st.asked, list |-> st.list, heap |-> st.heap,
               nodes |-> [game |-> g, undefined |-> st.nodes["undefined"]]]
      BY <3>1
    <3> QED
      BY <3>3, <3>4
  <2> HIDE DEF q
  <2>4. StateType(RemovedLast(st))
    BY <2>1, <2>2, <2>3 DEF StateType
  <2> QED
    BY <1>2, <2>3, <2>4 DEF g, q
<1> QED
  BY <1>1, <1>2

LEMMA LoadFacts ==
  ASSUME NEW st, StateType(st)
  PROVE  LET r == Run(st, Load)
         IN  /\ StateType(r)
             /\ r.asked = st.asked + 1
             /\ r.list = st.list /\ r.heap = st.heap /\ r.nodes = st.nodes
<1>1. Run(st, Load) = [st EXCEPT !.asked = @ + 1]
  BY DEF Run, Load
<1>2. st = [asked |-> st.asked, list |-> st.list, heap |-> st.heap, nodes |-> st.nodes]
  BY DEF StateType
<1>3. Run(st, Load) = [asked |-> st.asked + 1, list |-> st.list, heap |-> st.heap,
                       nodes |-> st.nodes]
  BY <1>1, <1>2
<1> QED
  BY <1>3 DEF StateType

(* No object and no child has the period All. *)
RealNode(g) == \A k \in DOMAIN g : PuckRead(g[k]).period # All

Real(st) ==
    /\ \A o \in 1 .. Len(st.heap) : st.heap[o].period # All
    /\ RealNode(st.nodes["game"]) /\ RealNode(st.nodes["undefined"])

(* The period of a child is the one it has, or none. *)
LEMMA PeriodRead ==
  ASSUME NEW c
  PROVE  /\ "period" \in DOMAIN c => PuckRead(c).period = c.period
         /\ "period" \notin DOMAIN c => PuckRead(c).period # All
<1>1. "period" \in Fields
  BY DEF Fields
<1>2. PuckRead(c).period = IF "period" \in DOMAIN c THEN c.period ELSE Undefined
  BY <1>1 DEF PuckRead
<1> QED
  BY <1>2, GameTrackerAssumption

LEMMA RealOver ==
  ASSUME NEW f, NEW c, PuckRead(f).period # All, PuckRead(c).period # All
  PROVE  PuckRead(Over(f, c)).period # All
<1> DEFINE o == Over(f, c)
<1>1. /\ DOMAIN o = DOMAIN f \cup DOMAIN c
      /\ \A x \in DOMAIN o : o[x] = IF x \in DOMAIN f THEN f[x] ELSE c[x]
  BY DEF Over
<1> HIDE DEF o
<1>2. CASE "period" \in DOMAIN o
  <2>1. o.period = IF "period" \in DOMAIN f THEN f.period ELSE c.period
    BY <1>1, <1>2
  <2>2. o.period # All
    BY <1>1, <1>2, <2>1, PeriodRead
  <2> QED
    BY <1>2, <2>2, PeriodRead DEF o
<1>3. CASE "period" \notin DOMAIN o
  BY <1>3, PeriodRead DEF o
<1> QED
  BY <1>2, <1>3

LEMMA RealPut ==
  ASSUME NEW g, RealNode(g), NEW k, NEW c, PuckRead(c).period # All
  PROVE  RealNode(Put(g, k, c))
<1>1. /\ DOMAIN Put(g, k, c) = DOMAIN g \cup {k}
      /\ \A j \in DOMAIN g \cup {k} : Put(g, k, c)[j] = IF j = k THEN c ELSE g[j]
  BY DEF Put, Over
<1> QED
  BY <1>1 DEF RealNode

LEMMA RealUpdate ==
  ASSUME NEW g, RealNode(g), NEW k, NEW f, PuckRead(f).period # All
  PROVE  RealNode(Update(g, k, f))
<1> DEFINE c == IF k \in DOMAIN g THEN Over(f, g[k]) ELSE f
<1>1. PuckRead(c).period # All
  BY RealOver DEF RealNode
<1>2. Update(g, k, f) = Put(g, k, c)
  BY DEF Update
<1> HIDE DEF c
<1> QED
  BY <1>1, <1>2, RealPut

LEMMA RealStore ==
  ASSUME NEW st, StateType(st), Real(st), NEW g, NodeType(g), RealNode(g)
  PROVE  Real(Store(st, g))
<1> DEFINE r == Store(st, g)
<1>1. StateType(r) /\ r.heap = st.heap /\ r.nodes[Path] = g
  BY StoreFacts
<1>2. /\ known => r.nodes["undefined"] = st.nodes["undefined"]
      /\ ~known => r.nodes["game"] = st.nodes["game"]
  BY DEF Store, StateType, Path
<1> HIDE DEF r
<1>3. RealNode(r.nodes["game"]) /\ RealNode(r.nodes["undefined"])
  BY <1>1, <1>2 DEF Path, Real
<1>4. Real(r)
  BY <1>1, <1>3 DEF Real
<1> QED
  BY <1>4 DEF r

(* What every callback keeps, whatever it does; that no puck has the       *)
(* period All, if it is not the one selected.                              *)
Keeps(st, r) ==
    /\ StateType(r)
    /\ r.asked >= st.asked
    /\ Len(r.heap) >= Len(st.heap)
    /\ known => r.nodes["undefined"] = st.nodes["undefined"]
    /\ Leads(st) => Leads(r)
    /\ period # All /\ Real(st) => Real(r)

(* A callback that writes to the last key of the list. *)
LEMMA StoreKeeps ==
  ASSUME NEW st, StateType(st), NEW g, NodeType(g),
         DOMAIN g = DOMAIN st.nodes[Path] \cup {LastKey(st)},
         Real(st) => RealNode(g)
  PROVE  Keeps(st, Store(st, g))
<1> DEFINE r == Store(st, g)
<1>1. /\ StateType(r) /\ r.asked = st.asked /\ r.list = st.list /\ r.heap = st.heap
      /\ r.nodes[Path] = g
      /\ known => r.nodes["undefined"] = st.nodes["undefined"]
  BY StoreFacts
<1>2. ~known => r.nodes["game"] = st.nodes["game"]
  BY DEF Store, StateType, Path
<1>3. Len(st.list) \in Nat /\ LastKey(st) < Len(st.list)
  BY StateFacts
<1>4. st.asked \in Nat /\ Len(st.heap) \in Nat
  BY StateFacts DEF StateType
<1> HIDE DEF r
<1>5. ASSUME Leads(st) PROVE Leads(r)
  <2>1. CASE known
    <3>1. DOMAIN r.nodes["game"] = DOMAIN st.nodes["game"] \cup {LastKey(st)}
      BY <1>1, <2>1 DEF Path
    <3> QED
      BY <1>1, <1>3, <1>5, <3>1 DEF Leads
  <2>2. CASE ~known
    BY <1>1, <1>2, <1>5, <2>2 DEF Leads
  <2> QED
    BY <2>1, <2>2
<1>6. Real(st) => Real(r)
  BY RealStore DEF r
<1> QED
  BY <1>1, <1>4, <1>5, <1>6 DEF Keeps, r

LEMMA SameKeeps ==
  ASSUME NEW st, StateType(st)
  PROVE  Keeps(st, st)
BY StateFacts DEF Keeps, StateType

LEMMA RunKeeps ==
  ASSUME NEW st, StateType(st), PeriodType, NEW c \in Callback(Len(st.heap))
  PROVE  Keeps(st, Run(st, c))
<1>0. /\ st.asked \in Nat /\ Len(st.heap) \in Nat /\ Len(st.list) \in Nat
      /\ LastKey(st) \in Int /\ LastKey(st) >= -1 /\ LastKey(st) < Len(st.list)
      /\ NodeType(st.nodes[Path])
  BY StateFacts DEF StateType
<1>1. CASE c = Load
  <2> DEFINE r == Run(st, c)
  <2>1. StateType(r) /\ r.asked = st.asked + 1 /\ r.list = st.list /\ r.heap = st.heap
        /\ r.nodes = st.nodes
    BY <1>1, LoadFacts
  <2> HIDE DEF r
  <2> QED
    BY <1>0, <2>1 DEF Keeps, Leads, Real, r
<1>2. CASE c \in {Save(o) : o \in 1 .. Len(st.heap)}
  <2>1. PICK o \in 1 .. Len(st.heap) : c = Save(o)
    BY <1>2
  <2>2. Run(st, c) = SetLast(st, st.heap[o]) /\ st.heap[o] \in Objects
    BY <2>1 DEF Run, Save, StateType
  <2> DEFINE p == st.heap[o]
             g == Put(st.nodes[Path], LastKey(st), p)
  <2>3. CASE ~Settable(p)
    BY <2>2, <2>3, SetLastFacts, SameKeeps
  <2>4. CASE Settable(p)
    <3>1. NodeType(g) /\ Run(st, c) = Store(st, g)
      BY <2>2, <2>4, SetLastFacts
    <3>2. DOMAIN g = DOMAIN st.nodes[Path] \cup {LastKey(st)}
      BY DEF Put, Over
    <3>3. Real(st) => RealNode(g)
      <4>1. PuckRead(p).period = p.period
        BY <2>2, PeriodRead DEF Objects
      <4>2. Real(st) => RealNode(st.nodes[Path]) /\ p.period # All
        BY DEF Real, Path
      <4> QED
        BY <4>1, <4>2, RealPut
    <3> HIDE DEF g
    <3> QED
      BY <3>1, <3>2, <3>3, StoreKeeps
  <2> QED
    BY <2>3, <2>4
<1>3. ASSUME NEW f \in Kids, Run(st, c) = UpdateLast(st, f), PuckRead(f).period # All
      PROVE  Keeps(st, Run(st, c))
  <2> DEFINE g == Update(st.nodes[Path], LastKey(st), f)
  <2>1. NodeType(g) /\ Run(st, c) = Store(st, g)
    BY <1>3, UpdateLastFacts
  <2>2. DOMAIN g = DOMAIN st.nodes[Path] \cup {LastKey(st)}
    BY <1>0, UpdateFacts
  <2>3. Real(st) => RealNode(g)
    BY <1>3, RealUpdate DEF Real, Path
  <2> HIDE DEF g
  <2> QED
    BY <2>1, <2>2, <2>3, StoreKeeps
<1>4. CASE c = Skate
  <2>1. Run(st, c) = UpdateLast(st, [shotType |-> "Skate"])
    BY <1>4 DEF Run, Skate
  <2>2. [shotType |-> "Skate"] \in Kids
    BY DEF Kids, ShotTypes, Continuing
  <2>3. PuckRead([shotType |-> "Skate"]).period # All
    BY PeriodRead
  <2> QED
    BY <1>3, <2>1, <2>2, <2>3
<1>5. CASE c \in {Outcome(t) : t \in Outcomes}
  <2>1. PICK t \in Outcomes : c = Outcome(t)
    BY <1>5
  <2>2. Run(st, c) = UpdateLast(st, [shotType |-> t, newSequenceBool |-> TRUE])
    BY <2>1 DEF Run, Outcome
  <2>3. [shotType |-> t, newSequenceBool |-> TRUE] \in Kids
    BY DEF Kids, ShotTypes
  <2>4. PuckRead([shotType |-> t, newSequenceBool |-> TRUE]).period # All
    BY PeriodRead
  <2> QED
    BY <1>3, <2>2, <2>3, <2>4
<1>6. CASE c \in {Rebound(o) : o \in 1 .. Len(st.heap)}
  <2>1. PICK o \in 1 .. Len(st.heap) : c = Rebound(o)
    BY <1>6
  <2>2. Run(st, c) = Rebounded(st, o)
    BY <2>1 DEF Run, Rebound
  <2> DEFINE n == Len(st.list)
             r == Rebounded(st, o)
             hp == Append(st.heap, Net)
             g1 == Update(st.nodes[Path], n, Net)
             g2 == Put(g1, n + 1, hp[o])
  <2>3. /\ Net \in Objects
        /\ StateType(r) /\ r.asked = st.asked /\ r.heap = hp /\ Len(r.list) = n + 2
        /\ known => r.nodes["undefined"] = st.nodes["undefined"]
        /\ ~known => r.nodes["game"] = st.nodes["game"]
        /\ r.nodes[Path] = IF Settable(hp[o]) THEN g2 ELSE g1
    BY ReboundedFacts
  <2>4. Len(hp) = Len(st.heap) + 1
    BY <2>3, AppendProperties DEF StateType
  <2>5. DOMAIN g1 = DOMAIN st.nodes[Path] \cup {n} /\ DOMAIN g2 = DOMAIN g1 \cup {n + 1}
    BY DEF Update, Put, Over
  <2>6. ASSUME period # All, Real(st) PROVE Real(r)
    <3>1. st.heap \in Seq(Objects) /\ hp \in Seq(Objects)
      BY <2>3, AppendProperties DEF StateType
    <3>2. \A i \in 1 .. Len(hp) : hp[i] \in Objects /\ hp[i].period # All
      <4>1. Net.period # All
        BY <2>6 DEF Net, Puck
      <4>2. \A i \in 1 .. Len(hp) : hp[i] = IF i <= Len(st.heap) THEN st.heap[i] ELSE Net
        BY <2>3, <2>4, AppendProperties DEF StateType
      <4> HIDE DEF hp
      <4> QED
        BY <1>0, <2>4, <2>6, <3>1, <4>1, <4>2 DEF Real
    <3>3. RealNode(g1)
      <4>1. PuckRead(Net).period # All
        BY <2>6, PeriodRead DEF Net, Puck
      <4> QED
        BY <2>6, <4>1, RealUpdate DEF Real, Path
    <3>4. RealNode(g2)
      <4>1. o \in 1 .. Len(hp)
        BY <1>0, <2>4
      <4> HIDE DEF hp, g1
      <4>2. PuckRead(hp[o]).period # All
        BY <3>2, <4>1, PeriodRead DEF Objects
      <4> QED
        BY <3>3, <4>2, RealPut
    <3>5. RealNode(r.nodes[Path])
      <4> HIDE DEF r, hp, g1, g2
      <4> QED
        BY <2>3, <3>3, <3>4
    <3> HIDE DEF r, hp, g1, g2
    <3>6. RealNode(r.nodes["game"]) /\ RealNode(r.nodes["undefined"])
      BY <2>3, <2>6, <3>5 DEF Path, Real
    <3> QED
      BY <2>3, <3>2, <3>6 DEF Real
  <2> HIDE DEF r, hp, g1, g2
  <2>7. ASSUME Leads(st) PROVE Leads(r)
    <3>1. CASE known
      <4>1. DOMAIN r.nodes["game"] \subseteq DOMAIN st.nodes["game"] \cup {n, n + 1}
        BY <2>3, <2>5, <3>1 DEF Path
      <4>2. \A k \in DOMAIN st.nodes["game"] : k \in Int
        BY DEF StateType, NodeType
      <4> QED
        BY <1>0, <2>3, <2>7, <4>1, <4>2 DEF Leads
    <3>2. CASE ~known
      <4>1. \A k \in DOMAIN st.nodes["game"] : k \in Int
        BY DEF StateType, NodeType
      <4> QED
        BY <1>0, <2>3, <2>7, <3>2, <4>1 DEF Leads
    <3> QED
      BY <3>1, <3>2
  <2>8. Keeps(st, r)
    BY <1>0, <2>3, <2>4, <2>7, <2>6 DEF Keeps
  <2> QED
    BY <2>2, <2>8 DEF r
<1>7. CASE c \in {Undo, Dead}
  <2> DEFINE r == RemovedLast(st)
  <2>1. Run(st, c) = r
    BY <1>7 DEF Run, Undo, Dead
  <2>2. /\ StateType(r)
        /\ r.asked = st.asked /\ r.heap = st.heap
        /\ r.nodes["undefined"] = st.nodes["undefined"]
        /\ ~known => r = st
        /\ known => /\ r.list = IF st.list = <<>> THEN <<>> ELSE Front(st.list)
                    /\ r.nodes["game"] = Drop(st.nodes["game"], LastKey(st))
    BY RemovedFacts
  <2> HIDE DEF r
  <2>3. ASSUME Leads(st), known PROVE Leads(r)
    <3>1. DOMAIN r.nodes["game"] = DOMAIN st.nodes["game"] \ {LastKey(st)}
      <4>1. NodeType(st.nodes["game"])
        BY DEF StateType
      <4>2. DOMAIN Drop(st.nodes["game"], LastKey(st)) = DOMAIN st.nodes["game"] \ {LastKey(st)}
        BY <4>1, DropFacts
      <4> QED
        BY <2>2, <2>3, <4>2
    <3>2. \A k \in DOMAIN st.nodes["game"] : k \in Int
      BY DEF StateType, NodeType
    <3>3. CASE st.list = <<>>
      BY <2>2, <2>3, <3>1, <3>3 DEF Leads
    <3>4. CASE st.list # <<>>
      <4>1. Len(r.list) = Len(st.list) - 1
        BY <2>2, <2>3, <3>4, FrontFacts DEF StateType
      <4> QED
        BY <1>0, <2>3, <3>1, <3>2, <4>1 DEF Leads, LastKey
    <3> QED
      BY <3>3, <3>4
  <2>4. Real(st) => Real(r)
    <3>1. RealNode(st.nodes["game"]) => RealNode(Drop(st.nodes["game"], LastKey(st)))
      BY DEF RealNode, Drop
    <3> QED
      BY <2>2, <3>1 DEF Real
  <2>5. Keeps(st, r)
    BY <1>0, <2>2, <2>3, <2>4 DEF Keeps
  <2> QED
    BY <2>1, <2>5
<1> QED
  BY <1>1, <1>2, <1>4, <1>5, <1>6, <1>7 DEF Callback
----------------------------------------------------------------------------
(* All callbacks, one after the other. *)

(* RunAll is defined: it is the last of a sequence of records, each the    *)
(* one before after one callback more.                                     *)
LEMMA RunAllSteps ==
  ASSUME NEW st, NEW cs, Len(cs) \in Nat
  PROVE  \E h : /\ h[0] = st
                /\ \A i \in 1 .. Len(cs) : h[i] = Run(h[i - 1], cs[i])
                /\ RunAll(st, cs) = h[Len(cs)]
<1>0. PICK n \in Nat : n = Len(cs)
  OBVIOUS
<1> DEFINE Sat(h, m) == /\ h = [i \in 0 .. m |-> h[i]]
                        /\ h[0] = st
                        /\ \A i \in 1 .. m : h[i] = Run(h[i - 1], cs[i])
           S == {m \in Nat : \E h : Sat(h, m)}
<1>1. 0 \in S
  <2> DEFINE h == [i \in 0 .. 0 |-> st]
  <2>1. Sat(h, 0)
    OBVIOUS
  <2> QED
    BY <2>1
<1>2. ASSUME NEW m \in 1 .. n, m - 1 \in S
      PROVE  m \in S
  <2>1. m \in Nat /\ m - 1 \in Nat /\ m # 0
    OBVIOUS
  <2>2. PICK g : Sat(g, m - 1)
    BY <1>2
  <2> DEFINE y == Run(g[m - 1], cs[m])
             h == [i \in 0 .. m |-> IF i = m THEN y ELSE g[i]]
  <2> HIDE DEF y
  <2>3. h = [i \in 0 .. m |-> h[i]] /\ h[0] = st
    BY <2>1, <2>2
  <2>4. ASSUME NEW i \in 1 .. m PROVE h[i] = Run(h[i - 1], cs[i])
    <3>1. CASE i = m
      <4>1. h[i] = y /\ h[i - 1] = g[m - 1]
        BY <2>1, <3>1
      <4> QED
        BY <3>1, <4>1 DEF y
    <3>2. CASE i # m
      <4>1. i \in 1 .. m - 1 /\ i \in 0 .. m /\ i - 1 \in 0 .. m /\ i - 1 # m
        BY <2>1, <3>2
      <4>2. h[i] = g[i] /\ h[i - 1] = g[i - 1]
        BY <3>2, <4>1
      <4>3. g[i] = Run(g[i - 1], cs[i])
        BY <2>2, <4>1
      <4> QED
        BY <4>2, <4>3
    <3> QED
      BY <3>1, <3>2
  <2> HIDE DEF h
  <2>5. Sat(h, m)
    BY <2>3, <2>4
  <2> HIDE DEF Sat
  <2> QED
    BY <2>1, <2>5
<1>3. \A m \in 0 .. n : m \in S
  <2> HIDE DEF S
  <2> QED
    BY <1>1, <1>2, UpTo
<1>4. n \in S
  BY <1>3
<1>5. PICK h : Sat(h, n)
  BY <1>4
<1> DEFINE F(g) == g = [i \in 0 .. Len(cs) |-> IF i = 0 THEN st ELSE Run(g[i - 1], cs[i])]
<1>6. F(h)
  <2> DEFINE g == [i \in 0 .. Len(cs) |-> IF i = 0 THEN st ELSE Run(h[i - 1], cs[i])]
  <2>1. \A i \in 0 .. n : h[i] = g[i]
    <3>1. ASSUME NEW i \in 0 .. n, i # 0 PROVE h[i] = g[i]
      <4>1. i \in 1 .. n /\ i \in 0 .. Len(cs)
        BY <1>0, <3>1
      <4> QED
        BY <1>5, <3>1, <4>1
    <3>2. h[0] = g[0]
      BY <1>0, <1>5
    <3> QED
      BY <3>1, <3>2
  <2>2. h = [i \in 0 .. n |-> h[i]]
    BY <1>5
  <2> QED
    BY <1>0, <2>1, <2>2
<1>7. PICK g : F(g) /\ RunAll(st, cs) = g[Len(cs)]
  <2> DEFINE c == CHOOSE g : F(g)
  <2>1. F(c)
    <3> HIDE DEF F
    <3> QED
      BY <1>6
  <2>2. RunAll(st, cs) = c[Len(cs)]
    BY DEF RunAll
  <2> QED
    BY <2>1, <2>2
<1>8. g[0] = st /\ \A i \in 1 .. n : g[i] = Run(g[i - 1], cs[i])
  BY <1>0, <1>7
<1> QED
  BY <1>0, <1>7, <1>8

LEMMA RunOne ==
  ASSUME NEW st, NEW c
  PROVE  RunAll(st, <<c>>) = Run(st, c)
<1> DEFINE cs == <<c>>
<1>1. Len(cs) = 1 /\ cs[1] = c /\ 1 \in Nat
  OBVIOUS
<1> HIDE DEF cs
<1>2. PICK h : /\ h[0] = st
               /\ \A i \in 1 .. Len(cs) : h[i] = Run(h[i - 1], cs[i])
               /\ RunAll(st, cs) = h[Len(cs)]
  BY <1>1, RunAllSteps
<1>3. h[1] = Run(h[1 - 1], cs[1])
  BY <1>1, <1>2
<1>4. RunAll(st, cs) = Run(st, c)
  BY <1>1, <1>2, <1>3
<1> QED
  BY <1>4 DEF cs

(* A callback registered when there were fewer objects is still one. *)
LEMMA CallbackStays ==
  ASSUME NEW m \in Nat, NEW n \in Nat, m <= n, NEW c \in Callback(m)
  PROVE  c \in Callback(n)
<1>1. \A o \in 1 .. m : o \in 1 .. n
  OBVIOUS
<1> QED
  BY <1>1 DEF Callback

LEMMA KeepsOn ==
  ASSUME NEW st, NEW r, NEW t, StateType(st), Keeps(st, r), Keeps(r, t)
  PROVE  Keeps(st, t)
<1>1. /\ st.asked \in Nat /\ r.asked \in Nat /\ t.asked \in Nat
      /\ Len(st.heap) \in Nat /\ Len(r.heap) \in Nat /\ Len(t.heap) \in Nat
  BY StateFacts DEF StateType, Keeps
<1> QED
  BY <1>1 DEF Keeps

LEMMA RunAllKeeps ==
  ASSUME NEW st, StateType(st), PeriodType, NEW cs \in Seq(Callback(Len(st.heap)))
  PROVE  Keeps(st, RunAll(st, cs))
<1>0. PICK n \in Nat : n = Len(cs)
  OBVIOUS
<1>1. n \in Nat /\ \A i \in 1 .. n : cs[i] \in Callback(Len(st.heap))
  BY <1>0
<1>2. PICK h : /\ h[0] = st
               /\ \A i \in 1 .. n : h[i] = Run(h[i - 1], cs[i])
               /\ RunAll(st, cs) = h[n]
  <2>1. \E h : /\ h[0] = st
               /\ \A i \in 1 .. Len(cs) : h[i] = Run(h[i - 1], cs[i])
               /\ RunAll(st, cs) = h[Len(cs)]
    <3>1. Len(cs) \in Nat
      BY <1>0
    <3> QED
      BY <3>1, RunAllSteps
  <2> QED
    BY <1>0, <2>1
<1> DEFINE S == {i \in 0 .. n : Keeps(st, h[i])}
<1>3. 0 \in S
  BY <1>1, <1>2, SameKeeps
<1>4. ASSUME NEW i \in 1 .. n, i - 1 \in S
      PROVE  i \in S
  <2>1. Keeps(st, h[i - 1]) /\ i \in 0 .. n
    BY <1>4
  <2>2. StateType(h[i - 1]) /\ Len(h[i - 1].heap) >= Len(st.heap)
    BY <2>1 DEF Keeps
  <2>3. Len(st.heap) \in Nat /\ Len(h[i - 1].heap) \in Nat
    BY <2>2, StateFacts
  <2>4. cs[i] \in Callback(Len(h[i - 1].heap))
    BY <1>1, <2>2, <2>3, CallbackStays
  <2>5. Keeps(h[i - 1], h[i])
    BY <1>2, <2>2, <2>4, RunKeeps
  <2>6. Keeps(st, h[i])
    BY <2>1, <2>5, KeepsOn
  <2> QED
    BY <2>1, <2>6
<1>5. \A i \in 0 .. n : i \in S
  <2> HIDE DEF S
  <2> QED
    BY <1>1, <1>3, <1>4, UpTo
<1>6. Keeps(st, h[n])
  BY <1>1, <1>5
<1> QED
  BY <1>2, <1>6
----------------------------------------------------------------------------
(* The types of the variables. *)

PageTypes ==
    /\ signedIn \in BOOLEAN
    /\ signIns \in 0 .. MaxSignIns
    /\ loading \in Nat
    /\ known \in BOOLEAN
    /\ placed \in BOOLEAN
    /\ mode \in {"track", "view"}
    /\ period \in Periods \cup (IF mode = "view" THEN {All} ELSE {})
    /\ StateType(Now)
    /\ callbacks \in Seq(Callback(Len(heap)))

LEMMA NowFacts ==
  /\ Now.asked = asked /\ Now.list = currentPucks /\ Now.heap = heap /\ Now.nodes = nodes
  /\ (Now.asked = asked /\ Now.list = currentPucks /\ Now.heap = heap /\ Now.nodes = nodes)'
BY DEF Now

(* The state that Becomes describes. *)
LEMMA BecomesNow ==
  ASSUME NEW st, StateType(st), Becomes(st)
  PROVE  Now' = st
BY DEF Becomes, Now, StateType

(* One object is given another value. *)
LEMMA ObjectFacts ==
  ASSUME NEW st, StateType(st), NEW o \in 1 .. Len(st.heap), NEW p \in Objects
  PROVE  LET r == [st EXCEPT !.heap[o] = p]
         IN  /\ StateType(r)
             /\ r.asked = st.asked /\ r.list = st.list /\ r.nodes = st.nodes
             /\ r.heap = [st.heap EXCEPT ![o] = p]
             /\ Len(r.heap) = Len(st.heap)
             /\ r.heap[o] = p
             /\ \A i \in 1 .. Len(st.heap) : i # o => r.heap[i] = st.heap[i]
<1> DEFINE h == [st.heap EXCEPT ![o] = p]
           r == [st EXCEPT !.heap[o] = p]
<1>1. st = [asked |-> st.asked, list |-> st.list, heap |-> st.heap, nodes |-> st.nodes]
  BY DEF StateType
<1>2. h \in Seq(Objects) /\ Len(h) = Len(st.heap) /\ h[o] = p
      /\ \A i \in 1 .. Len(st.heap) : i # o => h[i] = st.heap[i]
  <2>1. st.heap \in Seq(Objects)
    BY DEF StateType
  <2>2. /\ h \in Seq(Objects) /\ Len(h) = Len(st.heap)
        /\ \A i \in 1 .. Len(st.heap) : h[i] = IF i = o THEN p ELSE st.heap[i]
    BY <2>1, ExceptSeq
  <2> QED
    BY <2>2
<1>3. r = [asked |-> st.asked, list |-> st.list, heap |-> h, nodes |-> st.nodes]
  BY <1>1, SMTT(30)
<1> HIDE DEF h, r
<1>4. StateType(r)
  BY <1>2, <1>3 DEF StateType
<1> QED
  BY <1>2, <1>3, <1>4 DEF h, r

(* Another list of the same objects. *)
LEMMA ListFacts ==
  ASSUME NEW st, StateType(st), NEW q \in Seq(1 .. Len(st.heap))
  PROVE  LET r == [st EXCEPT !.list = q]
         IN  /\ StateType(r)
             /\ r.asked = st.asked /\ r.list = q /\ r.nodes = st.nodes /\ r.heap = st.heap
<1> DEFINE r == [st EXCEPT !.list = q]
<1>1. st = [asked |-> st.asked, list |-> st.list, heap |-> st.heap, nodes |-> st.nodes]
  BY DEF StateType
<1>2. r = [asked |-> st.asked, list |-> q, heap |-> st.heap, nodes |-> st.nodes]
  BY <1>1
<1> HIDE DEF r
<1>3. StateType(r)
  BY <1>2 DEF StateType
<1> QED
  BY <1>2, <1>3 DEF r

(* A handler's local work st and the callbacks cs it registers. *)
Handled(st, cs) ==
    /\ StateType(st)
    /\ Len(st.heap) >= Len(heap)
    /\ st.asked = asked
    /\ st.nodes = nodes
    /\ cs \in Seq(Callback(Len(st.heap)))
    /\ Handle(st, cs)

(* The object that is last in the list. *)
LastObject == currentPucks[Len(currentPucks)]

LEMMA LastObjectFacts ==
  ASSUME PageTypes, currentPucks # <<>>
  PROVE  /\ LastObject \in 1 .. Len(heap)
         /\ Len(currentPucks) \in Nat \ {0}
         /\ LastPuck = heap[LastObject]
         /\ heap[LastObject] \in Objects
<1>1. currentPucks \in Seq(1 .. Len(heap)) /\ heap \in Seq(Objects)
  BY NowFacts DEF PageTypes, StateType
<1>2. Len(currentPucks) \in Nat \ {0}
  BY <1>1
<1>3. LastObject \in 1 .. Len(heap)
  BY <1>1, <1>2 DEF LastObject
<1>4. heap[LastObject] \in Objects
  BY <1>1, <1>3
<1> QED
  BY <1>2, <1>3, <1>4 DEF LastPuck, Listed, LastObject

SkateState == [Now EXCEPT !.heap[LastObject] = [heap[LastObject] EXCEPT !.shotType = "Skate"]]

LEMMA SkateHandled ==
  ASSUME PageTypes, NEW pos, CanvasSkate(pos)
  PROVE  /\ currentPucks # <<>>
         /\ Handled(SkateState, <<Skate>>)
<1> DEFINE p == [heap[LastObject] EXCEPT !.shotType = "Skate"]
<1>1. currentPucks # <<>> /\ Handle([Now EXCEPT !.heap[LastObject].shotType = "Skate"], <<Skate>>)
  BY DEF CanvasSkate, WithinRegion, LastObject
<1>2. /\ LastObject \in 1 .. Len(heap) /\ heap[LastObject] \in Objects
      /\ heap \in Seq(Objects) /\ StateType(Now) /\ Now.heap = heap
  BY <1>1, LastObjectFacts, NowFacts DEF PageTypes, StateType
<1>3. p \in Objects
  BY <1>2 DEF Objects, ShotTypes, Continuing
<1>4. [Now EXCEPT !.heap[LastObject].shotType = "Skate"] = SkateState
  BY <1>2 DEF SkateState, Now
<1> HIDE DEF p
<1>5. /\ StateType(SkateState) /\ SkateState.asked = asked /\ SkateState.nodes = nodes
      /\ Len(SkateState.heap) = Len(heap)
  <2> DEFINE r == [Now EXCEPT !.heap[LastObject] = p]
  <2>1. /\ StateType(r) /\ r.asked = Now.asked /\ r.nodes = Now.nodes
        /\ Len(r.heap) = Len(Now.heap)
    BY <1>2, <1>3, ObjectFacts
  <2>2. SkateState = r
    BY DEF SkateState, p
  <2> HIDE DEF r
  <2> QED
    BY <1>2, <2>1, <2>2, NowFacts
<1>6. <<Skate>> \in Seq(Callback(Len(SkateState.heap)))
  BY DEF Callback
<1>7. Len(heap) \in Nat
  BY <1>2
<1> QED
  BY <1>1, <1>4, <1>5, <1>6, <1>7 DEF Handled
PassPuck(pos) == Puck(pos, "Pass", period, FALSE)

(* A user in track mode has one of the periods selected. *)
LEMMA TrackPeriod ==
  ASSUME PageTypes, Click
  PROVE  period \in Periods /\ PeriodType
BY DEF PageTypes, Click, PeriodType

LEMMA PassHandled ==
  ASSUME PageTypes, NEW pos \in Positions, CanvasPass(pos)
  PROVE  /\ PassPuck(pos) \in PuckModel
         /\ Handled(Push(Now, PassPuck(pos)), <<Save(Len(heap) + 1)>>)
<1> DEFINE st == Push(Now, PassPuck(pos))
<1>1. PassPuck(pos) \in PuckModel
  BY TrackPeriod, PuckType DEF CanvasPass, PassPuck, ShotTypes, Continuing
<1>2. Handle(st, <<Save(Len(heap) + 1)>>)
  BY DEF CanvasPass, PassPuck
<1>3. StateType(Now) /\ Now.asked = asked /\ Now.heap = heap /\ Now.nodes = nodes
      /\ heap \in Seq(Objects) /\ Len(heap) \in Nat
  BY NowFacts DEF PageTypes, StateType
<1>4. PassPuck(pos) \in Objects
  BY <1>1, PuckSettable
<1>5. StateType(st) /\ st.asked = asked /\ st.nodes = nodes /\ st.heap = Append(heap, PassPuck(pos))
  BY <1>3, <1>4, PushFacts
<1> HIDE DEF st
<1>6. Len(st.heap) = Len(heap) + 1
  BY <1>3, <1>4, <1>5, AppendProperties
<1>7. Save(Len(heap) + 1) \in Callback(Len(st.heap))
  BY <1>3, <1>6 DEF Callback
<1> QED
  BY <1>1, <1>2, <1>3, <1>5, <1>6, <1>7 DEF Handled, st

OutcomeState(type) ==
    [Now EXCEPT !.heap[LastObject] =
         [heap[LastObject] EXCEPT !.shotType = type, !.newSequenceBool = TRUE]]

LEMMA OutcomeHandled ==
  ASSUME PageTypes, NEW type \in Outcomes, OutcomeButton(type)
  PROVE  /\ currentPucks # <<>>
         /\ Handled(OutcomeState(type), <<Outcome(type)>>)
<1> DEFINE p == [heap[LastObject] EXCEPT !.shotType = type, !.newSequenceBool = TRUE]
<1>1. /\ currentPucks # <<>>
      /\ Handle([Now EXCEPT !.heap[LastObject] = [@ EXCEPT !.shotType = type,
                                                           !.newSequenceBool = TRUE]],
                <<Outcome(type)>>)
  BY DEF OutcomeButton, LastObject
<1>2. /\ LastObject \in 1 .. Len(heap) /\ heap[LastObject] \in Objects
      /\ heap \in Seq(Objects) /\ StateType(Now) /\ Now.heap = heap
  BY <1>1, LastObjectFacts, NowFacts DEF PageTypes, StateType
<1>3. p \in Objects
  BY <1>2 DEF Objects, ShotTypes
<1>4. [Now EXCEPT !.heap[LastObject] = [@ EXCEPT !.shotType = type, !.newSequenceBool = TRUE]]
          = OutcomeState(type)
  BY <1>2 DEF OutcomeState, Now
<1> HIDE DEF p
<1>5. /\ StateType(OutcomeState(type)) /\ OutcomeState(type).asked = asked
      /\ OutcomeState(type).nodes = nodes
      /\ Len(OutcomeState(type).heap) = Len(heap)
  <2> DEFINE r == [Now EXCEPT !.heap[LastObject] = p]
  <2>1. /\ StateType(r) /\ r.asked = Now.asked /\ r.nodes = Now.nodes
        /\ Len(r.heap) = Len(Now.heap)
    BY <1>2, <1>3, ObjectFacts
  <2>2. OutcomeState(type) = r
    BY DEF OutcomeState, p
  <2> HIDE DEF r
  <2> QED
    BY <1>2, <2>1, <2>2, NowFacts
<1>6. <<Outcome(type)>> \in Seq(Callback(Len(OutcomeState(type).heap)))
  BY DEF Callback
<1>7. Len(OutcomeState(type).heap) >= Len(heap)
  BY <1>2, <1>5
<1>8. Handle(OutcomeState(type), <<Outcome(type)>>)
  BY <1>1, <1>4
<1> QED
  BY <1>1, <1>5, <1>6, <1>7, <1>8 DEF Handled

(* Before the rebound the list lacks its last object. *)
SameShot == [heap[LastObject] EXCEPT !.shotType = "Same Sequence"]
SameState ==
    [[Now EXCEPT !.heap[LastObject] = SameShot] EXCEPT !.list = Front(currentPucks)]

LEMMA SameHandled ==
  ASSUME PageTypes, SameSequence
  PROVE  /\ currentPucks # <<>>
         /\ LastObject \in 1 .. Len(SameState.heap)
         /\ SameShot \in Objects
         /\ SameState.heap = [heap EXCEPT ![LastObject] = SameShot]
         /\ SameState.list = Front(currentPucks)
         /\ Handled(SameState, <<Rebound(LastObject)>>)
<1>1. /\ currentPucks # <<>>
      /\ Handle([Now EXCEPT !.heap[LastObject].shotType = "Same Sequence", !.list = Front(@)],
                <<Rebound(LastObject)>>)
  <2>1. Len(currentPucks) \in 1 .. MaxPucks - 1
    BY DEF SameSequence
  <2>2. currentPucks # <<>>
    <3>1. currentPucks = <<>> => Len(currentPucks) = 0
      OBVIOUS
    <3> QED
      BY <2>1, <3>1
  <2> QED
    BY <2>2 DEF SameSequence, LastObject
<1>2. /\ LastObject \in 1 .. Len(heap) /\ heap[LastObject] \in Objects
      /\ heap \in Seq(Objects) /\ StateType(Now) /\ Now.heap = heap /\ Now.list = currentPucks
      /\ currentPucks \in Seq(1 .. Len(heap))
  BY <1>1, LastObjectFacts, NowFacts DEF PageTypes, StateType
<1>3. SameShot \in Objects
  BY <1>2 DEF Objects, ShotTypes, Continuing, SameShot
<1>4. [Now EXCEPT !.heap[LastObject].shotType = "Same Sequence", !.list = Front(@)] = SameState
  BY <1>2 DEF SameState, SameShot, Now
<1> DEFINE s1 == [Now EXCEPT !.heap[LastObject] = SameShot]
<1>5. /\ StateType(s1) /\ s1.asked = asked /\ s1.nodes = nodes
      /\ Len(s1.heap) = Len(heap)
      /\ s1.heap = [heap EXCEPT ![LastObject] = SameShot]
  BY <1>2, <1>3, ObjectFacts, NowFacts
<1>6. Front(currentPucks) \in Seq(1 .. Len(s1.heap))
  BY <1>1, <1>2, <1>5, FrontFacts
<1> HIDE DEF s1
<1>7. /\ StateType(SameState) /\ SameState.asked = asked /\ SameState.nodes = nodes
      /\ SameState.heap = s1.heap /\ SameState.list = Front(currentPucks)
  BY <1>5, <1>6, ListFacts DEF SameState, s1
<1>8. Len(SameState.heap) = Len(heap) /\ Len(heap) \in Nat
  BY <1>2, <1>5, <1>7
<1>9. Rebound(LastObject) \in Callback(Len(SameState.heap))
  BY <1>2, <1>8 DEF Callback
<1>10. <<Rebound(LastObject)>> \in Seq(Callback(Len(SameState.heap)))
  BY <1>9
<1>11. Handled(SameState, <<Rebound(LastObject)>>)
  BY <1>1, <1>4, <1>7, <1>8, <1>10 DEF Handled
<1> QED
  BY <1>1, <1>2, <1>3, <1>5, <1>7, <1>8, <1>11

LEMMA UndoHandled ==
  ASSUME PageTypes, UndoButton
  PROVE  Handled(Now, <<Undo>>)
<1>1. StateType(Now) /\ Now.heap = heap /\ Len(heap) \in Nat
  BY NowFacts, StateFacts DEF PageTypes
<1>2. <<Undo>> \in Seq(Callback(Len(Now.heap)))
  BY DEF Callback
<1> QED
  BY <1>1, <1>2, NowFacts DEF Handled, UndoButton

(* One callback for each of the last n pucks. *)
Deads(n) == [i \in 1 .. n |-> Dead]

LEMMA DeadHandled ==
  ASSUME PageTypes, DeadButton
  PROVE  \E n \in 0 .. Len(currentPucks) :
            /\ \A i \in Len(currentPucks) - n + 1 .. Len(currentPucks) :
                  Listed(i).newSequenceBool = FALSE
            /\ Handled(Now, Deads(n))
<1>1. StateType(Now) /\ Now.heap = heap /\ Len(heap) \in Nat /\ Len(currentPucks) \in Nat
  BY NowFacts, StateFacts DEF PageTypes
<1>2. PICK n \in 0 .. Len(currentPucks) :
        /\ \A i \in Len(currentPucks) - n + 1 .. Len(currentPucks) :
              Listed(i).newSequenceBool = FALSE
        /\ Handle(Now, [i \in 1 .. n |-> Dead])
  BY DEF DeadButton
<1>3. [i \in 1 .. n |-> Dead] \in Seq(Callback(Len(Now.heap)))
  <2>1. Dead \in Callback(Len(Now.heap)) /\ n \in Nat
    BY <1>1 DEF Callback
  <2> QED
    BY <2>1, IsASeq
<1>4. Handled(Now, Deads(n))
  <2>1. Handle(Now, Deads(n)) /\ Deads(n) \in Seq(Callback(Len(Now.heap)))
    BY <1>2, <1>3 DEF Deads
  <2> QED
    BY <1>1, <2>1, NowFacts DEF Handled
<1> QED
  BY <1>2, <1>4

(* A handler that worked on st ends in the state after its callbacks. *)
LEMMA HandledKeeps ==
  ASSUME PageTypes, PeriodType, NEW st, NEW cs, Handled(st, cs)
  PROVE  /\ StateType(Now')
         /\ Keeps(st, Now')
         /\ Now' = IF signedIn THEN RunAll(st, cs) ELSE st
         /\ Len(heap) \in Nat /\ Len(heap') \in Nat
         /\ Len(heap) <= Len(st.heap) /\ Len(st.heap) <= Len(heap')
         /\ callbacks' = callbacks \o cs
         /\ callbacks' \in Seq(Callback(Len(heap')))
         /\ UNCHANGED <<signedIn, signIns, loading, known>>
<1> DEFINE r == IF signedIn THEN RunAll(st, cs) ELSE st
<1>1. /\ StateType(st) /\ Len(st.heap) >= Len(heap) /\ cs \in Seq(Callback(Len(st.heap)))
      /\ callbacks' = callbacks \o cs /\ Becomes(r)
      /\ UNCHANGED <<signedIn, signIns, loading, known>>
  BY DEF Handled, Handle
<1>2. Keeps(st, r)
  BY <1>1, RunAllKeeps, SameKeeps
<1> HIDE DEF r
<1>3. StateType(r) /\ Len(r.heap) >= Len(st.heap)
  BY <1>2 DEF Keeps
<1>4. Now' = r /\ heap' = r.heap
  BY <1>1, <1>3, BecomesNow DEF Becomes
<1>5. Len(heap) \in Nat /\ Len(heap') \in Nat /\ Len(st.heap) \in Nat
      /\ Len(heap) <= Len(st.heap) /\ Len(st.heap) <= Len(heap')
  <2>1. Len(heap) \in Nat
    BY NowFacts, StateFacts DEF PageTypes
  <2>2. Len(st.heap) \in Nat /\ Len(r.heap) \in Nat
    BY <1>1, <1>3, StateFacts
  <2> QED
    BY <1>1, <1>3, <1>4, <2>1, <2>2
<1>6. callbacks \in Seq(Callback(Len(heap'))) /\ cs \in Seq(Callback(Len(heap')))
  <2>1. Callback(Len(heap)) \subseteq Callback(Len(heap'))
    BY <1>5, CallbackStays
  <2>2. Callback(Len(st.heap)) \subseteq Callback(Len(heap'))
    BY <1>5, CallbackStays
  <2>3. callbacks \in Seq(Callback(Len(heap)))
    BY DEF PageTypes
  <2> QED
    BY <1>1, <2>1, <2>2, <2>3, SeqMonotonic
<1>7. callbacks' \in Seq(Callback(Len(heap')))
  BY <1>1, <1>6, ConcatProperties
<1> QED
  BY <1>1, <1>2, <1>3, <1>4, <1>5, <1>7 DEF r

LEMMA HandledTypes ==
  ASSUME PageTypes, PeriodType, NEW st, NEW cs, Handled(st, cs),
         placed' \in BOOLEAN, UNCHANGED <<mode, period>>
  PROVE  PageTypes'
BY HandledKeeps DEF PageTypes

(* A step that lets the callbacks be and the list of objects. *)
LEMMA SignInKeeps ==
  ASSUME PageTypes, SignIn
  PROVE  /\ StateType(Now') /\ Keeps(Now, Now') /\ Now' = RunAll(Now, callbacks)
         /\ Len(heap) \in Nat /\ Len(heap') \in Nat /\ Len(heap) <= Len(heap')
         /\ callbacks' \in Seq(Callback(Len(heap')))
<1>1. /\ StateType(Now) /\ callbacks \in Seq(Callback(Len(Now.heap))) /\ PeriodType
      /\ Becomes(RunAll(Now, callbacks)) /\ callbacks' = callbacks
  BY NowFacts DEF PageTypes, PeriodType, SignIn
<1>2. Keeps(Now, RunAll(Now, callbacks))
  BY <1>1, RunAllKeeps
<1>3. Now' = RunAll(Now, callbacks)
  BY <1>1, <1>2, BecomesNow DEF Keeps
<1>4. StateType(Now') /\ Len(heap') >= Len(heap)
  BY <1>2, <1>3, NowFacts DEF Keeps
<1>5. Len(heap) \in Nat /\ Len(heap') \in Nat
  BY <1>1, <1>4, NowFacts, StateFacts
<1>6. callbacks \in Seq(Callback(Len(heap')))
  <2>1. Callback(Len(heap)) \subseteq Callback(Len(heap'))
    BY <1>4, <1>5, CallbackStays
  <2>2. callbacks \in Seq(Callback(Len(heap)))
    BY DEF PageTypes
  <2> QED
    BY <2>1, <2>2, SeqMonotonic
<1> QED
  BY <1>1, <1>2, <1>3, <1>4, <1>5, <1>6

(* The objects the answer of the server makes, and the list with them. *)
Answer ==
    LET d == nodes["game"]
    IN  [i \in 1 .. Cardinality(DOMAIN d) |-> PuckRead(d[KeyAt(DOMAIN d, i - 1)])]

LEMMA PucksArriveFacts ==
  ASSUME PageTypes, PucksArrive
  PROVE  LET n == Cardinality(DOMAIN nodes["game"])
         IN  /\ n \in Nat
             /\ Answer \in Seq(Objects) /\ Len(Answer) = n
             /\ heap' = heap \o Answer
             /\ Len(heap) \in Nat /\ Len(heap') = Len(heap) + n
             /\ Len(currentPucks') = Len(currentPucks) + n
             /\ Len(currentPucks) \in Nat
             /\ \A i \in 1 .. n : currentPucks'[Len(currentPucks) + i] = Len(heap) + i
             /\ StateType(Now')
             /\ callbacks' \in Seq(Callback(Len(heap')))
<1> DEFINE d == nodes["game"]
           D == DOMAIN d
           n == Cardinality(D)
           m == Len(heap)
           q == [i \in 1 .. n |-> m + i]
<1>1. /\ heap \in Seq(Objects) /\ currentPucks \in Seq(1 .. m) /\ m \in Nat
      /\ NodeType(d) /\ Len(currentPucks) \in Nat
  BY NowFacts, StateFacts DEF PageTypes, StateType
<1>2. /\ heap' = heap \o Answer /\ currentPucks' = currentPucks \o q
      /\ asked' = asked /\ nodes' = nodes /\ callbacks' = callbacks
  BY DEF PucksArrive, session, Answer
<1>3. PICK b \in Nat : D \subseteq -1 .. b - 1
  BY <1>1 DEF NodeType
<1>4. IsFiniteSet(D) /\ n \in Nat
  <2>1. IsFiniteSet(-1 .. b - 1)
    BY FS_Interval
  <2> QED
    BY <1>3, <2>1, FS_Subset, FS_CardinalityType
<1>5. Answer \in Seq(Objects) /\ Len(Answer) = n
  <2>1. ASSUME NEW i \in 1 .. n PROVE PuckRead(d[KeyAt(D, i - 1)]) \in Objects
    <3>1. i - 1 \in Nat /\ i - 1 < n
      BY <1>4
    <3>2. KeyAt(D, i - 1) \in D
      BY <1>3, <1>4, <3>1, KeyAtFrom
    <3> QED
      BY <1>1, <3>2, ReadType DEF NodeType
  <2> HIDE DEF n
  <2>2. [i \in 1 .. n |-> PuckRead(d[KeyAt(D, i - 1)])] \in Seq(Objects)
    BY <1>4, <2>1, IsASeq
  <2>3. Len([i \in 1 .. n |-> PuckRead(d[KeyAt(D, i - 1)])]) = n
    BY <1>4
  <2> QED
    BY <2>2, <2>3 DEF Answer, n
<1> HIDE DEF n
<1>6. q \in Seq(1 .. m + n) /\ Len(q) = n /\ \A i \in 1 .. n : q[i] = m + i
  BY <1>1, <1>4
<1>7. currentPucks \in Seq(1 .. m + n)
  BY <1>1, <1>4, ListGrows
<1> HIDE DEF q
<1>8. /\ heap' \in Seq(Objects) /\ Len(heap') = m + n
      /\ currentPucks' \in Seq(1 .. m + n)
      /\ Len(currentPucks') = Len(currentPucks) + n
      /\ \A i \in 1 .. n : currentPucks'[Len(currentPucks) + i] = m + i
  <2>1. heap' \in Seq(Objects) /\ Len(heap') = m + n
    BY <1>1, <1>2, <1>5, ConcatProperties
  <2>2. /\ currentPucks' \in Seq(1 .. m + n)
        /\ Len(currentPucks') = Len(currentPucks) + n
        /\ \A i \in 1 .. Len(currentPucks) + n : currentPucks'[i] =
              IF i <= Len(currentPucks) THEN currentPucks[i] ELSE q[i - Len(currentPucks)]
    BY <1>2, <1>6, <1>7, ConcatProperties
  <2>3. ASSUME NEW i \in 1 .. n PROVE currentPucks'[Len(currentPucks) + i] = m + i
    <3>1. /\ Len(currentPucks) + i \in 1 .. Len(currentPucks) + n
          /\ ~ (Len(currentPucks) + i <= Len(currentPucks))
          /\ (Len(currentPucks) + i) - Len(currentPucks) = i
      BY <1>1, <1>4
    <3> QED
      BY <1>6, <2>2, <3>1
  <2> QED
    BY <2>1, <2>2, <2>3
<1>9. StateType(Now')
  <2>1. Now' = [asked |-> asked, list |-> currentPucks', heap |-> heap', nodes |-> nodes]
    BY <1>2 DEF Now
  <2>2. StateType(Now) /\ Now.nodes = nodes /\ Now.asked = asked
    BY NowFacts DEF PageTypes
  <2> QED
    BY <1>8, <2>1, <2>2 DEF StateType
<1>10. callbacks' \in Seq(Callback(Len(heap')))
  <2>1. Callback(m) \subseteq Callback(m + n)
    BY <1>1, <1>4, CallbackStays
  <2>2. callbacks \in Seq(Callback(m))
    BY DEF PageTypes
  <2> QED
    BY <1>2, <1>8, <2>1, <2>2, SeqMonotonic
<1> QED
  BY <1>1, <1>2, <1>4, <1>5, <1>8, <1>9, <1>10 DEF n

(* A game as it was saved: pucks under the keys 0, 1, ... *)
Saved(g) ==
    \E n \in 0 .. MaxPucks : DOMAIN g = 0 .. n - 1 /\ g \in [0 .. n - 1 -> PuckModel]

LEMMA SavedType ==
  ASSUME NEW g, Saved(g)
  PROVE  NodeType(g)
<1>1. PICK n \in Nat : DOMAIN g = 0 .. n - 1 /\ g \in [0 .. n - 1 -> PuckModel]
  BY PucksAssumption DEF Saved
<1>2. DOMAIN g \subseteq -1 .. n - 1
  BY <1>1
<1>3. g = [k \in DOMAIN g |-> g[k]]
  BY <1>1
<1>4. \A k \in DOMAIN g : g[k] \in Kids
  BY <1>1, PuckSettable
<1> QED
  BY <1>2, <1>3, <1>4 DEF NodeType

LEMMA EmptyNodeType == NodeType(<<>>)
<1>1. DOMAIN <<>> = {} /\ <<>> = [k \in DOMAIN <<>> |-> <<>>[k]]
  OBVIOUS
<1>2. 0 \in Nat /\ {} \subseteq -1 .. 0 - 1
  OBVIOUS
<1> QED
  BY <1>1, <1>2 DEF NodeType

LEMMA TypesInit ==
  ASSUME Init
  PROVE  PageTypes /\ Saved(nodes["game"]) /\ nodes["undefined"] = <<>>
<1>1. PICK s \in SavedGames :
        nodes = [game |-> [k \in 0 .. Len(s) - 1 |-> s[k + 1]], undefined |-> <<>>]
  BY DEF Init
<1>2. s \in Seq(PuckModel) /\ Len(s) \in 0 .. MaxPucks
  BY GameTrackerAssumption, PucksAssumption DEF PuckLists
<1>3. Saved(nodes["game"]) /\ nodes["undefined"] = <<>>
  <2> DEFINE g == [k \in 0 .. Len(s) - 1 |-> s[k + 1]]
  <2>1. g \in [0 .. Len(s) - 1 -> PuckModel]
    BY <1>2
  <2>2. nodes["game"] = g /\ nodes["undefined"] = <<>>
    BY <1>1
  <2> HIDE DEF g
  <2> QED
    BY <1>2, <2>1, <2>2 DEF Saved
<1>4. NodeType(nodes["game"]) /\ NodeType(nodes["undefined"])
  BY <1>3, SavedType, EmptyNodeType
<1>5. nodes = [game |-> nodes["game"], undefined |-> nodes["undefined"]]
  BY <1>1
<1>6. heap = <<>> /\ currentPucks = <<>> /\ asked = 0
  BY DEF Init
<1>7. heap \in Seq(Objects) /\ currentPucks \in Seq(1 .. Len(heap))
  BY <1>6
<1>8. StateType(Now)
  BY <1>4, <1>5, <1>6, <1>7 DEF StateType, Now
<1>9. callbacks \in Seq(Callback(Len(heap)))
  BY DEF Init, Callback
<1>10. signIns \in 0 .. MaxSignIns /\ loading \in Nat
  BY GameTrackerAssumption DEF Init
<1>11. mode = "track" /\ period \in Periods /\ signedIn = FALSE /\ known = FALSE /\ placed = FALSE
  BY GameTrackerAssumption DEF Init
<1> QED
  BY <1>3, <1>8, <1>9, <1>10, <1>11 DEF PageTypes

LEMMA TypesNext ==
  ASSUME PageTypes, [Next]_vars
  PROVE  PageTypes'
<1>1. CASE UNCHANGED vars
  BY <1>1 DEF PageTypes, Now, StateType, NodeType, vars, session, requests, page
<1>2. ASSUME NEW pos \in Positions, CanvasSkate(pos)
      PROVE  PageTypes'
  <2>1. Handled(SkateState, <<Skate>>)
    BY <1>2, SkateHandled
  <2>2. PeriodType /\ placed' \in BOOLEAN /\ UNCHANGED <<mode, period>>
    BY <1>2, TrackPeriod DEF CanvasSkate, Click
  <2> QED
    BY <2>1, <2>2, HandledTypes
<1>3. ASSUME NEW pos \in Positions, CanvasPass(pos)
      PROVE  PageTypes'
  <2>1. Handled(Push(Now, PassPuck(pos)), <<Save(Len(heap) + 1)>>)
    BY <1>3, PassHandled
  <2>2. PeriodType /\ placed' \in BOOLEAN /\ UNCHANGED <<mode, period>>
    BY <1>3, TrackPeriod DEF CanvasPass, Click
  <2> QED
    BY <2>1, <2>2, HandledTypes
<1>4. ASSUME NEW type \in Outcomes, OutcomeButton(type)
      PROVE  PageTypes'
  <2>1. Handled(OutcomeState(type), <<Outcome(type)>>)
    BY <1>4, OutcomeHandled
  <2>2. PeriodType /\ placed' \in BOOLEAN /\ UNCHANGED <<mode, period>>
    BY <1>4, TrackPeriod DEF OutcomeButton, Click, PageTypes
  <2> QED
    BY <2>1, <2>2, HandledTypes
<1>5. CASE SameSequence
  <2>1. Handled(SameState, <<Rebound(LastObject)>>)
    BY <1>5, SameHandled
  <2>2. PeriodType /\ placed' \in BOOLEAN /\ UNCHANGED <<mode, period>>
    BY <1>5, TrackPeriod DEF SameSequence, Click, PageTypes
  <2> QED
    BY <2>1, <2>2, HandledTypes
<1>6. CASE UndoButton
  <2>1. Handled(Now, <<Undo>>)
    BY <1>6, UndoHandled
  <2>2. PeriodType /\ placed' \in BOOLEAN /\ UNCHANGED <<mode, period>>
    BY <1>6, TrackPeriod DEF UndoButton, Click, PageTypes
  <2> QED
    BY <2>1, <2>2, HandledTypes
<1>7. CASE DeadButton
  <2>1. PICK n : Handled(Now, Deads(n))
    BY <1>7, DeadHandled
  <2>2. PeriodType /\ placed' \in BOOLEAN /\ UNCHANGED <<mode, period>>
    BY <1>7, TrackPeriod DEF DeadButton, Click, PageTypes
  <2> QED
    BY <2>1, <2>2, HandledTypes
<1>8. CASE ViewShots
  BY <1>8 DEF ViewShots, PageTypes, Now, StateType, NodeType, session, requests
<1>9. CASE TrackShots
  BY <1>9, GameTrackerAssumption DEF TrackShots, PageTypes, Now, StateType, NodeType,
                                     session, requests
<1>10. ASSUME NEW p \in Periods \cup {All}, SelectPeriod(p)
       PROVE  PageTypes'
  BY <1>10 DEF SelectPeriod, PageTypes, Now, StateType, NodeType, session, requests
<1>11. CASE SignIn
  <2>1. StateType(Now') /\ callbacks' \in Seq(Callback(Len(heap')))
    BY <1>11, SignInKeeps
  <2>2. signIns' \in 0 .. MaxSignIns
    BY <1>11, GameTrackerAssumption DEF SignIn, PageTypes
  <2>3. signedIn' = TRUE /\ UNCHANGED <<loading, known, placed, mode, period>>
    BY <1>11 DEF SignIn, page
  <2> QED
    BY <2>1, <2>2, <2>3 DEF PageTypes
<1>12. CASE SignOut
  BY <1>12 DEF SignOut, PageTypes, Now, StateType, NodeType, store, page
<1>13. CASE GameArrives
  <2>1. StateType(Now)'
    <3>1. Now' = [asked |-> asked - 1, list |-> currentPucks, heap |-> heap, nodes |-> nodes]
          /\ asked - 1 \in Nat
      BY <1>13, NowFacts DEF GameArrives, Now, PageTypes, StateType
    <3>2. StateType(Now)
      BY DEF PageTypes
    <3> QED
      BY <3>1, <3>2, NowFacts DEF StateType
  <2> QED
    BY <1>13, <2>1 DEF GameArrives, PageTypes, session, page
<1>14. CASE PucksArrive
  <2>1. StateType(Now') /\ callbacks' \in Seq(Callback(Len(heap')))
    BY <1>14, PucksArriveFacts
  <2>2. loading' \in Nat
    BY <1>14 DEF PucksArrive, PageTypes
  <2>3. UNCHANGED <<signedIn, signIns, known, placed, mode, period>>
    BY <1>14 DEF PucksArrive, session, page
  <2> QED
    BY <2>1, <2>2, <2>3 DEF PageTypes
<1>15. CASE RequestFails
  <2>1. StateType(Now)'
    <3>1. Now' = [asked |-> asked', list |-> currentPucks, heap |-> heap, nodes |-> nodes]
          /\ asked' \in Nat
      BY <1>15, NowFacts DEF RequestFails, Now, PageTypes, StateType
    <3>2. StateType(Now)
      BY DEF PageTypes
    <3> QED
      BY <3>1, <3>2, NowFacts DEF StateType
  <2> QED
    BY <1>15, <2>1 DEF RequestFails, PageTypes, session, page
<1> QED
  BY <1>1, <1>2, <1>3, <1>4, <1>5, <1>6, <1>7, <1>8, <1>9, <1>10, <1>11, <1>12, <1>13,
     <1>14, <1>15 DEF Next, UserStep

LEMMA TypesAlways == Spec => []PageTypes
<1>1. PageTypes /\ [Next]_vars => PageTypes'
  BY TypesNext
<1>2. Init => PageTypes
  BY TypesInit
<1> QED
  BY <1>1, <1>2, PTL DEF Spec

(* However the page is used, signed out and signed in again: the list has  *)
(* only objects that were made, the callbacks only write pucks that were,  *)
(* and a key is never less than -1.                                        *)
THEOREM PageTypeCorrect == Spec => []TypeOK
<1>1. PageTypes => TypeOK
  <2> SUFFICES ASSUME PageTypes PROVE TypeOK
    OBVIOUS
  <2>1. /\ asked \in Nat /\ heap \in Seq(Objects) /\ currentPucks \in Seq(1 .. Len(heap))
        /\ nodes = [game |-> nodes["game"], undefined |-> nodes["undefined"]]
        /\ NodeType(nodes["game"]) /\ NodeType(nodes["undefined"])
    BY NowFacts DEF PageTypes, StateType
  <2>2. DOMAIN heap = 1 .. Len(heap) /\ DOMAIN nodes = {"game", "undefined"}
    BY <2>1
  <2>3. ASSUME NEW g, NodeType(g), NEW k \in DOMAIN g
        PROVE  k \in Int /\ k >= -1 /\ PuckRead(g[k]) \in Objects
    BY <2>3, ReadType DEF NodeType
  <2>4. \A n \in DOMAIN nodes : \A k \in DOMAIN nodes[n] :
           k \in Int /\ k >= -1 /\ PuckRead(nodes[n][k]) \in Objects
    BY <2>1, <2>2, <2>3
  <2>5. ASSUME NEW i \in DOMAIN callbacks, callbacks[i].does \in {"save", "rebound"}
        PROVE  callbacks[i].obj \in DOMAIN heap
    <3>1. callbacks[i] \in Callback(Len(heap))
      BY DEF PageTypes
    <3> QED
      BY <2>2, <2>5, <3>1 DEF Callback, Load, Skate, Undo, Dead, Outcome, Save, Rebound
  <2> QED
    BY <2>1, <2>2, <2>4, <2>5 DEF PageTypes, TypeOK
<1> QED
  BY <1>1, TypesAlways, PTL
----------------------------------------------------------------------------
(* A user who waits for the page to load. *)

Waits ==
    /\ PageTypes
    /\ ~known => callbacks = <<Load>>
    /\ nodes["undefined"] = <<>>
    /\ Leads(Now) \/ (callbacks = <<Load>> /\ Saved(nodes["game"]))
    /\ signedIn => asked > 0 \/ loading > 0 \/ Leads(Now)

(* The game's pucks have arrived before the user clicks. *)
LEMMA ClickWhenLoaded ==
  ASSUME Patient, Waits, Click
  PROVE  signedIn /\ known /\ Leads(Now)
<1>1. signedIn /\ known /\ asked = 0 /\ loading = 0
  BY DEF Click, Ready
<1> QED
  BY <1>1 DEF Waits

LEMMA WaitsInit ==
  ASSUME Init
  PROVE  Waits
<1>1. PageTypes /\ Saved(nodes["game"]) /\ nodes["undefined"] = <<>>
  BY TypesInit
<1>2. callbacks = <<Load>> /\ ~signedIn
  BY DEF Init
<1> QED
  BY <1>1, <1>2 DEF Waits

(* A click keeps the invariant if its callbacks leave the list ahead.      *)
LEMMA ClickWaits ==
  ASSUME Patient, Waits, Click, NEW st, NEW cs, Handled(st, cs),
         placed' \in BOOLEAN, UNCHANGED <<mode, period>>,
         Leads(st) \/ Leads(RunAll(st, cs))
  PROVE  Waits'
<1>1. PageTypes /\ PeriodType /\ signedIn /\ known /\ nodes["undefined"] = <<>>
  BY ClickWhenLoaded, TrackPeriod DEF Waits
<1>2. PageTypes'
  BY <1>1, HandledTypes
<1>3. /\ Keeps(st, Now') /\ Now' = RunAll(st, cs) /\ known' = known
  BY <1>1, HandledKeeps
<1>4. st.nodes = nodes
  BY DEF Handled
<1>5. Leads(Now') /\ Now'.nodes["undefined"] = <<>>
  BY <1>1, <1>3, <1>4 DEF Keeps
<1>6. nodes'["undefined"] = <<>>
  BY <1>5, NowFacts
<1> QED
  BY <1>1, <1>2, <1>3, <1>5, <1>6 DEF Waits

(* After "Same Sequence" the list is ahead again: the rebound and the shot *)
(* are its new end, and all that was written is below them.                *)
LEMMA SameLeads ==
  ASSUME PageTypes, SameSequence, known, Leads(Now)
  PROVE  Leads(RunAll(SameState, <<Rebound(LastObject)>>))
<1> DEFINE st == SameState
           o == LastObject
           n == Len(st.list)
           r == Rebounded(st, o)
           hp == Append(st.heap, Net)
           g1 == Update(st.nodes[Path], n, Net)
           g2 == Put(g1, n + 1, hp[o])
<1>1. /\ StateType(st) /\ o \in 1 .. Len(st.heap) /\ st.list = Front(currentPucks)
      /\ st.nodes = nodes /\ currentPucks # <<>>
  BY SameHandled DEF Handled
<1>2. PeriodType
  BY TrackPeriod DEF SameSequence
<1>3. /\ Len(r.list) = n + 2
      /\ r.nodes[Path] = IF Settable(hp[o]) THEN g2 ELSE g1
  BY <1>1, <1>2, ReboundedFacts
<1>4. DOMAIN g1 = DOMAIN st.nodes[Path] \cup {n} /\ DOMAIN g2 = DOMAIN g1 \cup {n + 1}
  BY DEF Update, Put, Over
<1>5. Path = "game"
  BY DEF Path
<1>6. Len(currentPucks) \in Nat \ {0} /\ n = Len(currentPucks) - 1
  <2>1. currentPucks \in Seq(1 .. Len(heap))
    BY NowFacts DEF PageTypes, StateType
  <2> QED
    BY <1>1, <2>1, FrontFacts
<1>7. RunAll(st, <<Rebound(o)>>) = r
  <2>1. Run(st, Rebound(o)) = r
    BY DEF Run, Rebound
  <2> QED
    BY <2>1, RunOne
<1>8. \A k \in DOMAIN nodes["game"] : k \in Int /\ k < Len(currentPucks)
  <2>1. \A k \in DOMAIN nodes["game"] : k \in Int
    BY NowFacts DEF PageTypes, StateType, NodeType
  <2> QED
    BY <2>1, NowFacts DEF Leads
<1> HIDE DEF r, g1, g2, hp, n
<1>9. DOMAIN r.nodes["game"] \subseteq DOMAIN nodes["game"] \cup {n, n + 1}
  BY <1>1, <1>3, <1>4, <1>5
<1>10. Leads(r)
  BY <1>3, <1>6, <1>8, <1>9 DEF Leads
<1> QED
  BY <1>7, <1>10

LEMMA LongerLeads ==
  ASSUME PageTypes, Leads(Now), NEW st, st.nodes = nodes,
         Len(st.list) \in Nat, Len(st.list) >= Len(currentPucks)
  PROVE  Leads(st)
<1>1. \A k \in DOMAIN nodes["game"] : k \in Int
  BY NowFacts DEF PageTypes, StateType, NodeType
<1>2. Len(currentPucks) \in Nat
  BY NowFacts, StateFacts DEF PageTypes
<1> QED
  BY <1>1, <1>2, NowFacts DEF Leads

LEMMA WaitsClick ==
  ASSUME Patient, Waits, Click,
         \/ \E pos \in Positions : CanvasSkate(pos) \/ CanvasPass(pos)
         \/ \E type \in Outcomes : OutcomeButton(type)
         \/ SameSequence
         \/ UndoButton
         \/ DeadButton
  PROVE  Waits'
<1>1. PageTypes /\ signedIn /\ known /\ Leads(Now) /\ UNCHANGED <<mode, period>>
      /\ StateType(Now) /\ Now.list = currentPucks /\ Len(currentPucks) \in Nat
  BY ClickWhenLoaded, NowFacts, StateFacts DEF Waits, Click, PageTypes
<1>2. ASSUME NEW pos \in Positions, CanvasSkate(pos)
      PROVE  Waits'
  <2>1. Handled(SkateState, <<Skate>>) /\ placed' \in BOOLEAN
    BY <1>1, <1>2, SkateHandled DEF CanvasSkate
  <2>2. SkateState.list = currentPucks /\ SkateState.nodes = nodes
    BY <2>1 DEF SkateState, Now, Handled
  <2>3. Leads(SkateState)
    BY <1>1, <2>2, LongerLeads
  <2> QED
    BY <1>1, <2>1, <2>3, ClickWaits
<1>3. ASSUME NEW pos \in Positions, CanvasPass(pos)
      PROVE  Waits'
  <2> DEFINE st == Push(Now, PassPuck(pos))
  <2>1. /\ Handled(st, <<Save(Len(heap) + 1)>>) /\ placed' \in BOOLEAN
        /\ PassPuck(pos) \in Objects
    BY <1>1, <1>3, PassHandled, PuckSettable DEF CanvasPass
  <2>2. st.list = Append(currentPucks, Len(heap) + 1) /\ st.nodes = nodes
        /\ StateType(st)
    BY <1>1, <2>1, PushFacts, NowFacts
  <2>3. Len(st.list) \in Nat
    BY <2>2, StateFacts
  <2>4. Len(st.list) >= Len(currentPucks)
    <3>1. currentPucks \in Seq(Nat) /\ Len(heap) + 1 \in Nat
      BY <1>1, NowFacts, StateFacts DEF StateType
    <3> QED
      BY <1>1, <2>2, <3>1, AppendProperties
  <2> HIDE DEF st
  <2>5. Leads(st)
    BY <1>1, <2>2, <2>3, <2>4, LongerLeads
  <2> QED
    BY <1>1, <2>1, <2>5, ClickWaits
<1>4. ASSUME NEW type \in Outcomes, OutcomeButton(type)
      PROVE  Waits'
  <2>1. Handled(OutcomeState(type), <<Outcome(type)>>) /\ placed' \in BOOLEAN
    BY <1>1, <1>4, OutcomeHandled DEF OutcomeButton, PageTypes
  <2>2. OutcomeState(type).list = currentPucks /\ OutcomeState(type).nodes = nodes
    BY <2>1 DEF OutcomeState, Now, Handled
  <2>3. Leads(OutcomeState(type))
    BY <1>1, <2>2, LongerLeads
  <2> QED
    BY <1>1, <2>1, <2>3, ClickWaits
<1>5. CASE SameSequence
  <2>1. Handled(SameState, <<Rebound(LastObject)>>) /\ placed' \in BOOLEAN
    BY <1>1, <1>5, SameHandled DEF SameSequence, PageTypes
  <2>2. Leads(RunAll(SameState, <<Rebound(LastObject)>>))
    BY <1>1, <1>5, SameLeads
  <2> QED
    BY <1>1, <2>1, <2>2, ClickWaits
<1>6. CASE UndoButton
  <2>1. Handled(Now, <<Undo>>) /\ placed' \in BOOLEAN
    BY <1>1, <1>6, UndoHandled DEF UndoButton, PageTypes
  <2> QED
    BY <1>1, <2>1, ClickWaits
<1>7. CASE DeadButton
  <2>1. PICK n : Handled(Now, Deads(n))
    BY <1>1, <1>7, DeadHandled
  <2>2. placed' \in BOOLEAN
    BY <1>1, <1>7 DEF DeadButton, PageTypes
  <2> QED
    BY <1>1, <2>1, <2>2, ClickWaits
<1> QED
  BY <1>2, <1>3, <1>4, <1>5, <1>6, <1>7

LEMMA WaitsNext ==
  ASSUME Patient, Waits, [Next]_vars
  PROVE  Waits'
<1>1. PageTypes'
  BY TypesNext DEF Waits
<1>2. StateType(Now) /\ Len(currentPucks) \in Nat /\ PageTypes
  BY NowFacts, StateFacts DEF Waits, PageTypes
<1>3. ASSUME UNCHANGED <<callbacks, currentPucks, nodes>>, known => known'
      PROVE  /\ Leads(Now) <=> Leads(Now)'
             /\ Waits' <=> (signedIn' => asked' > 0 \/ loading' > 0 \/ Leads(Now)')
  <2>1. Leads(Now) <=> Leads(Now)'
    BY <1>3, NowFacts DEF Leads
  <2> QED
    BY <1>1, <1>3, <2>1 DEF Waits
<1>4. CASE UNCHANGED vars
  BY <1>3, <1>4 DEF vars, session, requests, Waits
<1>5. CASE \/ \E pos \in Positions : CanvasSkate(pos) \/ CanvasPass(pos)
           \/ \E type \in Outcomes : OutcomeButton(type)
           \/ SameSequence
           \/ UndoButton
           \/ DeadButton
  <2>1. Click
    BY <1>5 DEF CanvasSkate, CanvasPass, OutcomeButton, SameSequence, UndoButton, DeadButton
  <2> QED
    BY <1>5, <2>1, WaitsClick
<1>6. CASE ViewShots \/ TrackShots \/ \E p \in Periods \cup {All} : SelectPeriod(p)
  <2>1. UNCHANGED <<session, requests, currentPucks, nodes>>
    BY <1>6 DEF ViewShots, TrackShots, SelectPeriod
  <2> QED
    BY <1>3, <2>1 DEF session, requests, Waits
<1>7. CASE SignIn
  <2>1. Keeps(Now, Now') /\ Now' = RunAll(Now, callbacks)
    BY <1>2, <1>7, SignInKeeps
  <2>2. callbacks' = callbacks /\ known' = known /\ loading' = loading
    BY <1>7 DEF SignIn
  <2>3. CASE callbacks = <<Load>>
    <3>1. Now' = Run(Now, Load)
      BY <2>1, <2>3, RunOne
    <3>2. asked' = asked + 1 /\ currentPucks' = currentPucks /\ nodes' = nodes
      BY <1>2, <3>1, LoadFacts, NowFacts
    <3>3. asked \in Nat
      BY <1>2, NowFacts DEF StateType
    <3> QED
      BY <1>3, <2>2, <3>2, <3>3
  <2>4. CASE callbacks # <<Load>>
    <3>1. known /\ Leads(Now) /\ nodes["undefined"] = <<>>
      BY <2>4 DEF Waits
    <3>2. Leads(Now') /\ nodes'["undefined"] = <<>>
      BY <2>1, <3>1, NowFacts DEF Keeps
    <3> QED
      BY <1>1, <2>2, <3>1, <3>2 DEF Waits
  <2> QED
    BY <2>3, <2>4
<1>8. CASE SignOut
  BY <1>3, <1>8 DEF SignOut, store
<1>9. CASE GameArrives
  <2>1. loading' > 0 /\ UNCHANGED <<callbacks, currentPucks, nodes>> /\ known'
    BY <1>2, <1>9 DEF GameArrives, session, PageTypes
  <2> QED
    BY <1>3, <2>1
<1>10. CASE PucksArrive
  <2> DEFINE n == Cardinality(DOMAIN nodes["game"])
  <2>1. n \in Nat /\ Len(currentPucks') = Len(currentPucks) + n
    BY <1>2, <1>10, PucksArriveFacts
  <2>2. nodes' = nodes /\ callbacks' = callbacks /\ known' = known
    BY <1>10 DEF PucksArrive, session
  <2>3. Leads(Now')
    <3>1. CASE Leads(Now)
      <4>1. \A k \in DOMAIN nodes["game"] : k \in Int
        BY <1>2, NowFacts DEF StateType, NodeType
      <4> QED
        BY <1>2, <2>1, <2>2, <3>1, <4>1, NowFacts DEF Leads
    <3>2. CASE Saved(nodes["game"])
      <4>1. PICK m \in Nat : DOMAIN nodes["game"] = 0 .. m - 1
        BY <3>2, PucksAssumption DEF Saved
      <4>2. n = m
        BY <4>1, FS_Interval
      <4> HIDE DEF n
      <4> QED
        BY <1>2, <2>1, <2>2, <4>1, <4>2, NowFacts DEF Leads
    <3> QED
      BY <3>1, <3>2 DEF Waits
  <2>4. nodes'["undefined"] = <<>>
    BY <2>2 DEF Waits
  <2> QED
    BY <1>1, <2>2, <2>3, <2>4 DEF Waits
<1>11. CASE RequestFails
  BY <1>3, <1>11 DEF RequestFails, session
<1> QED
  BY <1>4, <1>5, <1>6, <1>7, <1>8, <1>9, <1>10, <1>11 DEF Next, UserStep

LEMMA WaitsAlways == Patient /\ Spec => []Waits
<1> SUFFICES ASSUME Patient PROVE Spec => []Waits
  OBVIOUS
<1>1. Init => Waits
  BY WaitsInit
<1>2. Waits /\ [Next]_vars => Waits'
  BY WaitsNext
<1> QED
  BY <1>1, <1>2, PTL DEF Spec

(* However often the user signs out and in, and whichever requests fail:   *)
(* nothing is written outside the game.                                    *)
THEOREM NothingIsStray == Patient /\ Spec => []NothingStray
<1>1. Waits => NothingStray
  BY DEF Waits, NothingStray
<1> QED
  BY <1>1, WaitsAlways, PTL

(* The puck of a click gets a key that is free, although the list may hold *)
(* the game several times and the callbacks of older clicks, of undo and   *)
(* of dead sequences run again at every sign-in.                           *)
THEOREM ClicksAddPucks == Patient /\ Spec => ClickOverwritesNothing
<1> SUFFICES ASSUME Patient PROVE Spec => ClickOverwritesNothing
  OBVIOUS
<1>1. ASSUME Waits, NEW pos \in Positions, CanvasPass(pos)
      PROVE  \A k \in DOMAIN nodes["game"] : nodes'["game"][k] = nodes["game"][k]
  <2> DEFINE p == PassPuck(pos)
             o == Len(heap) + 1
             st == Push(Now, p)
             g == Put(nodes["game"], Len(currentPucks), p)
  <2>1. PageTypes /\ signedIn /\ known /\ Leads(Now) /\ PeriodType /\ StateType(Now)
    BY <1>1, ClickWhenLoaded, TrackPeriod DEF Waits, CanvasPass, PageTypes
  <2>2. p \in PuckModel /\ Handled(st, <<Save(o)>>)
    BY <1>1, <2>1, PassHandled
  <2>3. Now' = Run(st, Save(o)) /\ StateType(st)
    BY <2>1, <2>2, HandledKeeps, RunOne DEF Handled
  <2>4. /\ st.heap = Append(heap, p) /\ st.list = Append(currentPucks, o) /\ st.nodes = nodes
        /\ p \in Objects /\ Settable(p)
    BY <2>1, <2>2, PuckSettable, PushFacts, NowFacts
  <2>5. st.heap[o] = p /\ LastKey(st) = Len(currentPucks) /\ Path = "game"
    <3>1. heap \in Seq(Objects) /\ currentPucks \in Seq(1 .. Len(heap)) /\ Len(heap) \in Nat
      BY <2>1, NowFacts DEF StateType
    <3>2. currentPucks \in Seq(Nat) /\ o \in Nat /\ Len(currentPucks) \in Nat
      BY <3>1
    <3>3. st.heap[o] = p
      BY <2>4, <3>1, AppendProperties
    <3>4. Len(st.list) = Len(currentPucks) + 1
      BY <2>4, <3>2, AppendProperties
    <3> QED
      BY <2>1, <3>2, <3>3, <3>4 DEF LastKey, Path
  <2> HIDE DEF st, p
  <2>6. Now' = Store(st, g)
    <3>1. Run(st, Save(o)) = SetLast(st, st.heap[o])
      BY DEF Run, Save
    <3>2. LET h == Put(st.nodes[Path], LastKey(st), p)
          IN  NodeType(h) /\ SetLast(st, p) = Store(st, h)
      BY <2>3, <2>4, SetLastFacts
    <3> QED
      BY <2>3, <2>4, <2>5, <3>1, <3>2
  <2>7. nodes'["game"] = g
    <3>1. NodeType(g)
      <4>1. Len(currentPucks) \in Int /\ Len(currentPucks) >= -1 /\ NodeType(nodes["game"])
        BY <2>1, NowFacts, StateFacts DEF StateType
      <4>2. p \in Kids
        BY <2>2, PuckSettable
      <4> QED
        BY <4>1, <4>2, PutType
    <3> HIDE DEF g
    <3> QED
      BY <2>3, <2>5, <2>6, <3>1, StoreFacts, NowFacts
  <2>8. \A k \in DOMAIN nodes["game"] : k # Len(currentPucks)
    <3>1. \A k \in DOMAIN nodes["game"] : k < Len(currentPucks) /\ k \in Int
      BY <2>1, NowFacts DEF Leads, StateType, NodeType
    <3>2. Len(currentPucks) \in Nat
      BY <2>1, NowFacts, StateFacts
    <3> QED
      BY <3>1, <3>2
  <2> QED
    BY <2>7, <2>8 DEF Put, Over
<1>2. Waits => [\A pos \in Positions : CanvasPass(pos) =>
            \A k \in DOMAIN nodes["game"] : nodes'["game"][k] = nodes["game"][k]]_vars
  BY <1>1
<1> QED
  BY <1>2, WaitsAlways, PTL DEF ClickOverwritesNothing
----------------------------------------------------------------------------
(* The page while it knows one sign-in. *)

(* The game is the list, puck for puck, and no object is listed twice. *)
Mirrored(st) ==
    /\ \A i, j \in 1 .. Len(st.list) : st.list[i] = st.list[j] => i = j
    /\ \A i \in 1 .. Len(st.list) : st.heap[st.list[i]] \in PuckModel
    /\ DOMAIN st.nodes["game"] = 0 .. Len(st.list) - 1
    /\ \A i \in 1 .. Len(st.list) : st.nodes["game"][i - 1] = st.heap[st.list[i]]

LEMMA MirroredBy ==
  ASSUME NEW st, NEW m, Len(st.list) = m,
         \A i, j \in 1 .. m : st.list[i] = st.list[j] => i = j,
         \A i \in 1 .. m : st.heap[st.list[i]] \in PuckModel,
         DOMAIN st.nodes["game"] = 0 .. m - 1,
         \A i \in 1 .. m : st.nodes["game"][i - 1] = st.heap[st.list[i]]
  PROVE  Mirrored(st)
BY DEF Mirrored

(* The first m pucks of the game stay as they are. *)
Stay(st, r, m) ==
    \A k \in 0 .. m - 1 : /\ k \in DOMAIN r.nodes["game"]
                          /\ r.nodes["game"][k] = st.nodes["game"][k]

LEMMA ListTypes ==
  ASSUME NEW st, StateType(st)
  PROVE  /\ Len(st.list) \in Nat /\ Len(st.heap) \in Nat
         /\ st.list \in Seq(1 .. Len(st.heap)) /\ st.heap \in Seq(Objects)
         /\ \A i \in 1 .. Len(st.list) : st.list[i] \in 1 .. Len(st.heap)
         /\ NodeType(st.nodes["game"])
<1>1. /\ Len(st.list) \in Nat /\ Len(st.heap) \in Nat
      /\ st.list \in Seq(1 .. Len(st.heap)) /\ st.heap \in Seq(Objects)
      /\ NodeType(st.nodes["game"])
  BY StateFacts DEF StateType
<1>2. \A i \in 1 .. Len(st.list) : st.list[i] \in 1 .. Len(st.heap)
  BY <1>1, ElementOfSeq
<1> QED
  BY <1>1, <1>2

(* A new puck is put behind the last one. *)
LEMMA PassMirrors ==
  ASSUME known, NEW st, StateType(st), Mirrored(st), NEW p \in PuckModel,
         NEW r, r = Run(Push(st, p), Save(Len(st.heap) + 1))
  PROVE  Mirrored(r) /\ r.asked = st.asked /\ Stay(st, r, Len(st.list))
<1> DEFINE o == Len(st.heap) + 1
           n == Len(st.list)
           s == Push(st, p)
           g == Put(st.nodes["game"], n, p)
<1>0. \A i \in 1 .. n : /\ st.heap[st.list[i]] \in PuckModel
                         /\ st.nodes["game"][i - 1] = st.heap[st.list[i]]
  BY DEF Mirrored
<1>1. /\ n \in Nat /\ Len(st.heap) \in Nat /\ st.heap \in Seq(Objects)
      /\ st.list \in Seq(1 .. Len(st.heap))
      /\ \A i \in 1 .. n : st.list[i] \in 1 .. Len(st.heap)
      /\ NodeType(st.nodes["game"])
  BY ListTypes
<1>2. p \in Objects /\ Settable(p) /\ p \in Kids
  BY PuckSettable
<1>3. /\ StateType(s) /\ s.asked = st.asked /\ s.nodes = st.nodes
      /\ s.heap = Append(st.heap, p) /\ s.list = Append(st.list, o)
  BY <1>2, PushFacts
<1>4. /\ Len(s.list) = n + 1 /\ s.list[n + 1] = o
      /\ \A i \in 1 .. n : s.list[i] = st.list[i]
  <2>1. st.list \in Seq(Nat) /\ o \in Nat
    BY <1>1
  <2> QED
    BY <1>3, <2>1, AppendProperties
<1>5. s.heap[o] = p /\ \A i \in 1 .. Len(st.heap) : s.heap[i] = st.heap[i]
  BY <1>1, <1>2, <1>3, AppendProperties
<1>6. LastKey(s) = n /\ Path = "game"
  BY <1>1, <1>4 DEF LastKey, Path
<1> HIDE DEF s
<1>7. NodeType(g) /\ r = Store(s, g)
  <2>1. r = SetLast(s, p)
    BY <1>5 DEF Run, Save, s
  <2>2. LET h == Put(s.nodes[Path], LastKey(s), p)
        IN  NodeType(h) /\ SetLast(s, p) = Store(s, h)
    BY <1>2, <1>3, SetLastFacts
  <2> QED
    BY <1>3, <1>6, <2>1, <2>2
<1>8. DOMAIN g = DOMAIN st.nodes["game"] \cup {n} /\ g[n] = p
      /\ \A k \in DOMAIN st.nodes["game"] : k # n => g[k] = st.nodes["game"][k]
  BY DEF Put, Over
<1> HIDE DEF g
<1>9. /\ r.asked = st.asked /\ r.list = s.list /\ r.heap = s.heap
      /\ r.nodes["game"] = g
  BY <1>3, <1>6, <1>7, StoreFacts
<1>10. DOMAIN g = 0 .. n /\ \A k \in 0 .. n - 1 : g[k] = st.nodes["game"][k]
  <2>1. DOMAIN st.nodes["game"] = 0 .. n - 1
    BY DEF Mirrored
  <2>2. \A k \in 0 .. n - 1 : k # n
    BY <1>1
  <2> QED
    BY <1>1, <1>8, <2>1, <2>2
<1>11. Mirrored(r)
  <2> HIDE DEF n, o
  <2>0. o \notin 1 .. Len(st.heap)
    BY <1>1 DEF o
  <2>1. Len(r.list) = n + 1 /\ DOMAIN r.nodes["game"] = 0 .. Len(r.list) - 1
    <3>1. Len(r.list) = n + 1 /\ DOMAIN r.nodes["game"] = 0 .. n
      BY <1>4, <1>9, <1>10
    <3>2. (n + 1) - 1 = n
      BY <1>1
    <3> QED
      BY <3>1, <3>2
  <2>2. ASSUME NEW i \in 1 .. n
        PROVE  /\ r.list[i] = st.list[i] /\ r.list[i] # o
               /\ r.heap[r.list[i]] = st.heap[st.list[i]]
               /\ r.nodes["game"][i - 1] = st.nodes["game"][i - 1]
    <3>1. r.list[i] = st.list[i] /\ st.list[i] \in 1 .. Len(st.heap)
      BY <1>1, <1>4, <1>9
    <3>2. i - 1 \in 0 .. n - 1
      BY <1>1
    <3> QED
      BY <1>5, <1>9, <1>10, <2>0, <3>1, <3>2
  <2>3. /\ r.list[n + 1] = o /\ r.heap[o] = p /\ r.nodes["game"][(n + 1) - 1] = p
    <3>1. (n + 1) - 1 = n
      BY <1>1
    <3> QED
      BY <1>4, <1>5, <1>8, <1>9, <3>1
  <2>4. \A i \in 1 .. n + 1 : i \in 1 .. n \/ i = n + 1
    BY <1>1
  <2>5. \A i, j \in 1 .. n + 1 : r.list[i] = r.list[j] => i = j
    BY <2>2, <2>3, <2>4 DEF Mirrored, n
  <2>6. \A i \in 1 .. n + 1 : /\ r.heap[r.list[i]] \in PuckModel
                              /\ r.nodes["game"][i - 1] = r.heap[r.list[i]]
    <3>1. ASSUME NEW i \in 1 .. n
          PROVE  /\ r.heap[r.list[i]] \in PuckModel
                 /\ r.nodes["game"][i - 1] = r.heap[r.list[i]]
      BY <1>0, <2>2
    <3>2. r.heap[r.list[n + 1]] \in PuckModel
          /\ r.nodes["game"][(n + 1) - 1] = r.heap[r.list[n + 1]]
      BY <2>3
    <3> QED
      BY <2>4, <3>1, <3>2
  <2> QED
    BY <2>1, <2>5, <2>6 DEF Mirrored
<1>12. Stay(st, r, n)
  <2>1. \A k \in 0 .. n - 1 : k \in 0 .. n
    BY <1>1
  <2> QED
    BY <1>9, <1>10, <2>1 DEF Stay
<1> QED
  BY <1>9, <1>11, <1>12

(* The last puck is given another type, in the list and in the game. *)
LEMMA RetypeMirrors ==
  ASSUME known, NEW st, StateType(st), Mirrored(st), st.list # <<>>,
         NEW o, o = st.list[Len(st.list)], NEW p \in PuckModel,
         NEW f \in Kids, Over(f, st.heap[o]) = p
  PROVE  LET r == UpdateLast([st EXCEPT !.heap[o] = p], f)
         IN  Mirrored(r) /\ r.asked = st.asked /\ Stay(st, r, Len(st.list) - 1)
<1> DEFINE r == UpdateLast([st EXCEPT !.heap[o] = p], f)
           n == Len(st.list)
           s == [st EXCEPT !.heap[o] = p]
           g == Update(st.nodes["game"], n - 1, f)
<1>0. /\ \A i, j \in 1 .. n : st.list[i] = st.list[j] => i = j
      /\ \A i \in 1 .. n : /\ st.heap[st.list[i]] \in PuckModel
                           /\ st.nodes["game"][i - 1] = st.heap[st.list[i]]
      /\ DOMAIN st.nodes["game"] = 0 .. n - 1
  BY DEF Mirrored
<1>1. /\ n \in Nat \ {0} /\ o \in 1 .. Len(st.heap)
      /\ \A i \in 1 .. n : st.list[i] \in 1 .. Len(st.heap)
      /\ NodeType(st.nodes["game"])
  <2>1. n \in Nat /\ \A i \in 1 .. n : st.list[i] \in 1 .. Len(st.heap)
    BY ListTypes
  <2>2. n # 0
    <3>1. st.list \in Seq(1 .. Len(st.heap))
      BY ListTypes
    <3> QED
      BY <3>1
  <2>3. NodeType(st.nodes["game"])
    BY ListTypes
  <2> QED
    BY <2>1, <2>2, <2>3
<1>2. p \in Objects
  BY PuckSettable
<1>3. /\ StateType(s) /\ s.asked = st.asked /\ s.list = st.list /\ s.nodes = st.nodes
      /\ s.heap[o] = p /\ \A i \in 1 .. Len(st.heap) : i # o => s.heap[i] = st.heap[i]
  BY <1>1, <1>2, ObjectFacts
<1> HIDE DEF s
<1>4. LastKey(s) = n - 1 /\ Path = "game"
  BY <1>3 DEF LastKey, Path
<1>5. NodeType(g) /\ r = Store(s, g)
  <2>1. r = UpdateLast(s, f)
    BY DEF s
  <2>2. LET h == Update(s.nodes[Path], LastKey(s), f)
        IN  NodeType(h) /\ UpdateLast(s, f) = Store(s, h)
    BY <1>3, UpdateLastFacts
  <2> QED
    BY <1>3, <1>4, <2>1, <2>2
<1>6. /\ DOMAIN g = 0 .. n - 1
      /\ g[n - 1] = p
      /\ \A k \in 0 .. n - 1 : k # n - 1 => g[k] = st.nodes["game"][k]
  <2>1. n - 1 \in Int /\ n - 1 >= -1 /\ n - 1 \in 0 .. n - 1 /\ n \in 1 .. n
    BY <1>1
  <2>2. /\ DOMAIN g = DOMAIN st.nodes["game"] \cup {n - 1}
        /\ g[n - 1] = Over(f, st.nodes["game"][n - 1])
        /\ \A k \in DOMAIN st.nodes["game"] : k # n - 1 => g[k] = st.nodes["game"][k]
    <3>1. n - 1 \in DOMAIN st.nodes["game"]
      BY <1>0, <2>1
    <3> QED
      BY <3>1 DEF Update, Put, Over
  <2>3. st.nodes["game"][n - 1] = st.heap[o]
    BY <1>0, <2>1
  <2> HIDE DEF g, n
  <2> QED
    BY <1>0, <2>1, <2>2, <2>3
<1> HIDE DEF g
<1>7. /\ r.asked = st.asked /\ r.list = st.list /\ r.heap = s.heap
      /\ r.nodes["game"] = g
  BY <1>3, <1>4, <1>5, StoreFacts
<1> HIDE DEF r
<1>8. ASSUME NEW i \in 1 .. n
      PROVE  /\ r.heap[r.list[i]] \in PuckModel
             /\ r.nodes["game"][i - 1] = r.heap[r.list[i]]
  <2>1. CASE i = n
    <3>1. r.list[i] = o /\ r.heap[o] = p /\ r.nodes["game"][i - 1] = p
      BY <1>3, <1>6, <1>7, <2>1
    <3> QED
      BY <3>1
  <2>2. CASE i # n
    <3>1. n \in 1 .. n /\ i - 1 \in 0 .. n - 1 /\ i - 1 # n - 1
      BY <1>1, <2>2
    <3>2. st.list[i] # o /\ st.list[i] \in 1 .. Len(st.heap)
      BY <1>0, <1>1, <2>2, <3>1
    <3>3. r.heap[r.list[i]] = st.heap[st.list[i]]
      BY <1>3, <1>7, <3>2
    <3>4. r.nodes["game"][i - 1] = st.nodes["game"][i - 1]
      BY <1>6, <1>7, <3>1
    <3> QED
      BY <1>0, <3>3, <3>4
  <2> QED
    BY <2>1, <2>2
<1>9. Mirrored(r)
  <2> HIDE DEF n
  <2>1. Len(r.list) = n
    BY <1>7 DEF n
  <2>2. \A i, j \in 1 .. n : r.list[i] = r.list[j] => i = j
    BY <1>0, <1>7
  <2>3. DOMAIN r.nodes["game"] = 0 .. n - 1
    BY <1>6, <1>7
  <2>4. /\ \A i \in 1 .. n : r.heap[r.list[i]] \in PuckModel
        /\ \A i \in 1 .. n : r.nodes["game"][i - 1] = r.heap[r.list[i]]
    BY <1>8
  <2> QED
    BY <2>1, <2>2, <2>3, <2>4, MirroredBy
<1>10. Stay(st, r, n - 1)
  <2>1. \A k \in 0 .. (n - 1) - 1 : k \in 0 .. n - 1 /\ k # n - 1
    BY <1>1
  <2> HIDE DEF n
  <2> QED
    BY <1>6, <1>7, <2>1 DEF Stay
<1> QED
  BY <1>7, <1>9, <1>10 DEF r

(* The last puck is taken away, or there is none. *)
LEMMA RemoveMirrors ==
  ASSUME known, NEW st, StateType(st), Mirrored(st), NEW r, r = RemovedLast(st)
  PROVE  /\ Mirrored(r) /\ StateType(r) /\ r.asked = st.asked
         /\ Len(r.list) = IF Len(st.list) = 0 THEN 0 ELSE Len(st.list) - 1
         /\ Stay(st, r, Len(r.list))
<1> DEFINE n == Len(st.list)
           m == IF n = 0 THEN 0 ELSE n - 1
<1>0. /\ \A i, j \in 1 .. n : st.list[i] = st.list[j] => i = j
      /\ \A i \in 1 .. n : /\ st.heap[st.list[i]] \in PuckModel
                           /\ st.nodes["game"][i - 1] = st.heap[st.list[i]]
      /\ DOMAIN st.nodes["game"] = 0 .. n - 1
  BY DEF Mirrored
<1>1. n \in Nat /\ st.list \in Seq(1 .. Len(st.heap)) /\ NodeType(st.nodes["game"])
  BY ListTypes
<1>2. /\ StateType(r) /\ r.asked = st.asked /\ r.heap = st.heap
      /\ r.list = IF st.list = <<>> THEN <<>> ELSE Front(st.list)
      /\ r.nodes["game"] = Drop(st.nodes["game"], n - 1)
  BY RemovedFacts DEF LastKey
<1>3. Len(r.list) = m /\ \A i \in 1 .. m : r.list[i] = st.list[i]
  <2>1. CASE st.list = <<>>
    <3>1. r.list = <<>> /\ n = 0
      BY <1>2, <2>1
    <3>2. Len(r.list) = 0 /\ m = 0
      BY <3>1
    <3>3. \A i \in 1 .. m : FALSE
      <4> HIDE DEF m
      <4> QED
        BY <3>2
    <3> QED
      BY <3>2, <3>3
  <2>2. CASE st.list # <<>>
    <3>1. n \in Nat \ {0} /\ Len(Front(st.list)) = n - 1
          /\ \A i \in 1 .. n - 1 : Front(st.list)[i] = st.list[i]
      BY <1>1, <2>2, FrontFacts
    <3> QED
      BY <1>2, <2>2, <3>1
  <2> QED
    BY <2>1, <2>2
<1>4. /\ DOMAIN r.nodes["game"] = 0 .. m - 1
      /\ \A k \in 0 .. m - 1 : r.nodes["game"][k] = st.nodes["game"][k]
  <2>1. /\ DOMAIN r.nodes["game"] = (0 .. n - 1) \ {n - 1}
        /\ \A k \in (0 .. n - 1) \ {n - 1} : r.nodes["game"][k] = st.nodes["game"][k]
    BY <1>0, <1>2 DEF Drop
  <2>2. (0 .. n - 1) \ {n - 1} = 0 .. m - 1
    BY <1>1
  <2> QED
    BY <2>1, <2>2
<1>5. m \in Nat /\ m <= n
  BY <1>1
<1> HIDE DEF m, n
<1>6. ASSUME NEW i \in 1 .. m
      PROVE  /\ r.heap[r.list[i]] \in PuckModel
             /\ r.nodes["game"][i - 1] = r.heap[r.list[i]]
  <2>1. i \in 1 .. n /\ i - 1 \in 0 .. m - 1
    BY <1>1, <1>5
  <2>2. r.list[i] = st.list[i]
    BY <1>3
  <2>3. /\ st.heap[st.list[i]] \in PuckModel
        /\ st.nodes["game"][i - 1] = st.heap[st.list[i]]
    BY <1>0, <2>1
  <2>4. r.nodes["game"][i - 1] = st.nodes["game"][i - 1]
    BY <1>4, <2>1
  <2>5. r.heap = st.heap
    BY <1>2
  <2> QED
    BY <2>2, <2>3, <2>4, <2>5
<1>7. \A i, j \in 1 .. m : r.list[i] = r.list[j] => i = j
  <2>1. \A i \in 1 .. m : i \in 1 .. n
    BY <1>1, <1>5
  <2> QED
    BY <1>0, <1>3, <2>1
<1>8. Mirrored(r)
  BY <1>3, <1>4, <1>6, <1>7 DEF Mirrored
<1> QED
  BY <1>2, <1>3, <1>4, <1>8 DEF Stay, m, n

(* The last object o has become p and is taken from the list. *)
Lifted(st, o, p) == [[st EXCEPT !.heap[o] = p] EXCEPT !.list = Front(st.list)]

(* "Same Sequence" ends with a rebound in the crease and the shot again:   *)
(* the rebound gets the key the shot had, the shot the next one.           *)
LEMMA ReboundMirrors ==
  ASSUME known, NEW st, StateType(st), Mirrored(st), st.list # <<>>, period \in Periods,
         NEW o, o = st.list[Len(st.list)], NEW p \in PuckModel
  PROVE  LET r == Rebounded(Lifted(st, o, p), o)
         IN  Mirrored(r) /\ r.asked = st.asked /\ Stay(st, r, Len(st.list) - 1)
<1> DEFINE u == [st EXCEPT !.heap[o] = p]
           s == [u EXCEPT !.list = Front(st.list)]
           r == Rebounded(s, o)
           n == Len(st.list) - 1
           m == Len(st.heap)
           d == st.nodes["game"]
<1>1. /\ st.list \in Seq(1 .. m) /\ m \in Nat /\ NodeType(d)
      /\ st.heap \in Seq(Objects)
      /\ \A i \in 1 .. Len(st.list) : st.list[i] \in 1 .. m
  BY ListTypes
<1>2. /\ n \in Nat /\ Len(st.list) = n + 1 /\ Len(Front(st.list)) = n
      /\ Front(st.list) \in Seq(1 .. m)
      /\ \A i \in 1 .. n : Front(st.list)[i] = st.list[i]
  <2>1. /\ Len(st.list) \in Nat \ {0} /\ Len(Front(st.list)) = Len(st.list) - 1
        /\ Front(st.list) \in Seq(1 .. m)
        /\ \A i \in 1 .. Len(st.list) - 1 : Front(st.list)[i] = st.list[i]
    BY <1>1, FrontFacts
  <2> QED
    BY <2>1
<1>3. o \in 1 .. m /\ o = st.list[n + 1]
  BY <1>1, <1>2
<1>4. p \in Objects /\ Settable(p)
  BY PuckSettable
<1>5. /\ StateType(u) /\ u.asked = st.asked /\ u.nodes = st.nodes
      /\ Len(u.heap) = m /\ u.heap[o] = p
      /\ \A i \in 1 .. m : i # o => u.heap[i] = st.heap[i]
  BY <1>3, <1>4, ObjectFacts
<1> HIDE DEF u
<1>6. /\ StateType(s) /\ s.asked = st.asked /\ s.nodes = st.nodes
      /\ s.heap = u.heap /\ s.list = Front(st.list) /\ Len(s.heap) = m
  <2>1. Front(st.list) \in Seq(1 .. Len(u.heap))
    BY <1>2, <1>5
  <2>2. /\ StateType(s) /\ s.asked = u.asked /\ s.list = Front(st.list)
        /\ s.nodes = u.nodes /\ s.heap = u.heap
    BY <1>5, <2>1, ListFacts
  <2> HIDE DEF s
  <2> QED
    BY <1>5, <2>2
<1> HIDE DEF s
<1> DEFINE hp == Append(s.heap, Net)
           g1 == Update(d, n, Net)
           g2 == Put(g1, n + 1, hp[o])
<1>7. /\ s.heap \in Seq(Objects) /\ Net \in Objects /\ Net \in PuckModel
  <2>1. Net \in PuckModel
    BY GameTrackerAssumption DEF Net, Puck, PuckModel, ShotTypes, Continuing
  <2> QED
    BY <1>6, <2>1, PuckSettable DEF StateType
<1>8. /\ hp[o] = p /\ hp[m + 1] = Net
      /\ \A i \in 1 .. m : i # o => hp[i] = st.heap[i]
  <2>1. hp[m + 1] = Net /\ \A i \in 1 .. m : hp[i] = s.heap[i]
    BY <1>6, <1>7, AppendProperties
  <2> HIDE DEF hp
  <2> QED
    BY <1>3, <1>5, <1>6, <2>1
<1>9. /\ r.asked = st.asked /\ r.heap = hp
      /\ r.list = Append(Append(Front(st.list), m + 1), o)
      /\ r.nodes["game"] = g2
  <2>1. PeriodType /\ Path = "game" /\ o \in 1 .. Len(s.heap)
    BY <1>3, <1>6 DEF PeriodType, Path
  <2>2. LET h1 == Update(s.nodes[Path], Len(s.list), Net)
            h2 == Put(h1, Len(s.list) + 1, hp[o])
        IN  /\ r.asked = s.asked
            /\ r.heap = hp
            /\ r.list = Append(Append(s.list, Len(s.heap) + 1), o)
            /\ r.nodes[Path] = IF Settable(hp[o]) THEN h2 ELSE h1
    BY <1>6, <2>1, ReboundedFacts
  <2> QED
    BY <1>2, <1>4, <1>6, <1>8, <2>1, <2>2
<1> HIDE DEF r
<1>10. /\ Len(r.list) = n + 2
       /\ \A i \in 1 .. n : r.list[i] = st.list[i]
       /\ r.list[n + 1] = m + 1 /\ r.list[n + 2] = o
  <2> DEFINE f == Front(st.list)
             q == Append(f, m + 1)
  <2>1. f \in Seq(Nat) /\ Len(f) = n /\ m + 1 \in Nat /\ o \in Nat
    BY <1>1, <1>2, <1>3
  <2>2. \A i \in 1 .. n : f[i] = st.list[i]
    BY <1>2
  <2> HIDE DEF f
  <2>3. /\ q \in Seq(Nat) /\ Len(q) = n + 1 /\ q[n + 1] = m + 1
        /\ \A i \in 1 .. n : q[i] = f[i]
    BY <2>1, AppendProperties
  <2>4. r.list = Append(q, o)
    BY <1>9 DEF f
  <2> HIDE DEF q
  <2>5. /\ Len(Append(q, o)) = (n + 1) + 1 /\ Append(q, o)[(n + 1) + 1] = o
        /\ \A i \in 1 .. n + 1 : Append(q, o)[i] = q[i]
    BY <2>1, <2>3, AppendProperties
  <2>6. (n + 1) + 1 = n + 2 /\ \A i \in 1 .. n : i \in 1 .. n + 1
        /\ n + 1 \in 1 .. n + 1
    BY <1>2
  <2>7. Len(r.list) = n + 2 /\ r.list[n + 2] = o
    BY <2>4, <2>5, <2>6
  <2>8. r.list[n + 1] = m + 1
    BY <2>3, <2>4, <2>5, <2>6
  <2>9. \A i \in 1 .. n : r.list[i] = st.list[i]
    BY <2>2, <2>3, <2>4, <2>5, <2>6
  <2> QED
    BY <2>7, <2>8, <2>9
<1>11. /\ \A i, j \in 1 .. n + 1 : st.list[i] = st.list[j] => i = j
       /\ \A i \in 1 .. n + 1 : /\ st.heap[st.list[i]] \in PuckModel
                                /\ d[i - 1] = st.heap[st.list[i]]
       /\ DOMAIN d = 0 .. n
  <2>1. (n + 1) - 1 = n
    BY <1>2
  <2> QED
    BY <1>2, <2>1 DEF Mirrored
<1>12. /\ DOMAIN g2 = 0 .. n + 1 /\ g2[n] = Net /\ g2[n + 1] = p
       /\ \A k \in 0 .. n - 1 : g2[k] = d[k]
  <2>1. n \in 0 .. n /\ d[n] \in PuckModel
    <3>1. n + 1 \in 1 .. n + 1 /\ (n + 1) - 1 = n /\ n \in 0 .. n
      BY <1>2
    <3> QED
      BY <1>11, <3>1
  <2>2. Over(Net, d[n]) = Net
    BY <1>7, <2>1 DEF Over, PuckModel
  <2>3. g1 = Put(d, n, Net)
    BY <1>11, <2>1, <2>2 DEF Update
  <2>4. /\ DOMAIN g1 = 0 .. n /\ g1[n] = Net
        /\ \A k \in 0 .. n : k # n => g1[k] = d[k]
    <3>1. /\ DOMAIN g1 = DOMAIN d \cup {n} /\ g1[n] = Net
          /\ \A k \in DOMAIN d : k # n => g1[k] = d[k]
      BY <2>3 DEF Put, Over
    <3> HIDE DEF g1
    <3> QED
      BY <1>11, <2>1, <3>1
  <2> HIDE DEF g1, hp
  <2>5. /\ DOMAIN g2 = DOMAIN g1 \cup {n + 1} /\ g2[n + 1] = hp[o]
        /\ \A k \in DOMAIN g1 : k # n + 1 => g2[k] = g1[k]
    BY DEF Put, Over
  <2> HIDE DEF g2
  <2>6. DOMAIN g2 = 0 .. n + 1
    BY <1>2, <2>4, <2>5
  <2>7. n # n + 1 /\ n \in 0 .. n
        /\ \A k \in 0 .. n - 1 : k \in 0 .. n /\ k # n /\ k # n + 1
    BY <1>2
  <2> QED
    BY <1>8, <2>4, <2>5, <2>6, <2>7
<1> HIDE DEF g1, g2, hp, n
<1>13. ASSUME NEW i \in 1 .. n
       PROVE  /\ r.list[i] = st.list[i] /\ r.list[i] # o /\ r.list[i] # m + 1
              /\ r.heap[r.list[i]] = st.heap[st.list[i]]
              /\ r.nodes["game"][i - 1] = d[i - 1]
              /\ i \in 1 .. n + 1
  <2>1. i \in 1 .. n + 1 /\ n + 1 \in 1 .. n + 1 /\ i # n + 1 /\ i - 1 \in 0 .. n - 1
    BY <1>2
  <2>2. st.list[i] \in 1 .. m /\ st.list[i] # o
    <3>1. st.list[i] \in 1 .. m
      BY <1>1, <1>2, <2>1
    <3>2. st.list[i] # st.list[n + 1]
      BY <1>11, <2>1
    <3>3. o = st.list[n + 1]
      BY <1>2, <1>3
    <3> QED
      BY <3>1, <3>2, <3>3
  <2>3. st.list[i] # m + 1
    BY <1>1, <2>2
  <2>4. r.list[i] = st.list[i]
    BY <1>10
  <2>5. r.heap[r.list[i]] = st.heap[st.list[i]]
    BY <1>8, <1>9, <2>2, <2>4
  <2>6. r.nodes["game"][i - 1] = d[i - 1]
    BY <1>9, <1>12, <2>1
  <2> QED
    BY <2>1, <2>2, <2>3, <2>4, <2>5, <2>6
<1>14. /\ r.heap[r.list[n + 1]] = Net /\ r.nodes["game"][(n + 1) - 1] = Net
       /\ r.heap[r.list[n + 2]] = p /\ r.nodes["game"][(n + 2) - 1] = p
       /\ r.list[n + 1] # r.list[n + 2]
  <2>1. (n + 1) - 1 = n /\ (n + 2) - 1 = n + 1 /\ m + 1 # o
    BY <1>1, <1>2, <1>3
  <2> QED
    BY <1>8, <1>9, <1>10, <1>12, <2>1
<1>15. \A i \in 1 .. n + 2 : i \in 1 .. n \/ i = n + 1 \/ i = n + 2
  BY <1>2
<1>16. \A i, j \in 1 .. n + 2 : r.list[i] = r.list[j] => i = j
  <2>1. \A i, j \in 1 .. n : r.list[i] = r.list[j] => i = j
    BY <1>11, <1>13
  <2> QED
    BY <1>10, <1>13, <1>14, <1>15, <2>1
<1>17. ASSUME NEW i \in 1 .. n + 2
       PROVE  r.heap[r.list[i]] \in PuckModel /\ r.nodes["game"][i - 1] = r.heap[r.list[i]]
  <2>1. ASSUME i \in 1 .. n
        PROVE  /\ r.heap[r.list[i]] \in PuckModel
               /\ r.nodes["game"][i - 1] = r.heap[r.list[i]]
    BY <1>11, <1>13, <2>1
  <2> QED
    BY <1>7, <1>14, <1>15, <2>1
<1>18. Mirrored(r)
  <2>1. DOMAIN r.nodes["game"] = 0 .. (n + 2) - 1
    <3>1. (n + 2) - 1 = n + 1
      BY <1>2
    <3> QED
      BY <1>9, <1>12, <3>1
  <2>2. /\ \A i \in 1 .. n + 2 : r.heap[r.list[i]] \in PuckModel
        /\ \A i \in 1 .. n + 2 : r.nodes["game"][i - 1] = r.heap[r.list[i]]
    BY <1>17
  <2> QED
    BY <1>10, <1>16, <2>1, <2>2, MirroredBy
<1>19. Stay(st, r, n)
  <2>1. \A k \in 0 .. n - 1 : k \in 0 .. n + 1
    BY <1>2
  <2> QED
    BY <1>9, <1>12, <2>1 DEF Stay
<1>20. Lifted(st, o, p) = s
  BY DEF Lifted, s, u
<1> HIDE DEF s
<1> QED
  BY <1>9, <1>18, <1>19, <1>20 DEF r, n

(* The callbacks of a dead sequence take one puck each. *)
LEMMA DeadMirrors ==
  ASSUME known, NEW st, StateType(st), Mirrored(st), NEW n \in 0 .. Len(st.list)
  PROVE  LET r == RunAll(st, Deads(n))
         IN  Mirrored(r) /\ r.asked = st.asked /\ Stay(st, r, Len(st.list) - n)
<1> DEFINE cs == Deads(n)
           m == Len(st.list)
<1>1. /\ n \in Nat /\ m \in Nat /\ n <= m
      /\ Len(cs) = n /\ \A i \in 1 .. n : cs[i] = Dead
  <2>1. m \in Nat
    BY ListTypes
  <2> QED
    BY <2>1 DEF Deads
<1> HIDE DEF cs, m
<1>2. PICK h : /\ h[0] = st
               /\ \A i \in 1 .. n : h[i] = Run(h[i - 1], cs[i])
               /\ RunAll(st, cs) = h[n]
  <2>1. Len(cs) \in Nat
    BY <1>1
  <2>2. \E h : /\ h[0] = st
               /\ \A i \in 1 .. Len(cs) : h[i] = Run(h[i - 1], cs[i])
               /\ RunAll(st, cs) = h[Len(cs)]
    BY <2>1, RunAllSteps
  <2> QED
    BY <1>1, <2>2
<1> DEFINE Good(i) == /\ StateType(h[i]) /\ Mirrored(h[i])
                      /\ h[i].asked = st.asked
                      /\ Len(h[i].list) = m - i
                      /\ Stay(st, h[i], m - i)
           S == {i \in 0 .. n : Good(i)}
<1>3. 0 \in S
  <2>1. DOMAIN st.nodes["game"] = 0 .. m - 1
    BY DEF Mirrored, m
  <2>2. Stay(st, st, m - 0)
    BY <1>1, <2>1 DEF Stay
  <2> QED
    BY <1>1, <1>2, <2>2 DEF m
<1>4. ASSUME NEW i \in 1 .. n, i - 1 \in S
      PROVE  i \in S
  <2> DEFINE a == h[i - 1]
             b == h[i]
  <2>1. /\ StateType(a) /\ Mirrored(a) /\ a.asked = st.asked
        /\ Len(a.list) = m - (i - 1) /\ Stay(st, a, m - (i - 1))
    BY <1>4
  <2>2. b = RemovedLast(a)
    <3>1. b = Run(a, Dead)
      BY <1>1, <1>2
    <3> QED
      BY <3>1 DEF Run, Dead
  <2> HIDE DEF a, b
  <2>3. /\ Mirrored(b) /\ StateType(b) /\ b.asked = a.asked
        /\ Len(b.list) = IF Len(a.list) = 0 THEN 0 ELSE Len(a.list) - 1
        /\ Stay(a, b, Len(b.list))
    BY <2>1, <2>2, RemoveMirrors
  <2>4. Len(b.list) = m - i
    BY <1>1, <2>1, <2>3
  <2>5. Stay(st, b, m - i)
    <3>1. \A k \in 0 .. (m - i) - 1 : k \in 0 .. (m - (i - 1)) - 1
      BY <1>1
    <3> QED
      BY <2>1, <2>3, <2>4, <3>1 DEF Stay
  <2> QED
    BY <2>1, <2>3, <2>4, <2>5 DEF a, b
<1>5. \A i \in 0 .. n : i \in S
  <2> HIDE DEF S
  <2> QED
    BY <1>1, <1>3, <1>4, UpTo
<1>6. Good(n)
  BY <1>1, <1>5
<1> QED
  BY <1>2, <1>6 DEF cs, m
----------------------------------------------------------------------------
(* The clicks of a page that holds the game, and what each leaves alone.   *)

(* The list is the game after the step as before, nothing is asked, and    *)
(* the first m pucks of the game stay.                                     *)
Kept(m) == Mirrored(Now') /\ asked' = asked /\ Stay(Now, Now', m)

Loaded == PageTypes /\ signedIn /\ known /\ Mirrored(Now)

LEMMA LastIsPuck ==
  ASSUME Loaded, currentPucks # <<>>
  PROVE  /\ LastObject \in 1 .. Len(heap) /\ heap[LastObject] \in PuckModel
         /\ Now.list # <<>> /\ LastObject = Now.list[Len(Now.list)]
         /\ Len(currentPucks) \in 1 .. Len(currentPucks)
<1>1. LastObject \in 1 .. Len(heap) /\ Len(currentPucks) \in Nat \ {0}
  BY LastObjectFacts DEF Loaded
<1>2. Len(currentPucks) \in 1 .. Len(currentPucks)
  BY <1>1
<1>3. heap[LastObject] \in PuckModel
  BY <1>2, NowFacts DEF Loaded, Mirrored, LastObject
<1> QED
  BY <1>1, <1>2, <1>3, NowFacts DEF LastObject

(* A click with one callback. *)
LEMMA OneCallback ==
  ASSUME Loaded, PeriodType, NEW st, NEW c, Handled(st, <<c>>)
  PROVE  Now' = Run(st, c)
<1>1. Now' = RunAll(st, <<c>>)
  BY HandledKeeps DEF Loaded
<1> QED
  BY <1>1, RunOne

LEMMA SkateKeeps ==
  ASSUME Loaded, NEW pos, CanvasSkate(pos)
  PROVE  Kept(Len(currentPucks) - 1)
<1> DEFINE f == [shotType |-> "Skate"]
           p == [heap[LastObject] EXCEPT !.shotType = "Skate"]
           r == UpdateLast([Now EXCEPT !.heap[LastObject] = p], f)
<1>1. /\ currentPucks # <<>> /\ Handled(SkateState, <<Skate>>) /\ PeriodType
  BY SkateHandled, TrackPeriod DEF Loaded, CanvasSkate
<1>2. Now' = r
  <2>1. Run(SkateState, Skate) = UpdateLast(SkateState, f)
    BY DEF Run, Skate
  <2>2. Now' = Run(SkateState, Skate)
    BY <1>1, OneCallback
  <2> QED
    BY <2>1, <2>2 DEF SkateState
<1>3. f \in Kids /\ p \in PuckModel /\ Over(f, heap[LastObject]) = p
  <2>1. heap[LastObject] \in PuckModel /\ "Skate" \in ShotTypes
    BY <1>1, LastIsPuck DEF ShotTypes, Continuing
  <2>2. f \in Kids
    BY <2>1 DEF Kids
  <2>3. p \in PuckModel
    BY <2>1 DEF PuckModel
  <2>4. Over(f, heap[LastObject]) = p
    BY <2>1 DEF Over, PuckModel
  <2> QED
    BY <2>2, <2>3, <2>4
<1>4. /\ known /\ StateType(Now) /\ Mirrored(Now) /\ Now.list # <<>>
      /\ LastObject = Now.list[Len(Now.list)] /\ Now.heap = heap
  BY <1>1, LastIsPuck, NowFacts DEF Loaded, PageTypes
<1> HIDE DEF f, p
<1>5. Mirrored(r) /\ r.asked = Now.asked /\ Stay(Now, r, Len(Now.list) - 1)
  BY <1>3, <1>4, RetypeMirrors
<1> QED
  BY <1>2, <1>5, NowFacts DEF Kept

LEMMA PassKeeps ==
  ASSUME Loaded, NEW pos \in Positions, CanvasPass(pos)
  PROVE  Kept(Len(currentPucks))
<1> DEFINE r == Run(Push(Now, PassPuck(pos)), Save(Len(Now.heap) + 1))
<1>1. /\ PassPuck(pos) \in PuckModel /\ PeriodType
      /\ Handled(Push(Now, PassPuck(pos)), <<Save(Len(heap) + 1)>>)
  BY PassHandled, TrackPeriod DEF Loaded, CanvasPass
<1>2. Now' = r
  BY <1>1, OneCallback, NowFacts
<1>3. known /\ StateType(Now) /\ Mirrored(Now)
  BY DEF Loaded, PageTypes
<1>4. Mirrored(r) /\ r.asked = Now.asked /\ Stay(Now, r, Len(Now.list))
  BY <1>1, <1>3, PassMirrors
<1> QED
  BY <1>2, <1>4, NowFacts DEF Kept

(* What the outcome makes of the object and of the child is the same puck. *)
LEMMA OutcomeOver ==
  ASSUME NEW c \in PuckModel, NEW type
  PROVE  Over([shotType |-> type, newSequenceBool |-> TRUE], c)
            = [c EXCEPT !.shotType = type, !.newSequenceBool = TRUE]
<1> DEFINE p == [c EXCEPT !.shotType = type, !.newSequenceBool = TRUE]
           f == [shotType |-> type, newSequenceBool |-> TRUE]
<1>1. DOMAIN c = Fields
  BY DEF PuckModel, Fields
<1>2. p = [x \in Fields |-> p[x]]
  BY <1>1
<1>3. p.pos = c.pos /\ p.period = c.period /\ p.shotType = type
  BY <1>1 DEF Fields
<1>4. p.newSequenceBool = TRUE
  BY <1>1 DEF Fields
<1>5. DOMAIN f = {"shotType", "newSequenceBool"} /\ f.shotType = type
  OBVIOUS
<1>6. f.newSequenceBool = TRUE
  OBVIOUS
<1> HIDE DEF p, f
<1>7. \A x \in Fields : p[x] = IF x \in DOMAIN f THEN f[x] ELSE c[x]
  BY <1>3, <1>4, <1>5, <1>6 DEF Fields
<1>8. Over(f, c) = [x \in Fields |-> IF x \in DOMAIN f THEN f[x] ELSE c[x]]
  BY <1>1, <1>5 DEF Over, Fields
<1>9. Over(f, c) = p
  BY <1>2, <1>7, <1>8
<1> QED
  BY <1>9 DEF p, f

LEMMA OutcomeKeeps ==
  ASSUME Loaded, NEW type \in Outcomes, OutcomeButton(type)
  PROVE  Kept(Len(currentPucks) - 1)
<1> DEFINE f == [shotType |-> type, newSequenceBool |-> TRUE]
           p == [heap[LastObject] EXCEPT !.shotType = type, !.newSequenceBool = TRUE]
           r == UpdateLast([Now EXCEPT !.heap[LastObject] = p], f)
<1>1. /\ currentPucks # <<>> /\ Handled(OutcomeState(type), <<Outcome(type)>>)
      /\ PeriodType
  BY OutcomeHandled, TrackPeriod DEF Loaded, OutcomeButton
<1>2. Now' = r
  BY <1>1, OneCallback DEF Run, Outcome, OutcomeState
<1>3. f \in Kids /\ p \in PuckModel /\ Over(f, heap[LastObject]) = p
  <2>1. heap[LastObject] \in PuckModel /\ type \in ShotTypes
    BY <1>1, LastIsPuck DEF ShotTypes
  <2>2. f \in Kids
    BY <2>1 DEF Kids
  <2>3. p \in PuckModel
    BY <2>1 DEF PuckModel
  <2>4. Over(f, heap[LastObject]) = p
    BY <2>1, OutcomeOver
  <2> QED
    BY <2>2, <2>3, <2>4
<1>4. /\ known /\ StateType(Now) /\ Mirrored(Now) /\ Now.list # <<>>
      /\ LastObject = Now.list[Len(Now.list)] /\ Now.heap = heap
  BY <1>1, LastIsPuck, NowFacts DEF Loaded, PageTypes
<1> HIDE DEF f, p
<1>5. Mirrored(r) /\ r.asked = Now.asked /\ Stay(Now, r, Len(Now.list) - 1)
  BY <1>3, <1>4, RetypeMirrors
<1> QED
  BY <1>2, <1>5, NowFacts DEF Kept

LEMMA SameKeepsOn ==
  ASSUME Loaded, SameSequence
  PROVE  Kept(Len(currentPucks) - 1)
<1> DEFINE r == Rebounded(SameState, LastObject)
<1>1. /\ currentPucks # <<>> /\ Handled(SameState, <<Rebound(LastObject)>>)
      /\ PeriodType /\ period \in Periods
  BY SameHandled, TrackPeriod DEF Loaded, SameSequence
<1>2. Now' = r
  <2>1. Run(SameState, Rebound(LastObject)) = r
    BY DEF Run, Rebound
  <2>2. Now' = Run(SameState, Rebound(LastObject))
    BY <1>1, OneCallback
  <2> QED
    BY <2>1, <2>2
<1>3. SameShot \in PuckModel
  BY <1>1, LastIsPuck DEF SameShot, PuckModel, ShotTypes, Continuing
<1>4. /\ known /\ StateType(Now) /\ Mirrored(Now) /\ Now.list # <<>>
      /\ LastObject = Now.list[Len(Now.list)] /\ Now.list = currentPucks
  BY <1>1, LastIsPuck, NowFacts DEF Loaded, PageTypes
<1>5. Mirrored(r) /\ r.asked = Now.asked /\ Stay(Now, r, Len(Now.list) - 1)
  <2>1. LET q == Rebounded(Lifted(Now, LastObject, SameShot), LastObject)
        IN  Mirrored(q) /\ q.asked = Now.asked /\ Stay(Now, q, Len(Now.list) - 1)
    <3>1. period \in Periods
      BY <1>1
    <3> QED
      BY <1>3, <1>4, <3>1, ReboundMirrors
  <2> QED
    BY <1>4, <2>1 DEF SameState, Lifted
<1> QED
  BY <1>2, <1>4, <1>5, NowFacts DEF Kept

LEMMA UndoKeeps ==
  ASSUME Loaded, UndoButton
  PROVE  Kept(IF Len(currentPucks) = 0 THEN 0 ELSE Len(currentPucks) - 1)
<1> DEFINE r == RemovedLast(Now)
<1>1. Handled(Now, <<Undo>>) /\ PeriodType
  BY UndoHandled, TrackPeriod DEF Loaded, UndoButton
<1>2. Now' = r
  <2>1. Run(Now, Undo) = r
    BY DEF Run, Undo
  <2>2. Now' = Run(Now, Undo)
    BY <1>1, OneCallback
  <2> QED
    BY <2>1, <2>2
<1>3. known /\ StateType(Now) /\ Mirrored(Now)
  BY DEF Loaded, PageTypes
<1>4. /\ Mirrored(r) /\ r.asked = Now.asked
      /\ Len(r.list) = IF Len(Now.list) = 0 THEN 0 ELSE Len(Now.list) - 1
      /\ Stay(Now, r, Len(r.list))
  BY <1>3, RemoveMirrors
<1> QED
  BY <1>2, <1>4, NowFacts DEF Kept

LEMMA DeadKeeps ==
  ASSUME Loaded, DeadButton
  PROVE  \E n \in 0 .. Len(currentPucks) :
            /\ \A i \in Len(currentPucks) - n + 1 .. Len(currentPucks) :
                  Listed(i).newSequenceBool = FALSE
            /\ Kept(Len(currentPucks) - n)
<1>1. PICK n \in 0 .. Len(currentPucks) :
            /\ \A i \in Len(currentPucks) - n + 1 .. Len(currentPucks) :
                  Listed(i).newSequenceBool = FALSE
            /\ Handled(Now, Deads(n))
  BY DeadHandled DEF Loaded
<1>2. PeriodType
  BY TrackPeriod DEF Loaded, DeadButton
<1>3. Now' = RunAll(Now, Deads(n))
  BY <1>1, <1>2, HandledKeeps DEF Loaded
<1>4. known /\ StateType(Now) /\ Mirrored(Now) /\ n \in 0 .. Len(Now.list)
  BY NowFacts DEF Loaded, PageTypes
<1>5. Kept(Len(currentPucks) - n)
  BY <1>3, <1>4, DeadMirrors, NowFacts DEF Kept
<1> QED
  BY <1>1, <1>5
----------------------------------------------------------------------------
(* From the first sign-in until the next. *)

(* The pucks have not arrived yet, and there is nothing to click. *)
Unread ==
    /\ callbacks = <<Load>>
    /\ currentPucks = <<>> /\ heap = <<>>
    /\ Saved(nodes["game"])
    /\ asked + loading <= 1
    /\ signedIn => asked + loading = 1

Read == asked = 0 /\ loading = 0 /\ Mirrored(Now)

First ==
    /\ PageTypes
    /\ signIns = 0 => Unread /\ ~signedIn /\ asked = 0 /\ loading = 0
    /\ signIns = 1 => Unread \/ Read

LEMMA FirstInit ==
  ASSUME Init
  PROVE  First
<1>1. PageTypes /\ Saved(nodes["game"])
  BY TypesInit
<1> QED
  BY <1>1 DEF Init, First, Unread

(* A click finds the game read. *)
LEMMA ReadyIsRead ==
  ASSUME First, Ready, signIns = 1
  PROVE  Loaded /\ Read
<1>1. ~Unread
  BY DEF Ready, Unread
<1> QED
  BY <1>1 DEF First, Ready, Loaded, Read

(* The answer is the game, and the list has nothing else. *)
LEMMA ArriveMirrors ==
  ASSUME PageTypes, Unread, PucksArrive
  PROVE  Read'
<1> DEFINE d == nodes["game"]
<1>1. PICK n \in 0 .. MaxPucks : DOMAIN d = 0 .. n - 1 /\ d \in [0 .. n - 1 -> PuckModel]
  BY DEF Unread, Saved
<1>2. n \in Nat /\ Cardinality(DOMAIN d) = n
  <2>1. n \in Nat
    BY PucksAssumption
  <2> QED
    BY <1>1, <2>1, FS_Interval
<1>3. asked' = 0 /\ loading' = 0
  BY NowFacts DEF PucksArrive, Unread, PageTypes, StateType
<1>4. heap = <<>> /\ currentPucks = <<>> /\ Len(heap) = 0 /\ Len(currentPucks) = 0
  BY DEF Unread
<1>5. /\ Answer \in Seq(Objects) /\ Len(Answer) = n
      /\ heap' = heap \o Answer
      /\ Len(currentPucks') = Len(currentPucks) + n
      /\ \A i \in 1 .. n : currentPucks'[Len(currentPucks) + i] = Len(heap) + i
  BY <1>2, PucksArriveFacts
<1>6. heap' = Answer /\ Len(currentPucks') = n /\ \A i \in 1 .. n : currentPucks'[i] = i
  <2>1. heap' = Answer
    BY <1>4, <1>5
  <2>2. \A i \in 1 .. n : 0 + i = i
    BY <1>2
  <2> QED
    BY <1>2, <1>4, <1>5, <2>1, <2>2
<1>7. ASSUME NEW i \in 1 .. n
      PROVE  Answer[i] = d[i - 1] /\ d[i - 1] \in PuckModel
  <2>1. i - 1 \in 0 .. n - 1
    BY <1>2
  <2>2. d[i - 1] \in PuckModel
    BY <1>1, <2>1
  <2>3. PuckRead(d[i - 1]) = d[i - 1]
    BY <2>2 DEF PuckRead, PuckModel, Fields
  <2>4. KeyAt(DOMAIN d, i - 1) = i - 1
    BY <1>1, <2>1, KeyAtInterval
  <2>5. Answer[i] = PuckRead(d[KeyAt(DOMAIN d, i - 1)])
    BY <1>2 DEF Answer
  <2> QED
    BY <2>2, <2>3, <2>4, <2>5
<1>8. nodes' = nodes
  BY DEF PucksArrive
<1> HIDE DEF d
<1>9. Mirrored(Now')
  <2>1. Now'.list = currentPucks' /\ Now'.heap = heap' /\ Now'.nodes["game"] = d
    BY <1>8, NowFacts DEF d
  <2>2. \A i, j \in 1 .. n : Now'.list[i] = Now'.list[j] => i = j
    BY <1>6, <2>1
  <2>3. \A i \in 1 .. n : Now'.heap[Now'.list[i]] \in PuckModel
    BY <1>6, <1>7, <2>1
  <2>4. \A i \in 1 .. n : Now'.nodes["game"][i - 1] = Now'.heap[Now'.list[i]]
    BY <1>6, <1>7, <2>1
  <2>5. DOMAIN Now'.nodes["game"] = 0 .. n - 1
    BY <1>1, <2>1
  <2> QED
    BY <1>6, <2>1, <2>2, <2>3, <2>4, <2>5, MirroredBy
<1> QED
  BY <1>3, <1>9 DEF Read

(* A click of a page that holds the game leaves it so, and a puck of a     *)
(* closed sequence, unless it is the last, among the first m.              *)
LEMMA ClickKeeps ==
  ASSUME Loaded,
         \/ \E pos \in Positions : CanvasSkate(pos) \/ CanvasPass(pos)
         \/ \E type \in Outcomes : OutcomeButton(type)
         \/ SameSequence
         \/ UndoButton
         \/ DeadButton
  PROVE  \E m \in Int :
            /\ Kept(m)
            /\ \A i, j \in 1 .. Len(currentPucks) :
                  i <= j /\ i < Len(currentPucks) /\ Listed(j).newSequenceBool = TRUE
                     => i <= m
<1> DEFINE n == Len(currentPucks)
           Closed(m) == \A i, j \in 1 .. n :
                           i <= j /\ i < n /\ Listed(j).newSequenceBool = TRUE => i <= m
<1>1. n \in Nat
  BY NowFacts, ListTypes DEF Loaded, PageTypes
<1>2. n \in Int /\ n - 1 \in Int /\ Closed(n) /\ Closed(n - 1)
  BY <1>1
<1>3. CASE \/ \E pos \in Positions : CanvasSkate(pos) \/ CanvasPass(pos)
           \/ \E type \in Outcomes : OutcomeButton(type)
           \/ SameSequence
  <2>1. Kept(n) \/ Kept(n - 1)
    BY <1>3, SkateKeeps, PassKeeps, OutcomeKeeps, SameKeepsOn
  <2> HIDE DEF n
  <2> QED
    BY <1>2, <2>1 DEF n
<1>4. CASE UndoButton
  <2>1. Kept(IF n = 0 THEN 0 ELSE n - 1)
    BY <1>4, UndoKeeps
  <2>2. Closed(IF n = 0 THEN 0 ELSE n - 1) /\ (IF n = 0 THEN 0 ELSE n - 1) \in Int
    BY <1>1
  <2> QED
    BY <2>1, <2>2
<1>5. CASE DeadButton
  <2>1. PICK d \in 0 .. n : /\ \A i \in n - d + 1 .. n : Listed(i).newSequenceBool = FALSE
                            /\ Kept(n - d)
    BY <1>5, DeadKeeps
  <2>2. ASSUME NEW i \in 1 .. n, NEW j \in 1 .. n, i <= j, Listed(j).newSequenceBool = TRUE
        PROVE  i <= n - d
    <3>1. j \notin n - d + 1 .. n
      BY <2>1, <2>2
    <3> QED
      BY <1>1, <2>2, <3>1
  <2>3. n - d \in Int
    BY <1>1
  <2>4. Closed(n - d)
    <3> HIDE DEF n
    <3> QED
      BY <2>2
  <2> HIDE DEF n
  <2> QED
    BY <2>1, <2>3, <2>4 DEF n
<1> QED
  BY <1>3, <1>4, <1>5

LEMMA FirstNext ==
  ASSUME Patient, First, [Next]_vars
  PROVE  First'
<1>1. /\ PageTypes /\ PageTypes' /\ StateType(Now) /\ asked \in Nat /\ loading \in Nat
      /\ signIns \in Nat
  <2>1. PageTypes /\ PageTypes'
    BY TypesNext DEF First
  <2> QED
    BY <2>1, NowFacts, GameTrackerAssumption DEF PageTypes, StateType
<1>2. ASSUME UNCHANGED <<callbacks, currentPucks, heap, nodes, asked, loading, signIns>>,
             signedIn' => signedIn
      PROVE  First'
  <2>1. Now' = Now
    BY <1>2 DEF Now
  <2>2. Unread => Unread'
    BY <1>2 DEF Unread
  <2>3. Read => Read'
    BY <1>2, <2>1 DEF Read
  <2>4. PageTypes'
    BY <1>1
  <2> QED
    BY <1>2, <2>2, <2>3, <2>4 DEF First
<1>3. CASE UNCHANGED vars
  <2>1. UNCHANGED <<callbacks, currentPucks, heap, nodes, asked, loading, signIns, signedIn>>
    BY <1>3 DEF vars, session, requests
  <2> QED
    BY <1>2, <2>1
<1>4. CASE \/ \E pos \in Positions : CanvasSkate(pos) \/ CanvasPass(pos)
           \/ \E type \in Outcomes : OutcomeButton(type)
           \/ SameSequence
           \/ UndoButton
           \/ DeadButton
  <2>1. Ready /\ signIns' = signIns /\ loading' = loading
    BY <1>4 DEF CanvasSkate, CanvasPass, OutcomeButton, SameSequence, UndoButton, DeadButton,
                Click, Handle
  <2>2. CASE signIns = 1
    <3>1. Loaded /\ Read
      BY <2>1, <2>2, ReadyIsRead
    <3>2. PICK m \in Int : Kept(m)
      BY <1>4, <3>1, ClickKeeps
    <3>3. Read'
      BY <2>1, <3>1, <3>2 DEF Read, Kept
    <3>4. PageTypes'
      BY <1>1
    <3> QED
      BY <2>1, <2>2, <3>3, <3>4 DEF First
  <2>3. CASE signIns # 1
    <3>1. signIns # 0
      BY <2>1 DEF First, Ready
    <3>2. PageTypes'
      BY <1>1
    <3> QED
      BY <2>1, <2>3, <3>1, <3>2 DEF First
  <2> QED
    BY <2>2, <2>3
<1>5. CASE ViewShots \/ TrackShots \/ \E p \in Periods \cup {All} : SelectPeriod(p)
  <2>1. UNCHANGED <<callbacks, currentPucks, heap, nodes, asked, loading, signIns, signedIn>>
    BY <1>5 DEF ViewShots, TrackShots, SelectPeriod, session, requests
  <2> QED
    BY <1>2, <2>1
<1>6. CASE SignIn
  <2>1. signIns' = signIns + 1 /\ callbacks' = callbacks /\ loading' = loading /\ signedIn'
    BY <1>6 DEF SignIn
  <2>2. CASE signIns = 0
    <3>1. callbacks = <<Load>> /\ asked = 0 /\ loading = 0 /\ Unread
      BY <2>2 DEF First, Unread
    <3>2. Now' = Run(Now, Load)
      BY <1>1, <1>6, <3>1, SignInKeeps, RunOne
    <3>3. asked' = 0 + 1 /\ currentPucks' = currentPucks /\ heap' = heap /\ nodes' = nodes
      BY <1>1, <3>1, <3>2, LoadFacts, NowFacts
    <3>4. Unread'
      BY <2>1, <3>1, <3>3 DEF Unread
    <3>5. PageTypes'
      BY <1>1
    <3> QED
      BY <2>1, <2>2, <3>4, <3>5 DEF First
  <2>3. CASE signIns # 0
    <3>1. signIns' # 0 /\ signIns' # 1
      BY <1>1, <2>1, <2>3
    <3>2. PageTypes'
      BY <1>1
    <3> QED
      BY <3>1, <3>2 DEF First
  <2> QED
    BY <2>2, <2>3
<1>7. CASE SignOut
  <2>1. UNCHANGED <<callbacks, currentPucks, heap, nodes, asked, loading, signIns>>
        /\ signedIn
    BY <1>7 DEF SignOut, store
  <2> QED
    BY <1>2, <2>1
<1>8. CASE GameArrives
  <2>1. /\ UNCHANGED <<callbacks, currentPucks, heap, nodes, signIns, signedIn>>
        /\ asked > 0 /\ signedIn /\ asked' = asked - 1 /\ loading' = loading + 1
    BY <1>8 DEF GameArrives, session
  <2>2. signIns # 0 /\ ~Read
    BY <1>1, <2>1 DEF First, Read
  <2>3. Unread => Unread'
    BY <1>1, <2>1 DEF Unread
  <2>4. PageTypes'
    BY <1>1
  <2> QED
    BY <2>1, <2>2, <2>3, <2>4 DEF First
<1>9. CASE PucksArrive
  <2>1. signIns' = signIns /\ loading > 0 /\ signedIn
    BY <1>9 DEF PucksArrive, session
  <2>2. signIns # 0 /\ ~Read
    BY <1>1, <2>1 DEF First, Read
  <2>3. Unread => Read'
    BY <1>1, <1>9, ArriveMirrors
  <2>4. PageTypes'
    BY <1>1
  <2> QED
    BY <2>1, <2>2, <2>3, <2>4 DEF First
<1>10. CASE RequestFails
  <2>1. /\ UNCHANGED <<callbacks, currentPucks, heap, nodes, signIns, signedIn>>
        /\ ~signedIn
    BY <1>10 DEF RequestFails, session
  <2>2. asked > 0 \/ loading > 0
    BY <1>10 DEF RequestFails
  <2>3. signIns # 0 /\ ~Read
    BY <1>1, <2>2 DEF First, Read
  <2>4. Unread => Unread'
    <3>1. \/ asked' = asked - 1 /\ loading' = loading
          \/ loading' = loading - 1 /\ asked' = asked
      BY <1>10 DEF RequestFails
    <3>2. asked \in Nat /\ loading \in Nat
      BY <1>1
    <3>3. asked + loading <= 1 => asked' + loading' <= 1
      BY <3>1, <3>2
    <3> QED
      BY <2>1, <3>3 DEF Unread
  <2>5. PageTypes'
    BY <1>1
  <2> QED
    BY <2>1, <2>3, <2>4, <2>5 DEF First
<1> QED
  BY <1>3, <1>4, <1>5, <1>6, <1>7, <1>8, <1>9, <1>10 DEF Next, UserStep

LEMMA FirstAlways == Patient /\ Spec => []First
<1> SUFFICES ASSUME Patient PROVE Spec => []First
  OBVIOUS
<1>1. Init => First
  BY FirstInit
<1>2. First /\ [Next]_vars => First'
  BY FirstNext
<1> QED
  BY <1>1, <1>2, PTL DEF Spec

LEMMA GameIsList ==
  ASSUME PageTypes, Mirrored(Now)
  PROVE  /\ Len(currentPucks) \in Nat
         /\ nodes["game"] = [k \in 0 .. Len(currentPucks) - 1 |-> Listed(k + 1)]
         /\ \A k \in DOMAIN nodes["game"] : nodes["game"][k] \in PuckModel
<1> DEFINE n == Len(currentPucks)
           g == nodes["game"]
<1>1. n \in Nat /\ NodeType(g)
  BY NowFacts, ListTypes DEF PageTypes
<1>2. /\ DOMAIN g = 0 .. n - 1
      /\ \A i \in 1 .. n : Listed(i) \in PuckModel /\ g[i - 1] = Listed(i)
  BY NowFacts DEF Mirrored, Listed
<1> HIDE DEF n
<1>3. ASSUME NEW k \in 0 .. n - 1
      PROVE  g[k] = Listed(k + 1) /\ Listed(k + 1) \in PuckModel
  <2>1. k + 1 \in 1 .. n /\ (k + 1) - 1 = k
    BY <1>1
  <2> QED
    BY <1>2, <2>1
<1>4. g = [k \in 0 .. n - 1 |-> g[k]]
  BY <1>1, <1>2 DEF NodeType
<1>5. g = [k \in 0 .. n - 1 |-> Listed(k + 1)]
  BY <1>3, <1>4
<1> QED
  BY <1>1, <1>2, <1>3, <1>5 DEF n

(* From the first sign-in to the next, for any number of clicks in any     *)
(* order: the game in the database is the list, puck for puck.             *)
THEOREM GameMirrorsList == Patient /\ Spec => []Mirrors
<1> SUFFICES ASSUME Patient PROVE Spec => []Mirrors
  OBVIOUS
<1>1. First => Mirrors
  BY ReadyIsRead, GameIsList DEF Mirrors, First, Read
<1> QED
  BY <1>1, FirstAlways, PTL

(* Where no puck has the period All, the page's state has none either. *)
LEMMA NoneIsReal ==
  ASSUME PageTypes
  PROVE  NoneIsAll <=> Real(Now)
<1>1. /\ heap \in Seq(Objects)
      /\ nodes = [game |-> nodes["game"], undefined |-> nodes["undefined"]]
  BY NowFacts DEF PageTypes, StateType
<1>2. DOMAIN heap = 1 .. Len(heap) /\ DOMAIN nodes = {"game", "undefined"}
  BY <1>1
<1> QED
  BY <1>2, NowFacts DEF NoneIsAll, Real, RealNode

(* A handler whose local work makes no object of the period All. *)
LEMMA HandledReal ==
  ASSUME PageTypes, period \in Periods, Real(Now), NEW st, NEW cs, Handled(st, cs),
         \A o \in 1 .. Len(st.heap) : st.heap[o].period # All
  PROVE  Real(Now')
<1>1. Real(st)
  BY NowFacts DEF Real, Handled
<1>2. period # All /\ PeriodType
  BY GameTrackerAssumption DEF PeriodType
<1> QED
  BY <1>1, <1>2, HandledKeeps DEF Keeps

(* An object that is given another type keeps its period. *)
LEMMA RetypeReal ==
  ASSUME PageTypes, Real(Now), currentPucks # <<>>, NEW p \in Objects,
         p.period = heap[LastObject].period
  PROVE  LET h == [heap EXCEPT ![LastObject] = p]
         IN  \A o \in 1 .. Len(h) : h[o].period # All
<1>1. heap \in Seq(Objects) /\ LastObject \in 1 .. Len(heap)
  BY LastObjectFacts, NowFacts DEF PageTypes, StateType
<1>2. \A o \in 1 .. Len(heap) : heap[o].period # All
  BY NowFacts DEF Real
<1> DEFINE h == [heap EXCEPT ![LastObject] = p]
<1>3. Len(h) = Len(heap) /\ \A o \in 1 .. Len(heap) : h[o] = IF o = LastObject THEN p ELSE heap[o]
  BY <1>1, ExceptSeq
<1> HIDE DEF h
<1> QED
  BY <1>1, <1>2, <1>3 DEF h

LEMMA ClickReal ==
  ASSUME PageTypes, Real(Now),
         \/ \E pos \in Positions : CanvasSkate(pos) \/ CanvasPass(pos)
         \/ \E type \in Outcomes : OutcomeButton(type)
         \/ SameSequence
         \/ UndoButton
         \/ DeadButton
  PROVE  Real(Now')
<1>1. period \in Periods /\ period # All
  BY TrackPeriod, GameTrackerAssumption DEF CanvasSkate, CanvasPass, OutcomeButton, SameSequence,
     UndoButton, DeadButton
<1>2. /\ heap \in Seq(Objects) /\ Len(heap) \in Nat /\ StateType(Now) /\ Now.heap = heap
      /\ \A o \in 1 .. Len(heap) : heap[o].period # All
  BY NowFacts, StateFacts DEF PageTypes, StateType, Real
<1>3. ASSUME NEW pos \in Positions, CanvasSkate(pos)
      PROVE  Real(Now')
  <2> DEFINE p == [heap[LastObject] EXCEPT !.shotType = "Skate"]
  <2>1. currentPucks # <<>> /\ Handled(SkateState, <<Skate>>)
    BY <1>3, SkateHandled
  <2>2. p \in Objects /\ p.period = heap[LastObject].period
    BY <2>1, LastObjectFacts DEF Objects, ShotTypes, Continuing
  <2> HIDE DEF p
  <2>3. SkateState.heap = [heap EXCEPT ![LastObject] = p]
    <3>1. LET q == [Now EXCEPT !.heap[LastObject] = p]
          IN  q.heap = [Now.heap EXCEPT ![LastObject] = p]
      BY <1>2, <2>1, <2>2, LastObjectFacts, ObjectFacts
    <3> QED
      BY <1>2, <3>1 DEF SkateState, p
  <2> QED
    BY <1>1, <2>1, <2>2, <2>3, RetypeReal, HandledReal
<1>4. ASSUME NEW pos \in Positions, CanvasPass(pos)
      PROVE  Real(Now')
  <2> DEFINE st == Push(Now, PassPuck(pos))
  <2>1. PassPuck(pos) \in PuckModel /\ Handled(st, <<Save(Len(heap) + 1)>>)
    BY <1>4, PassHandled
  <2>2. st.heap = Append(heap, PassPuck(pos)) /\ PassPuck(pos) \in Objects
    BY <1>2, <2>1, PuckSettable, PushFacts
  <2>3. PassPuck(pos).period # All
    BY <1>1 DEF PassPuck, Puck
  <2> HIDE DEF st
  <2>4. \A o \in 1 .. Len(st.heap) : st.heap[o].period # All
    BY <1>2, <2>2, <2>3, AppendProperties
  <2> QED
    BY <1>1, <2>1, <2>4, HandledReal
<1>5. ASSUME NEW type \in Outcomes, OutcomeButton(type)
      PROVE  Real(Now')
  <2> DEFINE p == [heap[LastObject] EXCEPT !.shotType = type, !.newSequenceBool = TRUE]
  <2>1. currentPucks # <<>> /\ Handled(OutcomeState(type), <<Outcome(type)>>)
    BY <1>5, OutcomeHandled
  <2>2. p \in Objects /\ p.period = heap[LastObject].period
    BY <2>1, LastObjectFacts DEF Objects, ShotTypes
  <2> HIDE DEF p
  <2>3. OutcomeState(type).heap = [heap EXCEPT ![LastObject] = p]
    <3>1. LET q == [Now EXCEPT !.heap[LastObject] = p]
          IN  q.heap = [Now.heap EXCEPT ![LastObject] = p]
      BY <1>2, <2>1, <2>2, LastObjectFacts, ObjectFacts
    <3> QED
      BY <1>2, <3>1 DEF OutcomeState, p
  <2> QED
    BY <1>1, <2>1, <2>2, <2>3, RetypeReal, HandledReal
<1>6. CASE SameSequence
  <2>1. /\ currentPucks # <<>> /\ SameShot \in Objects
        /\ SameState.heap = [heap EXCEPT ![LastObject] = SameShot]
        /\ Handled(SameState, <<Rebound(LastObject)>>)
    BY <1>6, SameHandled
  <2>2. SameShot.period = heap[LastObject].period
    BY <2>1, LastObjectFacts DEF SameShot, Objects
  <2> QED
    BY <1>1, <2>1, <2>2, RetypeReal, HandledReal
<1>7. CASE UndoButton
  BY <1>1, <1>2, <1>7, UndoHandled, HandledReal
<1>8. CASE DeadButton
  BY <1>1, <1>2, <1>8, DeadHandled, HandledReal
<1> QED
  BY <1>3, <1>4, <1>5, <1>6, <1>7, <1>8

(* The server's answer has the periods of the game. *)
LEMMA ArriveReal ==
  ASSUME PageTypes, Real(Now), PucksArrive
  PROVE  Real(Now')
<1> DEFINE d == nodes["game"]
           D == DOMAIN d
           n == Cardinality(D)
<1>1. /\ n \in Nat /\ Answer \in Seq(Objects) /\ Len(Answer) = n
      /\ heap' = heap \o Answer /\ heap \in Seq(Objects) /\ Len(heap) \in Nat
      /\ NodeType(d)
  BY PucksArriveFacts, NowFacts DEF PageTypes, StateType
<1>2. ASSUME NEW i \in 1 .. n
      PROVE  Answer[i].period # All
  <2>1. Answer[i] = PuckRead(d[KeyAt(D, i - 1)])
    BY DEF Answer
  <2>2. PICK b \in Nat : D \subseteq -1 .. b - 1
    BY <1>1 DEF NodeType
  <2>3. i - 1 \in Nat /\ i - 1 < n
    BY <1>1
  <2>4. KeyAt(D, i - 1) \in D
    <3>1. IsFiniteSet(D)
      <4>1. IsFiniteSet(-1 .. b - 1)
        BY FS_Interval
      <4> QED
        BY <2>2, <4>1, FS_Subset
    <3> QED
      BY <1>1, <2>2, <2>3, <3>1, KeyAtFrom
  <2> QED
    BY <2>1, <2>4, NowFacts DEF Real, RealNode
<1>3. \A o \in 1 .. Len(heap) : heap[o].period # All
  BY NowFacts DEF Real
<1> HIDE DEF n
<1>4. \A o \in 1 .. Len(heap') : heap'[o].period # All
  <2>1. Len(heap') = Len(heap) + n
        /\ \A o \in 1 .. Len(heap) + n :
              heap'[o] = IF o <= Len(heap) THEN heap[o] ELSE Answer[o - Len(heap)]
    BY <1>1, ConcatProperties
  <2>2. ASSUME NEW o \in 1 .. Len(heap) + n, ~ (o <= Len(heap))
        PROVE  o - Len(heap) \in 1 .. n
    BY <1>1, <2>2
  <2> QED
    BY <1>1, <1>2, <1>3, <2>1, <2>2
<1>5. nodes' = nodes
  BY DEF PucksArrive
<1> QED
  BY <1>4, <1>5, NowFacts DEF Real

(* No click and no answer records "All" as the period of a puck: recording *)
(* is only possible once the selector has a period again.  What is left is *)
(* a further sign-in with "All" selected, which runs old callbacks.        *)
THEOREM PeriodsStayReal == Patient /\ Spec => PeriodsAreReal
<1> SUFFICES ASSUME Patient PROVE Spec => PeriodsAreReal
  OBVIOUS
<1>1. ASSUME First, [Next]_vars, NoneIsAll
      PROVE  NoneIsAll' \/ (SignIn /\ signIns > 0 /\ mode = "view" /\ period = All)
  <2>1. PageTypes /\ PageTypes' /\ Real(Now) /\ signIns \in Nat
    <3>1. PageTypes
      BY <1>1 DEF First
    <3> QED
      BY <1>1, <3>1, TypesNext, NoneIsReal, GameTrackerAssumption DEF PageTypes
  <2>2. ASSUME Real(Now') PROVE NoneIsAll'
    <3>1. heap' \in Seq(Objects) /\ nodes' = [game |-> nodes'["game"], undefined |-> nodes'["undefined"]]
      BY <2>1, NowFacts DEF PageTypes, StateType
    <3>2. DOMAIN heap' = 1 .. Len(heap') /\ DOMAIN nodes' = {"game", "undefined"}
      BY <3>1
    <3> QED
      BY <2>2, <3>2, NowFacts DEF NoneIsAll, Real, RealNode
  <2>3. CASE UNCHANGED <<heap, nodes>>
    BY <1>1, <2>3 DEF NoneIsAll
  <2>4. CASE \/ \E pos \in Positions : CanvasSkate(pos) \/ CanvasPass(pos)
             \/ \E type \in Outcomes : OutcomeButton(type)
             \/ SameSequence
             \/ UndoButton
             \/ DeadButton
    BY <2>1, <2>2, <2>4, ClickReal
  <2>5. CASE PucksArrive
    BY <2>1, <2>2, <2>5, ArriveReal
  <2>6. CASE SignIn
    <3>1. CASE period # All
      <4>1. Keeps(Now, Now')
        BY <2>1, <2>6, SignInKeeps
      <4> QED
        BY <2>1, <2>2, <3>1, <4>1 DEF Keeps
    <3>2. CASE period = All /\ signIns = 0
      <4>1. callbacks = <<Load>>
        BY <1>1, <3>2 DEF First, Unread
      <4>2. Now' = Run(Now, Load)
        BY <2>1, <2>6, <4>1, SignInKeeps, RunOne
      <4>3. heap' = heap /\ nodes' = nodes
        BY <2>1, <4>2, LoadFacts, NowFacts DEF PageTypes
      <4> QED
        BY <2>3, <4>3
    <3>3. CASE period = All /\ signIns # 0
      <4>1. signIns > 0
        BY <2>1, <3>3
      <4>2. mode = "view"
        BY <2>1, <3>3, GameTrackerAssumption DEF PageTypes
      <4> QED
        BY <2>6, <3>3, <4>1, <4>2
    <3> QED
      BY <3>1, <3>2, <3>3
  <2>7. ASSUME ViewShots \/ TrackShots \/ (\E p \in Periods \cup {All} : SelectPeriod(p))
                 \/ SignOut \/ GameArrives \/ RequestFails \/ UNCHANGED vars
        PROVE  UNCHANGED <<heap, nodes>>
    BY <2>7 DEF ViewShots, TrackShots, SelectPeriod, SignOut, GameArrives, RequestFails, store, vars
  <2> QED
    BY <1>1, <2>3, <2>4, <2>5, <2>6, <2>7 DEF Next, UserStep
<1>2. First /\ [Next]_vars =>
          [NoneIsAll => NoneIsAll' \/ (SignIn /\ signIns > 0 /\ mode = "view" /\ period = All)]_vars
  BY <1>1
<1> QED
  BY <1>2, FirstAlways, PTL DEF Spec, PeriodsAreReal

(* No click, and no dead sequence of any length, takes, retypes or         *)
(* overwrites a puck of a closed sequence that another puck follows.       *)
THEOREM ClosedSequencesStay == Patient /\ Spec => ClosedSequencesKept
<1> SUFFICES ASSUME Patient PROVE Spec => ClosedSequencesKept
  OBVIOUS
<1> DEFINE Fine ==
      \A i, j \in DOMAIN currentPucks :
          i <= j /\ i < Len(currentPucks) /\ Listed(j).newSequenceBool = TRUE =>
              /\ i - 1 \in DOMAIN nodes'["game"]
              /\ nodes'["game"][i - 1] = nodes["game"][i - 1]
<1>1. ASSUME First, [Next]_vars, Ready, signIns = 1
      PROVE  Fine
  <2>1. Loaded /\ PageTypes
    BY <1>1, ReadyIsRead DEF First
  <2>2. /\ Len(currentPucks) \in Nat /\ DOMAIN currentPucks = 1 .. Len(currentPucks)
        /\ DOMAIN nodes["game"] = 0 .. Len(currentPucks) - 1
    <3>1. currentPucks \in Seq(1 .. Len(heap))
      BY <2>1, NowFacts DEF PageTypes, StateType
    <3>2. DOMAIN nodes["game"] = 0 .. Len(currentPucks) - 1
      BY <2>1, NowFacts DEF Loaded, Mirrored
    <3> QED
      BY <3>1, <3>2
  <2>3. CASE nodes' = nodes
    <3>1. ASSUME NEW i \in DOMAIN currentPucks PROVE i - 1 \in DOMAIN nodes["game"]
      BY <2>2
    <3> QED
      BY <2>3, <3>1
  <2>4. CASE \/ \E pos \in Positions : CanvasSkate(pos) \/ CanvasPass(pos)
             \/ \E type \in Outcomes : OutcomeButton(type)
             \/ SameSequence
             \/ UndoButton
             \/ DeadButton
    <3>1. PICK m \in Int :
            /\ Kept(m)
            /\ \A i, j \in 1 .. Len(currentPucks) :
                  i <= j /\ i < Len(currentPucks) /\ Listed(j).newSequenceBool = TRUE
                     => i <= m
      BY <2>1, <2>4, ClickKeeps
    <3>2. ASSUME NEW i \in 1 .. Len(currentPucks), i <= m
          PROVE  /\ i - 1 \in DOMAIN nodes'["game"]
                 /\ nodes'["game"][i - 1] = nodes["game"][i - 1]
      <4>1. i - 1 \in 0 .. m - 1
        BY <2>2, <3>2
      <4> QED
        BY <3>1, <4>1, NowFacts DEF Kept, Stay
    <3> QED
      BY <2>2, <3>1, <3>2
  <2>5. \/ nodes' = nodes
        \/ \E pos \in Positions : CanvasSkate(pos) \/ CanvasPass(pos)
        \/ \E type \in Outcomes : OutcomeButton(type)
        \/ SameSequence
        \/ UndoButton
        \/ DeadButton
    <3>1. CASE UNCHANGED vars
      BY <3>1 DEF vars
    <3>2. ~SignIn /\ ~RequestFails
      BY <1>1 DEF SignIn, RequestFails, Ready
    <3>3. ViewShots \/ TrackShots \/ (\E p \in Periods \cup {All} : SelectPeriod(p))
             => nodes' = nodes
      BY DEF ViewShots, TrackShots, SelectPeriod
    <3>4. SignOut \/ GameArrives \/ PucksArrive => nodes' = nodes
      BY DEF SignOut, GameArrives, PucksArrive, store
    <3> QED
      BY <1>1, <3>1, <3>2, <3>3, <3>4 DEF Next, UserStep
  <2> QED
    BY <2>3, <2>4, <2>5
<1>2. First /\ [Next]_vars =>
             [Ready /\ signIns = 1 =>
                   \A i, j \in DOMAIN currentPucks :
                       i <= j /\ i < Len(currentPucks) /\ Listed(j).newSequenceBool = TRUE =>
                           /\ i - 1 \in DOMAIN nodes'["game"]
                           /\ nodes'["game"][i - 1] = nodes["game"][i - 1]]_vars
  BY <1>1
<1> QED
  BY <1>2, FirstAlways, PTL DEF Spec, ClosedSequencesKept
=============================================================================
