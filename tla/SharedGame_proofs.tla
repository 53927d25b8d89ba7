-------------------------- MODULE SharedGame_proofs --------------------------
(***************************************************************************)
(* Theorems about one game recorded on several devices, for any number of  *)
(* devices, taps, lost connections and ended apps.                         *)
(***************************************************************************)
EXTENDS SharedGame, Pucks_proofs

----------------------------------------------------------------------------
(* Writes on top of a node. *)

(* Layered is the last of the nodes that the writes go through. *)
LEMMA LayeredSteps ==
  ASSUME NEW x \in Node, NEW ws \in Seq(Writes)
  PROVE  \E h \in [0 .. Len(ws) -> Node] :
            /\ h[0] = x
            /\ \A i \in 1 .. Len(ws) : h[i] = Apply(h[i - 1], ws[i])
            /\ Layered(x, ws) = h[Len(ws)]
<1> DEFINE Sat(h, n) == /\ h \in [0 .. n -> Node]
                        /\ h[0] = x
                        /\ \A i \in 1 .. n : h[i] = Apply(h[i - 1], ws[i])
           S == {n \in Nat : \E h : Sat(h, n)}
<1>0. Len(ws) \in Nat /\ \A i \in 1 .. Len(ws) : ws[i] \in Writes
  OBVIOUS
<1>1. 0 \in S
  <2> DEFINE h == [i \in 0 .. 0 |-> x]
  <2>1. Sat(h, 0)
    OBVIOUS
  <2> QED
    BY <2>1
<1>2. ASSUME NEW n \in 1 .. Len(ws), n - 1 \in S
      PROVE  n \in S
  <2>1. n \in Nat /\ n - 1 \in Nat /\ n # 0
    BY <1>0
  <2>2. PICK g : Sat(g, n - 1)
    BY <1>2
  <2> DEFINE y == Apply(g[n - 1], ws[n])
             h == [i \in 0 .. n |-> IF i = n THEN y ELSE g[i]]
  <2>3. y \in Node
    <3>1. g[n - 1] \in Node
      BY <2>1, <2>2
    <3> QED
      BY <1>0, <3>1, ApplyType
  <2> HIDE DEF y
  <2>4. h \in [0 .. n -> Node] /\ h[0] = x
    BY <2>1, <2>2, <2>3
  <2>5. ASSUME NEW i \in 1 .. n PROVE h[i] = Apply(h[i - 1], ws[i])
    <3>1. CASE i = n
      <4>1. h[i] = y /\ h[i - 1] = g[n - 1]
        BY <2>1, <3>1
      <4> QED
        BY <3>1, <4>1 DEF y
    <3>2. CASE i # n
      <4>1. i \in 1 .. n - 1 /\ i \in 0 .. n /\ i - 1 \in 0 .. n /\ i - 1 # n
        BY <2>1, <3>2
      <4> QED
        BY <2>2, <3>2, <4>1
    <3> QED
      BY <3>1, <3>2
  <2>6. Sat(h, n)
    BY <2>4, <2>5
  <2> QED
    BY <2>1, <2>6
<1>3. Len(ws) \in S
  <2>1. \A n \in 1 .. Len(ws) : n - 1 \in S => n \in S
    BY <1>2
  <2>2. Len(ws) \in 0 .. Len(ws)
    BY <1>0
  <2> HIDE DEF S
  <2> QED
    BY <1>0, <1>1, <2>1, <2>2, UpTo
<1>4. PICK h : Sat(h, Len(ws))
  BY <1>3
<1> DEFINE Is(g) == g = [i \in 0 .. Len(ws) |-> IF i = 0 THEN x ELSE Apply(g[i - 1], ws[i])]
<1>5. Is(h)
  BY <1>0, <1>4
<1>6. ASSUME NEW g, Is(g)
      PROVE  g = h
  <2> DEFINE R == {i \in 0 .. Len(ws) : g[i] = h[i]}
  <2>1. 0 \in R
    BY <1>0, <1>4, <1>6
  <2>2. ASSUME NEW i \in 1 .. Len(ws), i - 1 \in R PROVE i \in R
    <3>1. i \in 0 .. Len(ws) /\ i # 0
      BY <1>0
    <3>2. g[i] = Apply(g[i - 1], ws[i]) /\ h[i] = Apply(h[i - 1], ws[i])
      BY <1>4, <1>6, <3>1
    <3> QED
      BY <2>2, <3>1, <3>2
  <2>3. \A i \in 0 .. Len(ws) : i \in R
    <3> HIDE DEF R
    <3> QED
      BY <1>0, <2>1, <2>2, UpTo
  <2>4. \A i \in 0 .. Len(ws) : g[i] = h[i]
    BY <2>3
  <2>5. DOMAIN g = 0 .. Len(ws) /\ g = [i \in DOMAIN g |-> g[i]]
    BY <1>6
  <2> QED
    BY <1>4, <2>4, <2>5
<1>7. Layered(x, ws) = h[Len(ws)]
  <2>1. (CHOOSE g : Is(g)) = h
    <3> HIDE DEF Is
    <3> QED
      BY <1>5, <1>6
  <2> QED
    BY <2>1 DEF Layered
<1> QED
  BY <1>4, <1>7

LEMMA LayeredType ==
  ASSUME NEW x \in Node, NEW ws \in Seq(Writes)
  PROVE  Layered(x, ws) \in Node
<1>1. Len(ws) \in 0 .. Len(ws)
  OBVIOUS
<1> QED
  BY <1>1, LayeredSteps

(* No writes leave the node as it is. *)
LEMMA LayeredEmpty ==
  ASSUME NEW x \in Node
  PROVE  Layered(x, <<>>) = x
<1> DEFINE e == <<>>
<1>1. e \in Seq(Writes) /\ Len(e) = 0
  OBVIOUS
<1> HIDE DEF e
<1>2. \E h \in [0 .. Len(e) -> Node] :
         /\ h[0] = x
         /\ \A i \in 1 .. Len(e) : h[i] = Apply(h[i - 1], e[i])
         /\ Layered(x, e) = h[Len(e)]
  BY <1>1, LayeredSteps
<1>3. Layered(x, e) = x
  BY <1>1, <1>2
<1> QED
  BY <1>3 DEF e

(* Writes are layered one after the other. *)
LEMMA LayeredConcat ==
  ASSUME NEW x \in Node, NEW vs \in Seq(Writes), NEW ws \in Seq(Writes)
  PROVE  Layered(x, vs \o ws) = Layered(Layered(x, vs), ws)
<1> DEFINE us == vs \o ws
<1>1. PICK m \in Nat, n \in Nat :
         /\ m = Len(vs) /\ n = Len(ws)
         /\ us \in Seq(Writes) /\ Len(us) = m + n
         /\ \A i \in 1 .. m : us[i] = vs[i]
         /\ \A i \in 1 .. n : us[m + i] = ws[i]
  BY ConcatProperties
<1>2. PICK f \in [0 .. m -> Node] : /\ f[0] = x
                                    /\ \A i \in 1 .. m : f[i] = Apply(f[i - 1], vs[i])
                                    /\ Layered(x, vs) = f[m]
  BY <1>1, LayeredSteps
<1>3. PICK y \in Node : y = Layered(x, vs)
  BY LayeredType
<1>4. PICK g \in [0 .. n -> Node] : /\ g[0] = y
                                    /\ \A i \in 1 .. n : g[i] = Apply(g[i - 1], ws[i])
                                    /\ Layered(y, ws) = g[n]
  BY <1>1, LayeredSteps
<1> HIDE DEF us
<1>5. PICK h \in [0 .. Len(us) -> Node] : /\ h[0] = x
                                          /\ \A i \in 1 .. Len(us) : h[i] = Apply(h[i - 1], us[i])
                                          /\ Layered(x, us) = h[Len(us)]
  BY <1>1, LayeredSteps
<1>6. \A i \in 0 .. m : h[i] = f[i]
  <2> DEFINE S == {i \in 0 .. m : h[i] = f[i]}
  <2>1. 0 \in S
    BY <1>2, <1>5
  <2>2. ASSUME NEW i \in 1 .. m, i - 1 \in S PROVE i \in S
    <3>1. i \in 0 .. m /\ i \in 1 .. m + n
      OBVIOUS
    <3>2. h[i] = Apply(h[i - 1], us[i]) /\ f[i] = Apply(f[i - 1], vs[i]) /\ us[i] = vs[i]
      BY <1>1, <1>2, <1>5, <3>1
    <3> QED
      BY <2>2, <3>1, <3>2
  <2>3. \A i \in 0 .. m : i \in S
    <3> HIDE DEF S
    <3> QED
      BY <2>1, <2>2, UpTo
  <2> QED
    BY <2>3
<1>7. \A i \in 0 .. n : h[m + i] = g[i]
  <2> DEFINE S == {i \in 0 .. n : h[m + i] = g[i]}
  <2>1. 0 \in S
    <3>1. m \in 0 .. m /\ m + 0 = m /\ 0 \in 0 .. n
      OBVIOUS
    <3> QED
      BY <1>2, <1>3, <1>4, <1>6, <3>1
  <2>2. ASSUME NEW i \in 1 .. n, i - 1 \in S PROVE i \in S
    <3>1. i \in 0 .. n /\ m + i \in 1 .. m + n /\ (m + i) - 1 = m + (i - 1)
      OBVIOUS
    <3>2. /\ h[m + i] = Apply(h[(m + i) - 1], us[m + i])
          /\ g[i] = Apply(g[i - 1], ws[i])
          /\ us[m + i] = ws[i]
      BY <1>1, <1>4, <1>5, <3>1
    <3> QED
      BY <2>2, <3>1, <3>2
  <2>3. \A i \in 0 .. n : i \in S
    <3> HIDE DEF S
    <3> QED
      BY <2>1, <2>2, UpTo
  <2> QED
    BY <2>3
<1>8. h[Len(us)] = g[n]
  <2>1. n \in 0 .. n
    OBVIOUS
  <2>2. h[m + n] = g[n]
    BY <1>7, <2>1
  <2> QED
    BY <1>1, <2>2
<1> QED
  BY <1>3, <1>4, <1>5, <1>8 DEF us

LEMMA LayeredOne ==
  ASSUME NEW x \in Node, NEW w \in Writes
  PROVE  Layered(x, <<w>>) = Apply(x, w)
<1> DEFINE o == <<w>>
<1>1. o \in Seq(Writes) /\ Len(o) = 1 /\ o[1] = w
  OBVIOUS
<1> HIDE DEF o
<1>0. \E h \in [0 .. Len(o) -> Node] :
         /\ h[0] = x
         /\ \A i \in 1 .. Len(o) : h[i] = Apply(h[i - 1], o[i])
         /\ Layered(x, o) = h[Len(o)]
  BY <1>1, LayeredSteps
<1>2. PICK h \in [0 .. Len(o) -> Node] :
         /\ h[0] = x
         /\ \A i \in 1 .. Len(o) : h[i] = Apply(h[i - 1], o[i])
         /\ Layered(x, o) = h[Len(o)]
  BY <1>0
<1>3. h[1] = Apply(h[1 - 1], o[1]) /\ 1 - 1 = 0
  BY <1>1, <1>2
<1> QED
  BY <1>1, <1>2, <1>3 DEF o

(* The first write, then the others. *)
LEMMA LayeredFirst ==
  ASSUME NEW x \in Node, NEW ws \in Seq(Writes), ws # <<>>
  PROVE  /\ ws[1] \in Writes /\ Tail(ws) \in Seq(Writes)
         /\ Layered(x, ws) = Layered(Apply(x, ws[1]), Tail(ws))
<1>1. /\ ws[1] \in Writes /\ Tail(ws) \in Seq(Writes) /\ <<ws[1]>> \in Seq(Writes)
      /\ ws = <<ws[1]>> \o Tail(ws)
  BY FirstAndRest
<1>2. Layered(x, <<ws[1]>> \o Tail(ws)) = Layered(Layered(x, <<ws[1]>>), Tail(ws))
  BY <1>1, LayeredConcat
<1>3. Layered(x, <<ws[1]>>) = Apply(x, ws[1])
  BY <1>1, LayeredOne
<1> QED
  BY <1>1, <1>2, <1>3

----------------------------------------------------------------------------
(* A handler's writes, heard of one by one. *)

Heard(st, w) ==
    LET new == Apply(st.view, w)
    IN  [view |-> new, list |-> Hear(st.list, st.view, new)]

LEMMA AfterSteps ==
  ASSUME NEW d \in Devices, NEW s, NEW ws \in Seq(Writes)
  PROVE  \E h : /\ h[0] = [view |-> View(d), list |-> s]
                /\ \A i \in 1 .. Len(ws) : h[i] = Heard(h[i - 1], ws[i])
                /\ AfterWrites(d, s, ws) = h[Len(ws)]
<1> DEFINE first == [view |-> View(d), list |-> s]
           Sat(h, n) == /\ h = [i \in 0 .. n |-> h[i]]
                        /\ h[0] = first
                        /\ \A i \in 1 .. n : h[i] = Heard(h[i - 1], ws[i])
           S == {n \in Nat : \E h : Sat(h, n)}
<1>0. Len(ws) \in Nat
  OBVIOUS
<1> HIDE DEF first
<1>1. 0 \in S
  <2> DEFINE h == [i \in 0 .. 0 |-> first]
  <2>1. Sat(h, 0)
    OBVIOUS
  <2> QED
    BY <2>1
<1>2. ASSUME NEW n \in 1 .. Len(ws), n - 1 \in S
      PROVE  n \in S
  <2>1. n \in Nat /\ n - 1 \in Nat /\ n # 0
    BY <1>0
  <2>2. PICK g : Sat(g, n - 1)
    BY <1>2
  <2> DEFINE y == Heard(g[n - 1], ws[n])
             h == [i \in 0 .. n |-> IF i = n THEN y ELSE g[i]]
  <2> HIDE DEF y
  <2>3. h = [i \in 0 .. n |-> h[i]] /\ h[0] = first
    BY <2>1, <2>2
  <2>4. ASSUME NEW i \in 1 .. n PROVE h[i] = Heard(h[i - 1], ws[i])
    <3>1. CASE i = n
      <4>1. h[i] = y /\ h[i - 1] = g[n - 1]
        BY <2>1, <3>1
      <4> QED
        BY <3>1, <4>1 DEF y
    <3>2. CASE i # n
      <4>1. i \in 1 .. n - 1 /\ i \in 0 .. n /\ i - 1 \in 0 .. n /\ i - 1 # n
        BY <2>1, <3>2
      <4> QED
        BY <2>2, <3>2, <4>1
    <3> QED
      BY <3>1, <3>2
  <2>5. Sat(h, n)
    BY <2>3, <2>4
  <2> QED
    BY <2>1, <2>5
<1>3. Len(ws) \in S
  <2>1. \A n \in 1 .. Len(ws) : n - 1 \in S => n \in S
    BY <1>2
  <2>2. Len(ws) \in 0 .. Len(ws)
    BY <1>0
  <2> HIDE DEF S
  <2> QED
    BY <1>0, <1>1, <2>1, <2>2, UpTo
<1>4. PICK h : Sat(h, Len(ws))
  BY <1>3
<1> DEFINE Is(g) == g = [i \in 0 .. Len(ws) |-> IF i = 0 THEN first ELSE Heard(g[i - 1], ws[i])]
<1>5. Is(h)
  BY <1>0, <1>4
<1>6. ASSUME NEW g, Is(g)
      PROVE  g = h
  <2> DEFINE R == {i \in 0 .. Len(ws) : g[i] = h[i]}
  <2>1. 0 \in R
    BY <1>0, <1>4, <1>6
  <2>2. ASSUME NEW i \in 1 .. Len(ws), i - 1 \in R PROVE i \in R
    <3>1. i \in 0 .. Len(ws) /\ i # 0
      BY <1>0
    <3>2. g[i] = Heard(g[i - 1], ws[i]) /\ h[i] = Heard(h[i - 1], ws[i])
      BY <1>4, <1>6, <3>1
    <3> QED
      BY <2>2, <3>1, <3>2
  <2>3. \A i \in 0 .. Len(ws) : i \in R
    <3> HIDE DEF R
    <3> QED
      BY <1>0, <2>1, <2>2, UpTo
  <2>4. \A i \in 0 .. Len(ws) : g[i] = h[i]
    BY <2>3
  <2>5. g = [i \in 0 .. Len(ws) |-> g[i]]
    BY <1>6
  <2> QED
    BY <1>4, <2>4, <2>5
<1>7. AfterWrites(d, s, ws) = h[Len(ws)]
  <2>1. (CHOOSE g : Is(g)) = h
    <3> HIDE DEF Is
    <3> QED
      BY <1>5, <1>6
  <2> QED
    BY <2>1 DEF AfterWrites, Heard, first
<1> QED
  BY <1>4, <1>7 DEF first

(* A list shows a node that is not empty and has no gap. *)
Shown(s, x) == Present(x) = {} \/ ~WellFormed(x) \/ s = Children(x)

(* The device shows the node with the writes on top; the list is a list of *)
(* pucks, and it shows the node if the one before did or the first write   *)
(* changed the node.                                                       *)
LEMMA AfterFacts ==
  ASSUME NEW d \in Devices, View(d) \in Node, NEW s \in PuckLists, NEW ws \in Seq(Writes)
  PROVE  LET after == AfterWrites(d, s, ws)
         IN  /\ after.view = Layered(View(d), ws)
             /\ after.list \in PuckLists
             /\ Shown(s, View(d)) \/ (ws # <<>> /\ Apply(View(d), ws[1]) # View(d))
                   => Shown(after.list, after.view)
<1> DEFINE n == Len(ws)
           x == View(d)
<1>1. PICK h : /\ h[0] = [view |-> x, list |-> s]
               /\ \A i \in 1 .. n : h[i] = Heard(h[i - 1], ws[i])
               /\ AfterWrites(d, s, ws) = h[n]
  BY AfterSteps
<1>2. PICK g \in [0 .. n -> Node] : /\ g[0] = x
                                    /\ \A i \in 1 .. n : g[i] = Apply(g[i - 1], ws[i])
                                    /\ Layered(x, ws) = g[n]
  BY LayeredSteps
<1>3. n \in Nat
  OBVIOUS
<1> HIDE DEF n, x
<1>4. ASSUME NEW i \in 1 .. n, NEW y \in Node, h[i - 1].view = y
      PROVE  LET new == Apply(y, ws[i])
             IN  /\ h[i].view = new
                 /\ h[i].list = Hear(h[i - 1].list, y, new)
  <2>1. h[i] = Heard(h[i - 1], ws[i])
    BY <1>1
  <2> QED
    BY <1>4, <2>1 DEF Heard
<1>5. \A i \in 0 .. n : h[i].view = g[i]
  <2> DEFINE S == {i \in 0 .. n : h[i].view = g[i]}
  <2>1. 0 \in S
    BY <1>1, <1>2, <1>3
  <2>2. ASSUME NEW i \in 1 .. n, i - 1 \in S PROVE i \in S
    <3>1. i \in 0 .. n /\ i - 1 \in 0 .. n /\ g[i - 1] \in Node /\ h[i - 1].view = g[i - 1]
      BY <1>2, <1>3, <2>2
    <3> QED
      BY <1>2, <1>4, <3>1
  <2>3. \A i \in 0 .. n : i \in S
    <3> HIDE DEF S
    <3> QED
      BY <1>3, <2>1, <2>2, UpTo
  <2> QED
    BY <2>3
<1>6. ASSUME NEW i \in 1 .. n
      PROVE  h[i].list = Hear(h[i - 1].list, g[i - 1], g[i])
  <2>1. i \in 0 .. n /\ i - 1 \in 0 .. n
    BY <1>3
  <2> QED
    BY <1>2, <1>4, <1>5, <2>1
<1>7. \A i \in 0 .. n : h[i].list \in PuckLists
  <2> DEFINE S == {i \in 0 .. n : h[i].list \in PuckLists}
  <2>1. 0 \in S
    BY <1>1, <1>2, <1>3
  <2>2. ASSUME NEW i \in 1 .. n, i - 1 \in S PROVE i \in S
    <3>1. i \in 0 .. n /\ i - 1 \in 0 .. n
      BY <1>3
    <3>2. Whole(g[i]) => Children(g[i]) \in PuckLists
      BY <1>2, <3>1, ChildrenType
    <3> QED
      BY <1>6, <2>2, <3>1, <3>2 DEF Hear
  <2>3. \A i \in 0 .. n : i \in S
    <3> HIDE DEF S
    <3> QED
      BY <1>3, <2>1, <2>2, UpTo
  <2> QED
    BY <2>3
<1>8. ASSUME NEW i \in 1 .. n, Shown(h[i - 1].list, g[i - 1]) \/ g[i] # g[i - 1]
      PROVE  Shown(h[i].list, g[i])
  <2>1. h[i].list = Hear(h[i - 1].list, g[i - 1], g[i])
    BY <1>6
  <2> QED
    BY <1>8, <2>1 DEF Hear, Shown, WellFormed
<1>9. ASSUME Shown(s, x) \/ (ws # <<>> /\ Apply(x, ws[1]) # x)
      PROVE  Shown(h[n].list, g[n])
  <2> DEFINE S == {i \in 0 .. n : (i = 0 /\ ~Shown(s, x)) \/ Shown(h[i].list, g[i])}
  <2>1. 0 \in S
    BY <1>1, <1>2, <1>3
  <2>2. ASSUME NEW i \in 1 .. n, i - 1 \in S PROVE i \in S
    <3>1. i \in 0 .. n /\ i - 1 \in 0 .. n
      BY <1>3
    <3>2. Shown(h[i - 1].list, g[i - 1]) \/ g[i] # g[i - 1]
      <4>1. CASE i - 1 = 0 /\ ~Shown(s, x)
        <5>1. i = 1 /\ g[1 - 1] = x /\ 1 - 1 = 0
          BY <1>2, <1>3, <4>1
        <5> QED
          BY <1>2, <1>9, <4>1, <5>1
      <4> QED
        BY <2>2, <4>1
    <3> QED
      BY <1>8, <3>1, <3>2
  <2>3. \A i \in 0 .. n : i \in S
    <3> HIDE DEF S
    <3> QED
      BY <1>3, <2>1, <2>2, UpTo
  <2>4. n \in S /\ (n = 0 => Shown(s, x))
    <3>1. n = 0 => ws = <<>>
      BY EmptySeq DEF n
    <3> HIDE DEF S
    <3> QED
      BY <1>3, <1>9, <2>3, <3>1
  <2> QED
    BY <2>4
<1>10. n \in 0 .. n
  BY <1>3
<1> QED
  BY <1>1, <1>2, <1>5, <1>7, <1>9, <1>10 DEF x

----------------------------------------------------------------------------
(* Acknowledgements in a device's inbox. *)

Messages == [node : Node, own : BOOLEAN]

(* How many of the first i messages answer a write of the device. *)
OwnIn(q, i) == Cardinality({k \in 1 .. i : q[k].own})

One(own) == IF own THEN 1 ELSE 0

LEMMA OwnType ==
  ASSUME NEW q, NEW i \in Nat
  PROVE  OwnIn(q, i) \in Nat /\ IsFiniteSet({k \in 1 .. i : q[k].own})
<1>1. {k \in 1 .. i : q[k].own} \in SUBSET (1 .. i)
  OBVIOUS
<1>2. IsFiniteSet(1 .. i)
  BY FS_Interval
<1> QED
  BY <1>1, <1>2, FS_Subset, FS_CardinalityType DEF OwnIn

LEMMA OwnNone ==
  ASSUME NEW q
  PROVE  OwnIn(q, 0) = 0
<1>1. {k \in 1 .. 0 : q[k].own} = {}
  OBVIOUS
<1> QED
  BY <1>1, FS_EmptySet DEF OwnIn

LEMMA OwnNext ==
  ASSUME NEW q, NEW i \in Nat \ {0}
  PROVE  OwnIn(q, i) = OwnIn(q, i - 1) + One(q[i].own)
<1> DEFINE A(j) == {k \in 1 .. j : q[k].own}
<1>1. i - 1 \in Nat /\ i \notin 1 .. i - 1 /\ 1 .. i = (1 .. i - 1) \cup {i}
  OBVIOUS
<1>2. IsFiniteSet(A(i - 1)) /\ i \notin A(i - 1) /\ Cardinality(A(i - 1)) \in Nat
  BY <1>1, OwnType, FS_CardinalityType
<1>3. CASE q[i].own
  <2>1. A(i) = A(i - 1) \cup {i}
    BY <1>1, <1>3
  <2>2. Cardinality(A(i - 1) \cup {i}) = Cardinality(A(i - 1)) + 1
    <3> HIDE DEF A
    <3> QED
      BY <1>2, FS_AddElement
  <2> QED
    BY <1>3, <2>1, <2>2 DEF OwnIn, One
<1>4. CASE ~q[i].own
  <2>1. A(i) = A(i - 1)
    BY <1>1, <1>4
  <2>2. One(q[i].own) = 0
    BY <1>4 DEF One
  <2>3. Cardinality(A(i)) = Cardinality(A(i - 1)) + 0
    <3> HIDE DEF A
    <3> QED
      BY <1>2, <2>1
  <2> QED
    BY <2>2, <2>3 DEF OwnIn
<1> QED
  BY <1>3, <1>4

LEMMA OwnFirst ==
  ASSUME NEW q
  PROVE  OwnIn(q, 1) = One(q[1].own)
<1>1. OwnIn(q, 1) = OwnIn(q, 1 - 1) + One(q[1].own) /\ 1 - 1 = 0
  BY OwnNext
<1>2. OwnIn(q, 0) = 0 /\ One(q[1].own) \in Nat
  BY OwnNone DEF One
<1> QED
  BY <1>1, <1>2

LEMMA OwnSame ==
  ASSUME NEW q, NEW r, NEW i \in Nat, \A k \in 1 .. i : q[k] = r[k]
  PROVE  OwnIn(q, i) = OwnIn(r, i)
<1>1. {k \in 1 .. i : q[k].own} = {k \in 1 .. i : r[k].own}
  OBVIOUS
<1> QED
  BY <1>1 DEF OwnIn

(* Taken counts the messages of the whole inbox. *)
LEMMA TakenIsOwn ==
  ASSUME NEW d \in Devices, inbox[d] \in Seq(Messages)
  PROVE  Taken(d) = OwnIn(inbox[d], Len(inbox[d])) /\ Taken(d) \in Nat
<1>1. DOMAIN inbox[d] = 1 .. Len(inbox[d]) /\ Len(inbox[d]) \in Nat
  OBVIOUS
<1> QED
  BY <1>1, OwnType DEF Taken, OwnIn

(* More of them are own the further one counts. *)
LEMMA OwnGrows ==
  ASSUME NEW q, NEW n \in Nat, NEW i \in 0 .. n
  PROVE  OwnIn(q, i) <= OwnIn(q, n)
<1> DEFINE A == {k \in 1 .. i : q[k].own}
           B == {k \in 1 .. n : q[k].own}
<1>1. A \in SUBSET B
  OBVIOUS
<1>2. IsFiniteSet(B)
  BY OwnType
<1>3. Cardinality(A) <= Cardinality(B)
  <2> HIDE DEF A, B
  <2> QED
    BY <1>1, <1>2, FS_Subset
<1> QED
  BY <1>3 DEF OwnIn

(* A message at the end, and the first one gone. *)
LEMMA OwnAppend ==
  ASSUME NEW q \in Seq(Messages), NEW m \in Messages
  PROVE  /\ Append(q, m) \in Seq(Messages)
         /\ Len(Append(q, m)) = Len(q) + 1 /\ Append(q, m)[Len(q) + 1] = m
         /\ \A i \in 1 .. Len(q) : Append(q, m)[i] = q[i]
         /\ \A i \in 0 .. Len(q) : OwnIn(Append(q, m), i) = OwnIn(q, i)
         /\ OwnIn(Append(q, m), Len(q) + 1) = OwnIn(q, Len(q)) + One(m.own)
<1> DEFINE r == Append(q, m)
           n == Len(q)
<1>1. /\ r \in Seq(Messages) /\ n \in Nat /\ Len(r) = n + 1 /\ r[n + 1] = m
      /\ \A i \in 1 .. n : r[i] = q[i]
  BY AppendProperties
<1> HIDE DEF r, n
<1>2. ASSUME NEW i \in 0 .. n PROVE OwnIn(r, i) = OwnIn(q, i)
  <2>1. i \in Nat /\ \A k \in 1 .. i : r[k] = q[k]
    BY <1>1
  <2> QED
    BY <2>1, OwnSame
<1>3. OwnIn(r, n + 1) = OwnIn(r, n) + One(m.own)
  <2>1. n + 1 \in Nat \ {0} /\ (n + 1) - 1 = n
    BY <1>1
  <2>2. OwnIn(r, n + 1) = OwnIn(r, (n + 1) - 1) + One(r[n + 1].own)
    BY <2>1, OwnNext
  <2> QED
    BY <1>1, <2>1, <2>2
<1>4. n \in 0 .. n
  BY <1>1
<1> QED
  BY <1>1, <1>2, <1>3, <1>4 DEF r, n

LEMMA OwnTail ==
  ASSUME NEW q \in Seq(Messages), q # <<>>
  PROVE  /\ Tail(q) \in Seq(Messages) /\ Len(q) \in Nat \ {0} /\ Len(Tail(q)) = Len(q) - 1
         /\ q[1] \in Messages /\ Head(q) = q[1]
         /\ \A i \in 1 .. Len(Tail(q)) : Tail(q)[i] = q[i + 1]
         /\ \A i \in 0 .. Len(Tail(q)) : OwnIn(q, i + 1) = OwnIn(Tail(q), i) + One(q[1].own)
<1> DEFINE r == Tail(q)
           n == Len(r)
           o == One(q[1].own)
<1>1. /\ r \in Seq(Messages) /\ Len(q) \in Nat \ {0} /\ n = Len(q) - 1 /\ n \in Nat
      /\ q[1] \in Messages /\ Head(q) = q[1]
      /\ \A i \in 1 .. n : r[i] = q[i + 1]
  BY FirstAndRest
<1>2. o \in Nat
  BY DEF One
<1> DEFINE S == {i \in 0 .. n : OwnIn(q, i + 1) = OwnIn(r, i) + o}
<1> HIDE DEF r, n, o
<1>3. 0 \in S
  <2>1. OwnIn(q, 1) = OwnIn(q, 1 - 1) + One(q[1].own) /\ 1 - 1 = 0 /\ 0 + 1 = 1
    BY OwnNext
  <2>2. OwnIn(q, 0) = 0 /\ OwnIn(r, 0) = 0
    BY OwnNone
  <2> QED
    BY <1>1, <1>2, <2>1, <2>2 DEF o
<1>4. ASSUME NEW i \in 1 .. n, i - 1 \in S PROVE i \in S
  <2>1. i \in Nat \ {0} /\ i + 1 \in Nat \ {0} /\ (i + 1) - 1 = i /\ (i - 1) + 1 = i /\ i \in 0 .. n /\ i - 1 \in Nat
    BY <1>1
  <2>2. OwnIn(q, i + 1) = OwnIn(q, (i + 1) - 1) + One(q[i + 1].own)
    BY <2>1, OwnNext
  <2>3. OwnIn(r, i) = OwnIn(r, i - 1) + One(r[i].own)
    BY <2>1, OwnNext
  <2>4. OwnIn(q, (i - 1) + 1) = OwnIn(r, i - 1) + o
    BY <1>4
  <2>5. r[i] = q[i + 1]
    BY <1>1
  <2>6. OwnIn(r, i - 1) \in Nat /\ One(r[i].own) \in Nat
    BY <2>1, OwnType DEF One
  <2>7. OwnIn(q, i + 1) = OwnIn(r, i) + o
    BY <1>2, <2>1, <2>2, <2>3, <2>4, <2>5, <2>6
  <2> QED
    BY <2>1, <2>7
<1>5. \A i \in 0 .. n : i \in S
  <2> HIDE DEF S
  <2> QED
    BY <1>1, <1>3, <1>4, UpTo
<1>6. \A i \in 0 .. n : OwnIn(q, i + 1) = OwnIn(r, i) + o
  BY <1>5
<1> QED
  BY <1>1, <1>6 DEF r, n, o

----------------------------------------------------------------------------
(* Steps. *)

(* What a handler of d leaves behind: nothing new, a puck under the key    *)
(* after the last, a last puck turned into a skate, or writes that begin   *)
(* by removing the last key.                                               *)
Handled(d, s, ws) ==
    LET n == Len(pucks[d])
    IN  \/ takeBack /\ s = pucks[d] /\ ws = <<>>
        \/ n < MaxPucks /\ \E p \in PuckModel : ws = <<SetValue(n, p)>>
        \/ /\ n > 0
           /\ s = [pucks[d] EXCEPT ![n].shotType = "Skate"]
           /\ ws = <<UpdateChildValues(n - 1, "Skate")>>
        \/ takeBack /\ n > 0 /\ ws # <<>> /\ ws[1] = RemoveValue(n - 1)

(* A handler of d leaves list s and the writes ws. *)
Written(d, s, ws) ==
    /\ d \in writers /\ running[d] /\ synced[d]
    /\ Handled(d, s, ws)
    /\ pending' = [pending EXCEPT ![d] = @ \o ws]
    /\ pucks' = [pucks EXCEPT ![d] = AfterWrites(d, s, ws).list]
    /\ UNCHANGED <<users, server, running, online, synced, serverCache, inbox>>

(* d hears message m; rest is what still waits. *)
Received(d, m, rest) ==
    /\ inbox[d] # <<>>
    /\ m = Head(inbox[d])
    /\ rest = IF m.own THEN Tail(pending[d]) ELSE pending[d]
    /\ inbox' = [inbox EXCEPT ![d] = Tail(@)]
    /\ serverCache' = [serverCache EXCEPT ![d] = m.node]
    /\ pending' = [pending EXCEPT ![d] = rest]
    /\ synced' = [synced EXCEPT ![d] = TRUE]
    /\ pucks' = [pucks EXCEPT ![d] = Hear(@, View(d), Layered(m.node, rest))]
    /\ UNCHANGED <<users, server, running, online>>

LEMMA ListType ==
  ASSUME TypeOK, NEW d \in Devices
  PROVE  /\ pucks[d] \in PuckLists /\ pucks[d] \in Seq(PuckModel)
         /\ Len(pucks[d]) \in Nat /\ Len(pucks[d]) <= MaxPucks
         /\ MaxPucks \in Nat \ {0}
BY PucksAssumption DEF TypeOK, PuckLists

(* A tap is a handler that goes through, or its list is empty and it traps. *)
LEMMA UserSteps ==
  ASSUME TypeOK, NEW d \in Devices, UserStep(d)
  PROVE  Ends(d) \/ \E s \in PuckLists, ws \in Seq(Writes) : Written(d, s, ws)
<1> DEFINE n == Len(pucks[d])
<1>1. /\ pucks[d] \in PuckLists /\ pucks[d] \in Seq(PuckModel)
      /\ n \in Nat /\ n <= MaxPucks /\ MaxPucks \in Nat \ {0}
  BY ListType
<1>2. ASSUME NEW s \in PuckLists, NEW ws \in Seq(Writes), Tap(d), Edit(d, s, ws), Handled(d, s, ws)
      PROVE  Ends(d) \/ \E t \in PuckLists, us \in Seq(Writes) : Written(d, t, us)
  BY <1>2 DEF Tap, Edit, Written
<1>3. ASSUME NEW p \in PuckModel, Record(d, p)
      PROVE  Ends(d) \/ \E t \in PuckLists, us \in Seq(Writes) : Written(d, t, us)
  <2> DEFINE s == Append(pucks[d], p)
             ws == <<SetValue(n, p)>>
  <2>1. Tap(d) /\ n < MaxPucks /\ Edit(d, s, ws)
    BY <1>3 DEF Record
  <2>2. s \in PuckLists
    BY <1>1, <2>1, PuckListsAppend
  <2>3. SetValue(n, p) \in Writes
    BY <1>1, <2>1 DEF SetValue, Writes, Keys
  <2>4. ws \in Seq(Writes)
    BY <2>3
  <2>5. Handled(d, s, ws)
    BY <2>1 DEF Handled
  <2> QED
    BY <1>2, <2>1, <2>2, <2>4, <2>5
<1>4. ASSUME NEW pos \in Positions, TouchPass(d, pos)
      PROVE  Ends(d) \/ \E t \in PuckLists, us \in Seq(Writes) : Written(d, t, us)
  <2>1. Puck(pos, "Pass", d, FALSE) \in PuckModel
    BY PuckType DEF ShotTypes, Continuing, Devices
  <2> QED
    BY <1>3, <1>4, <2>1 DEF TouchPass
<1>5. ASSUME NEW pos \in Positions, NEW outcome \in Outcomes, ShotButton(d, pos, outcome)
      PROVE  Ends(d) \/ \E t \in PuckLists, us \in Seq(Writes) : Written(d, t, us)
  <2>1. Puck(pos, outcome, d, TRUE) \in PuckModel
    BY PuckType DEF ShotTypes, Devices
  <2> QED
    BY <1>3, <1>5, <2>1 DEF ShotButton
<1>6. ASSUME NEW pos \in Positions, TouchSkate(d, pos)
      PROVE  Ends(d) \/ \E t \in PuckLists, us \in Seq(Writes) : Written(d, t, us)
  <2> DEFINE s == [pucks[d] EXCEPT ![n].shotType = "Skate"]
             ws == <<UpdateChildValues(n - 1, "Skate")>>
  <2>1. Tap(d) /\ pucks[d] # <<>> /\ Edit(d, s, ws)
    BY <1>6 DEF TouchSkate, NearLast
  <2>2. n \in 1 .. n /\ n > 0 /\ n - 1 \in 0 .. MaxPucks - 1
    BY <1>1, <2>1
  <2>3. [pucks[d][n] EXCEPT !.shotType = "Skate"] \in PuckModel
    <3>1. pucks[d][n] \in PuckModel
      BY <1>1, <2>2
    <3> QED
      BY <3>1 DEF PuckModel, ShotTypes, Continuing
  <2>4. s = [pucks[d] EXCEPT ![n] = [pucks[d][n] EXCEPT !.shotType = "Skate"]]
    OBVIOUS
  <2>5. s \in PuckLists
    BY <1>1, <2>2, <2>3, <2>4, ExceptSeq DEF PuckLists
  <2>6. UpdateChildValues(n - 1, "Skate") \in Writes
    BY <2>2 DEF UpdateChildValues, Writes, Keys, ShotTypes, Continuing
  <2>7. ws \in Seq(Writes)
    BY <2>6
  <2>8. Handled(d, s, ws)
    BY <2>2 DEF Handled
  <2> QED
    BY <1>2, <2>1, <2>5, <2>7, <2>8
<1>7. ASSUME NEW pos \in Positions, SameSequence(d, pos)
      PROVE  Ends(d) \/ \E t \in PuckLists, us \in Seq(Writes) : Written(d, t, us)
  <2> DEFINE net   == Puck(Crease, "Same Sequence", d, FALSE)
             again == Puck(pos, "Same Sequence", d, FALSE)
             s     == SubSeq(pucks[d], 1, n - 1) \o <<net, again>>
             a     == RemoveValue(n - 1)
             b     == SetValue(n - 1, net)
             c     == SetValue(n, again)
             ws    == <<a, b, c>>
  <2>1. takeBack /\ Tap(d) /\ n \in 1 .. MaxPucks - 1 /\ Edit(d, s, ws)
    BY <1>7 DEF SameSequence
  <2>2. net \in PuckModel /\ again \in PuckModel
    BY PuckType, SharedGameAssumption DEF ShotTypes, Continuing, Devices
  <2> HIDE DEF net, again
  <2>3. n - 1 \in 0 .. n /\ n - 1 \in Nat /\ n > 0 /\ n + 1 <= MaxPucks /\ n + 1 \in Nat
        /\ n - 1 \in Keys /\ n \in Keys
    <3> HIDE DEF n
    <3> QED
      BY <1>1, <2>1 DEF Keys
  <2>4. /\ SubSeq(pucks[d], 1, n - 1) \in Seq(PuckModel)
        /\ Len(SubSeq(pucks[d], 1, n - 1)) = n - 1
    BY <1>1, <2>3, PuckListsSub DEF PuckLists
  <2>5. s \in Seq(PuckModel) /\ Len(s) = n + 1
    <3>1. <<net, again>> \in Seq(PuckModel) /\ Len(<<net, again>>) = 2
      BY <2>2
    <3>2. s \in Seq(PuckModel) /\ Len(s) = (n - 1) + 2
      BY <2>4, <3>1, ConcatProperties
    <3> QED
      BY <1>1, <3>2
  <2>6. s \in PuckLists
    BY <2>3, <2>5 DEF PuckLists
  <2>7. a \in Writes /\ b \in Writes /\ c \in Writes
    BY <2>2, <2>3 DEF RemoveValue, SetValue, Writes
  <2>8. ws \in Seq(Writes) /\ ws # <<>> /\ ws[1] = RemoveValue(n - 1)
    <3>1. ws[1] = a /\ ws # <<>>
      <4> HIDE DEF a, b, c
      <4> QED
        OBVIOUS
    <3>2. ws \in Seq(Writes)
      <4> HIDE DEF a, b, c
      <4> QED
        BY <2>7
    <3> QED
      BY <3>1, <3>2
  <2>9. Handled(d, s, ws)
    <3> HIDE DEF s, ws
    <3> QED
      BY <2>1, <2>3, <2>8 DEF Handled
  <2> HIDE DEF s, ws
  <2> QED
    BY <1>2, <2>1, <2>6, <2>8, <2>9
<1>8. CASE SameSequenceTraps(d)
  BY <1>8 DEF SameSequenceTraps
<1>9. CASE UndoShot(d)
  <2> DEFINE s == SubSeq(pucks[d], 1, n - 1)
             ws == <<RemoveValue(n - 1)>>
  <2>1. takeBack /\ Tap(d) /\ n > 0 /\ Edit(d, s, ws)
    BY <1>9 DEF UndoShot
  <2>2. s \in PuckLists
    BY <1>1, <2>1, PuckListsSub
  <2>3. RemoveValue(n - 1) \in Writes
    BY <1>1, <2>1 DEF RemoveValue, Writes, Keys
  <2>4. ws \in Seq(Writes)
    BY <2>3
  <2>5. Handled(d, s, ws)
    BY <2>1 DEF Handled
  <2> QED
    BY <1>2, <2>1, <2>2, <2>4, <2>5
<1>10. CASE DeadSequence(d)
  <2> DEFINE s(keep) == SubSeq(pucks[d], 1, keep)
             ws(keep) == [i \in 1 .. n - keep |-> RemoveValue(n - i)]
  <2>1. PICK keep \in 1 .. n : takeBack /\ Tap(d) /\ Edit(d, s(keep), ws(keep))
    BY <1>10 DEF DeadSequence
  <2>2. s(keep) \in PuckLists
    BY <1>1, PuckListsSub
  <2>3. \A i \in 1 .. n - keep : RemoveValue(n - i) \in Writes
    BY <1>1 DEF RemoveValue, Writes, Keys
  <2>4. n - keep \in Nat /\ n > 0
    BY <1>1
  <2>5. ws(keep) \in Seq(Writes)
    BY <2>3, <2>4
  <2>6. CASE keep = n
    <3>1. s(keep) = pucks[d]
      BY <1>1, <2>6, SubSeqFull
    <3>2. ws(keep) = <<>>
      BY <1>1, <2>6
    <3>3. Handled(d, s(keep), ws(keep))
      BY <2>1, <3>1, <3>2 DEF Handled
    <3> QED
      BY <1>2, <2>1, <2>2, <2>5, <3>3
  <2>7. CASE keep # n
    <3>1. 1 \in 1 .. n - keep
      BY <1>1, <2>7
    <3>2. ws(keep) # <<>> /\ ws(keep)[1] = RemoveValue(n - 1)
      <4>1. ws(keep)[1] = RemoveValue(n - 1)
        BY <3>1
      <4>2. DOMAIN ws(keep) = 1 .. n - keep /\ DOMAIN <<>> = {}
        OBVIOUS
      <4> QED
        BY <3>1, <4>1, <4>2
    <3>3. Handled(d, s(keep), ws(keep))
      BY <2>1, <2>4, <3>2 DEF Handled
    <3> QED
      BY <1>2, <2>1, <2>2, <2>5, <3>3
  <2> QED
    BY <2>6, <2>7
<1> QED
  BY <1>4, <1>5, <1>6, <1>7, <1>8, <1>9, <1>10 DEF UserStep

(* Every step is one of these. *)
DeviceStep(d) ==
    \/ \E s \in PuckLists, ws \in Seq(Writes) : Written(d, s, ws)
    \/ Ends(d)
    \/ Connect(d)
    \/ Disconnect(d)
    \/ ServerTakes(d)
    \/ \E m, rest : Received(d, m, rest)
    \/ Relaunch(d)

LEMMA Steps ==
  ASSUME TypeOK, [Next]_vars
  PROVE  UNCHANGED vars \/ \E d \in Devices : DeviceStep(d)
<1>1. ASSUME NEW d \in Devices, Receive(d)
      PROVE  \E m, rest : Received(d, m, rest)
  <2> DEFINE m == Head(inbox[d])
             rest == IF m.own THEN Tail(pending[d]) ELSE pending[d]
  <2>1. Received(d, m, rest)
    BY <1>1 DEF Receive, Hears, Received
  <2> HIDE DEF m, rest
  <2> QED
    BY <2>1
<1>2. ASSUME NEW d \in Devices, Terminate(d) \/ CallbackTraps(d)
      PROVE  Ends(d)
  BY <1>2 DEF Terminate, CallbackTraps
<1> QED
  BY <1>1, <1>2, UserSteps DEF Next, Exchange, DeviceStep

LEMMA UsersStay ==
  ASSUME TypeOK, [Next]_vars
  PROVE  writers' = writers /\ takeBack' = takeBack
<1>1. CASE UNCHANGED vars
  BY <1>1 DEF vars, users
<1>2. ASSUME NEW d \in Devices, DeviceStep(d)
      PROVE  UNCHANGED users
  <2>1. ASSUME NEW s, NEW ws, Written(d, s, ws)
        PROVE  UNCHANGED users
    BY <2>1 DEF Written
  <2>2. ASSUME NEW m, NEW rest, Received(d, m, rest)
        PROVE  UNCHANGED users
    BY <2>2 DEF Received
  <2>3. Ends(d) => UNCHANGED users
    BY DEF Ends
  <2>4. Connect(d) \/ Disconnect(d) => UNCHANGED users
    BY DEF Connect, Disconnect
  <2>5. ServerTakes(d) \/ Relaunch(d) => UNCHANGED users
    BY DEF ServerTakes, Relaunch
  <2> QED
    BY <1>2, <2>1, <2>2, <2>3, <2>4, <2>5 DEF DeviceStep
<1> QED
  BY <1>1, <1>2, Steps DEF users

LEMMA CountsType ==
  ASSUME TypeOK, [Next]_vars
  PROVE  taps' \in 0 .. MaxTaps /\ drops' \in 0 .. MaxDrops /\ ends' \in 0 .. MaxEnds
<1>1. ASSUME NEW d, Tap(d)
      PROVE  taps' \in 0 .. MaxTaps /\ drops' \in 0 .. MaxDrops /\ ends' \in 0 .. MaxEnds
  BY <1>1, SharedGameAssumption DEF Tap, TypeOK
<1>2. CASE UNCHANGED counts
  BY <1>2 DEF counts, TypeOK
<1>3. ASSUME NEW d, Disconnect(d) \/ Terminate(d)
      PROVE  taps' \in 0 .. MaxTaps /\ drops' \in 0 .. MaxDrops /\ ends' \in 0 .. MaxEnds
  BY <1>3, SharedGameAssumption DEF Disconnect, Terminate, TypeOK
<1>4. ASSUME NEW d, UserStep(d)
      PROVE  Tap(d)
  BY <1>4 DEF UserStep, TouchPass, TouchSkate, ShotButton, SameSequence, SameSequenceTraps,
      UndoShot, DeadSequence, Record
<1> QED
  BY <1>1, <1>2, <1>3, <1>4 DEF Next, Exchange, Connect, ServerTakes, Receive, Hears,
      CallbackTraps, Relaunch, vars

----------------------------------------------------------------------------
(* Types. *)

LEMMA EmptyNode ==
  /\ Nothing \in Node /\ Present(Nothing) = {} /\ Whole(Nothing)
  /\ <<>> \in PuckLists
<1>1. <<>> \in PuckLists
  BY PucksAssumption DEF PuckLists
<1>2. Nothing \in Node
  BY <1>1, NodeOfType DEF Nothing
<1>3. \A k \in Keys : Nothing[k] = Absent
  BY DEF Nothing, NodeOf, Keys
<1>4. Present(Nothing) = {}
  BY <1>3 DEF Present
<1> QED
  BY <1>1, <1>2, <1>4 DEF Whole

LEMMA ViewType ==
  ASSUME TypeOK, NEW d \in Devices
  PROVE  /\ serverCache[d] \in Node /\ pending[d] \in Seq(Writes) /\ inbox[d] \in Seq(Messages)
         /\ View(d) \in Node
BY LayeredType DEF TypeOK, View, Messages

LEMMA TypeInit == Init => TypeOK
<1> SUFFICES ASSUME Init PROVE TypeOK
  OBVIOUS
<1>1. server \in Node /\ pucks \in [Devices -> PuckLists]
  BY NodeOfType, SharedGameAssumption DEF Init
<1>2. \A d \in Devices : Taken(d) = 0
  <2> SUFFICES ASSUME NEW d \in Devices PROVE Taken(d) = 0
    OBVIOUS
  <2>1. inbox[d] = <<>>
    BY DEF Init
  <2>2. {i \in DOMAIN inbox[d] : inbox[d][i].own} = {}
    BY <2>1
  <2> QED
    BY <2>2, FS_EmptySet DEF Taken
<1>3. \A d \in Devices : Taken(d) <= Len(pending[d])
  BY <1>2 DEF Init
<1> QED
  BY <1>1, <1>3, SharedGameAssumption DEF Init, TypeOK

(* Nothing of an inbox is own when the inbox is empty, or has only what a  *)
(* new connection brings.                                                  *)
LEMMA TakenNone ==
  ASSUME NEW d \in Devices, inbox'[d] = <<>> \/ \E m : inbox'[d] = <<Value(m, FALSE)>>
  PROVE  Taken(d)' = 0
<1>1. ASSUME NEW i \in DOMAIN inbox'[d] PROVE ~inbox'[d][i].own
  <2>1. CASE inbox'[d] = <<>>
    BY <2>1
  <2>2. CASE \E m : inbox'[d] = <<Value(m, FALSE)>>
    <3>1. PICK m : inbox'[d] = <<Value(m, FALSE)>>
      BY <2>2
    <3> DEFINE v == Value(m, FALSE)
    <3>2. ~v.own
      BY DEF Value
    <3> HIDE DEF v
    <3>3. inbox'[d] = <<v>>
      BY <3>1 DEF v
    <3>4. i = 1
      BY <3>3
    <3> QED
      BY <3>2, <3>3, <3>4
  <2> QED
    BY <2>1, <2>2
<1>2. {i \in DOMAIN inbox'[d] : inbox'[d][i].own} = {}
  BY <1>1
<1>3. Cardinality({i \in DOMAIN inbox'[d] : inbox'[d][i].own}) = 0
  BY <1>2, FS_EmptySet
<1> QED
  BY <1>3 DEF Taken

LEMMA TakenSame ==
  ASSUME NEW d \in Devices, inbox'[d] = inbox[d]
  PROVE  Taken(d)' = Taken(d)
BY DEF Taken

(* The server answers a write, and d hears from the server. *)
LEMMA ServerTakesInbox ==
  ASSUME TypeOK, NEW d \in Devices, ServerTakes(d)
  PROVE  /\ Taken(d) \in Nat /\ Taken(d) + 1 \in 1 .. Len(pending[d])
         /\ pending[d][Taken(d) + 1] \in Writes
         /\ server' = Apply(server, pending[d][Taken(d) + 1]) /\ server' \in Node
         /\ inbox' \in [Devices -> Seq(Messages)]
         /\ \A e \in Devices : online[e] =>
               /\ Value(server', e = d) \in Messages
               /\ inbox'[e] = Append(inbox[e], Value(server', e = d))
               /\ Taken(e)' = Taken(e) + One(e = d)
         /\ \A e \in Devices : ~online[e] => inbox'[e] = inbox[e] /\ Taken(e)' = Taken(e)
<1>1. Taken(d) \in Nat /\ Len(pending[d]) \in Nat /\ pending[d] \in Seq(Writes) /\ Taken(d) < Len(pending[d])
  BY ViewType, TakenIsOwn DEF ServerTakes
<1>2. Taken(d) + 1 \in 1 .. Len(pending[d]) /\ pending[d][Taken(d) + 1] \in Writes
  BY <1>1
<1>3. server' = Apply(server, pending[d][Taken(d) + 1]) /\ server' \in Node
  BY <1>2, ApplyType DEF ServerTakes, TypeOK
<1>4. \A e \in Devices : Value(server', e = d) \in Messages
  BY <1>3 DEF Value, Messages
<1>5. \A e \in Devices : inbox[e] \in Seq(Messages)
  BY ViewType
<1>6. inbox' = [e \in Devices |-> IF online[e] THEN Append(inbox[e], Value(server', e = d))
                                               ELSE inbox[e]]
  BY DEF ServerTakes
<1>7. \A e \in Devices : Append(inbox[e], Value(server', e = d)) \in Seq(Messages)
  BY <1>4, <1>5, OwnAppend
<1>8. inbox' \in [Devices -> Seq(Messages)]
  BY <1>5, <1>6, <1>7
<1>9. ASSUME NEW e \in Devices, online[e]
      PROVE  Taken(e)' = Taken(e) + One(e = d)
  <2> DEFINE m == Value(server', e = d)
  <2>1. inbox'[e] = Append(inbox[e], m) /\ m \in Messages /\ m.own = (e = d)
    BY <1>4, <1>6, <1>9 DEF Value
  <2> HIDE DEF m
  <2>2. /\ Len(inbox'[e]) = Len(inbox[e]) + 1
        /\ OwnIn(inbox'[e], Len(inbox[e]) + 1) = OwnIn(inbox[e], Len(inbox[e])) + One(m.own)
    BY <1>5, <2>1, OwnAppend
  <2>3. Taken(e) = OwnIn(inbox[e], Len(inbox[e]))
    BY <1>5, TakenIsOwn
  <2>4. Taken(e)' = OwnIn(inbox'[e], Len(inbox'[e]))
    <3>1. DOMAIN inbox'[e] = 1 .. Len(inbox'[e])
      BY <1>8
    <3> QED
      BY <3>1 DEF Taken, OwnIn
  <2> QED
    BY <2>1, <2>2, <2>3, <2>4
<1>10. \A e \in Devices : ~online[e] => inbox'[e] = inbox[e]
  BY <1>6
<1> QED
  BY <1>1, <1>2, <1>3, <1>4, <1>6, <1>8, <1>9, <1>10, TakenSame

LEMMA ReceivedInbox ==
  ASSUME TypeOK, NEW d \in Devices, NEW m, NEW rest, Received(d, m, rest)
  PROVE  /\ m = inbox[d][1] /\ m \in Messages /\ m.node \in Node
         /\ Len(inbox[d]) \in Nat \ {0}
         /\ inbox'[d] = Tail(inbox[d]) /\ inbox' \in [Devices -> Seq(Messages)]
         /\ Taken(d)' + One(m.own) = Taken(d) /\ Taken(d)' \in Nat
         /\ m.own => pending[d] # <<>> /\ rest = Tail(pending[d])
         /\ ~m.own => rest = pending[d]
         /\ rest \in Seq(Writes)
         /\ Layered(m.node, rest) \in Node
         /\ \A e \in Devices \ {d} : inbox'[e] = inbox[e] /\ Taken(e)' = Taken(e)
<1>1. inbox \in [Devices -> Seq(Messages)] /\ inbox[d] # <<>> /\ inbox[d] \in Seq(Messages)
  BY DEF TypeOK, Messages, Received
<1>2. /\ Tail(inbox[d]) \in Seq(Messages) /\ Len(inbox[d]) \in Nat \ {0}
      /\ Len(Tail(inbox[d])) = Len(inbox[d]) - 1
      /\ m = inbox[d][1] /\ m \in Messages /\ m.node \in Node
      /\ \A i \in 0 .. Len(Tail(inbox[d])) :
            OwnIn(inbox[d], i + 1) = OwnIn(Tail(inbox[d]), i) + One(inbox[d][1].own)
  BY <1>1, OwnTail DEF Received, Messages
<1>3. inbox'[d] = Tail(inbox[d]) /\ inbox' \in [Devices -> Seq(Messages)]
  BY <1>1, <1>2 DEF Received
<1>4. Taken(d) = OwnIn(inbox[d], Len(inbox[d])) /\ Taken(d) \in Nat
  BY <1>1, TakenIsOwn
<1>5. Taken(d)' = OwnIn(Tail(inbox[d]), Len(Tail(inbox[d]))) /\ Taken(d)' \in Nat
  <2>1. DOMAIN inbox'[d] = 1 .. Len(inbox'[d]) /\ Len(inbox'[d]) \in Nat
    BY <1>3
  <2>2. Taken(d)' = OwnIn(inbox'[d], Len(inbox'[d]))
    BY <2>1 DEF Taken, OwnIn
  <2> QED
    BY <1>3, <2>1, <2>2, OwnType
<1>6. Taken(d)' + One(m.own) = Taken(d)
  <2>1. Len(inbox[d]) - 1 \in 0 .. Len(Tail(inbox[d])) /\ (Len(inbox[d]) - 1) + 1 = Len(inbox[d])
    BY <1>2
  <2> QED
    BY <1>2, <1>4, <1>5, <2>1
<1>7. m.own => pending[d] # <<>>
  <2>1. m.own => Taken(d) > 0
    BY <1>5, <1>6 DEF One
  <2>2. Taken(d) <= Len(pending[d])
    BY DEF TypeOK
  <2> QED
    BY <1>4, <2>1, <2>2
<1>8. rest \in Seq(Writes)
  BY <1>7, FirstAndRest DEF Received, TypeOK
<1>9. \A e \in Devices \ {d} : inbox'[e] = inbox[e]
  BY <1>1 DEF Received
<1> QED
  BY <1>2, <1>3, <1>5, <1>6, <1>7, <1>8, <1>9, TakenSame, LayeredType DEF Received

LEMMA TypeNext == TypeOK /\ [Next]_vars => TypeOK'
<1> SUFFICES ASSUME TypeOK, [Next]_vars PROVE TypeOK'
  OBVIOUS
<1>1. /\ writers' \in WriterSets /\ takeBack' \in BOOLEAN
      /\ taps' \in 0 .. MaxTaps /\ drops' \in 0 .. MaxDrops /\ ends' \in 0 .. MaxEnds
  BY UsersStay, CountsType DEF TypeOK
<1> DEFINE Rest == /\ server' \in Node
                   /\ running' \in [Devices -> BOOLEAN]
                   /\ online' \in [Devices -> BOOLEAN]
                   /\ synced' \in [Devices -> BOOLEAN]
                   /\ serverCache' \in [Devices -> Node]
                   /\ pending' \in [Devices -> Seq(Writes)]
                   /\ inbox' \in [Devices -> Seq(Messages)]
                   /\ \A e \in Devices : Taken(e)' <= Len(pending'[e])
                   /\ pucks' \in [Devices -> PuckLists]
<1> SUFFICES Rest
  BY <1>1 DEF TypeOK, Messages
<1>2. /\ server \in Node
      /\ running \in [Devices -> BOOLEAN]
      /\ online \in [Devices -> BOOLEAN]
      /\ synced \in [Devices -> BOOLEAN]
      /\ serverCache \in [Devices -> Node]
      /\ pending \in [Devices -> Seq(Writes)]
      /\ inbox \in [Devices -> Seq(Messages)]
      /\ \A e \in Devices : Taken(e) <= Len(pending[e])
      /\ pucks \in [Devices -> PuckLists]
  BY DEF TypeOK, Messages
<1>3. \A e \in Devices : Len(pending[e]) \in Nat /\ Taken(e) \in Nat
  BY <1>2, TakenIsOwn
<1>4. CASE UNCHANGED vars
  BY <1>2, <1>4, TakenSame DEF vars, client
<1>5. ASSUME NEW d \in Devices, NEW s \in PuckLists, NEW ws \in Seq(Writes), Written(d, s, ws)
      PROVE  Rest
  <2>1. AfterWrites(d, s, ws).list \in PuckLists
    BY <1>5, ViewType, AfterFacts DEF Written
  <2>2. pucks' \in [Devices -> PuckLists]
    BY <1>2, <1>5, <2>1 DEF Written
  <2>3. /\ pending[d] \o ws \in Seq(Writes)
        /\ Len(pending[d] \o ws) = Len(pending[d]) + Len(ws) /\ Len(ws) \in Nat
    BY <1>2, Joined
  <2>4. pending' \in [Devices -> Seq(Writes)]
    BY <1>2, <1>5, <2>3 DEF Written
  <2>5. ASSUME NEW e \in Devices PROVE Taken(e)' <= Len(pending'[e])
    <3>1. Taken(e)' = Taken(e)
      BY <1>5, TakenSame DEF Written
    <3>2. Len(pending[e]) <= Len(pending'[e]) /\ Len(pending'[e]) \in Nat
      <4>1. CASE e = d
        BY <1>2, <1>3, <1>5, <2>3, <4>1 DEF Written
      <4>2. CASE e # d
        BY <1>2, <1>3, <1>5, <4>2 DEF Written
      <4> QED
        BY <4>1, <4>2
    <3> QED
      BY <1>2, <1>3, <3>1, <3>2
  <2> QED
    BY <1>2, <1>5, <2>2, <2>4, <2>5 DEF Written
<1>6. ASSUME NEW d \in Devices, Ends(d)
      PROVE  Rest
  <2>1. <<>> \in Seq(Writes) /\ <<>> \in Seq(Messages) /\ Nothing \in Node /\ <<>> \in PuckLists
    BY EmptyNode
  <2>2. ASSUME NEW e \in Devices PROVE Taken(e)' <= Len(pending'[e])
    <3>1. CASE e = d
      <4>1. Taken(e)' = 0 /\ pending'[e] = <<>>
        BY <1>2, <1>6, <3>1, TakenNone DEF Ends
      <4> QED
        BY <4>1
    <3>2. CASE e # d
      <4>1. Taken(e)' = Taken(e) /\ pending'[e] = pending[e]
        BY <1>2, <1>6, <3>2, TakenSame DEF Ends
      <4> QED
        BY <1>2, <4>1
    <3> QED
      BY <3>1, <3>2
  <2> QED
    BY <1>2, <1>6, <2>1, <2>2 DEF Ends
<1>7. ASSUME NEW d \in Devices, Connect(d) \/ Disconnect(d)
      PROVE  Rest
  <2>1. Value(server, FALSE) \in Messages
    BY <1>2 DEF Value, Messages
  <2>2. <<Value(server, FALSE)>> \in Seq(Messages) /\ <<>> \in Seq(Messages)
    <3> DEFINE m == Value(server, FALSE)
    <3>1. m \in Messages
      BY <2>1
    <3> HIDE DEF m
    <3>2. <<m>> \in Seq(Messages) /\ <<>> \in Seq(Messages)
      BY <3>1
    <3> QED
      BY <3>2 DEF m
  <2>3. inbox' \in [Devices -> Seq(Messages)] /\ online' \in [Devices -> BOOLEAN]
    BY <1>2, <1>7, <2>2 DEF Connect, Disconnect
  <2>4. ASSUME NEW e \in Devices PROVE Taken(e)' <= Len(pending'[e])
    <3>1. pending' = pending
      BY <1>7 DEF Connect, Disconnect
    <3>2. CASE e = d
      <4>1. inbox'[d] = <<>> \/ inbox'[d] = <<Value(server, FALSE)>>
        BY <1>2, <1>7 DEF Connect, Disconnect
      <4>2. Taken(e)' = 0
        BY <3>2, <4>1, TakenNone
      <4> QED
        BY <1>3, <3>1, <4>2
    <3>3. CASE e # d
      <4>1. Taken(e)' = Taken(e)
        BY <1>2, <1>7, <3>3, TakenSame DEF Connect, Disconnect
      <4> QED
        BY <1>2, <3>1, <4>1
    <3> QED
      BY <3>2, <3>3
  <2> QED
    BY <1>2, <1>7, <2>3, <2>4 DEF Connect, Disconnect
<1>8. ASSUME NEW d \in Devices, ServerTakes(d)
      PROVE  Rest
  <2>1. ASSUME NEW e \in Devices PROVE Taken(e)' <= Len(pending'[e])
    <3>1. pending' = pending
      BY <1>8 DEF ServerTakes
    <3>2. CASE e = d
      <4>1. Taken(e)' = Taken(e) + 1 /\ Taken(e) < Len(pending[e])
        BY <1>8, <3>2, ServerTakesInbox DEF One, ServerTakes
      <4> QED
        BY <1>3, <3>1, <4>1
    <3>3. CASE e # d
      <4>1. Taken(e)' = Taken(e) + 0 \/ Taken(e)' = Taken(e)
        BY <1>8, <3>3, ServerTakesInbox DEF One
      <4> QED
        BY <1>2, <1>3, <3>1, <4>1
    <3> QED
      BY <3>2, <3>3
  <2> QED
    BY <1>2, <1>8, <2>1, ServerTakesInbox DEF ServerTakes
<1>9. ASSUME NEW d \in Devices, NEW m, NEW rest, Received(d, m, rest)
      PROVE  Rest
  <2> DEFINE new == Layered(m.node, rest)
  <2>1. /\ m.node \in Node /\ inbox' \in [Devices -> Seq(Messages)]
        /\ Taken(d)' + One(m.own) = Taken(d) /\ Taken(d)' \in Nat
        /\ m.own => pending[d] # <<>> /\ rest = Tail(pending[d])
        /\ ~m.own => rest = pending[d]
        /\ rest \in Seq(Writes) /\ new \in Node
        /\ \A e \in Devices \ {d} : Taken(e)' = Taken(e)
    BY <1>9, ReceivedInbox
  <2>3. Whole(new) => Children(new) \in PuckLists
    BY <2>1, ChildrenType
  <2>4. pucks' \in [Devices -> PuckLists]
    BY <1>2, <1>9, <2>3 DEF Received, Hear
  <2>5. ASSUME NEW e \in Devices PROVE Taken(e)' <= Len(pending'[e])
    <3>1. CASE e # d
      <4>1. pending'[e] = pending[e]
        BY <1>2, <1>9, <3>1 DEF Received
      <4> QED
        BY <1>2, <2>1, <3>1, <4>1
    <3>2. CASE e = d
      <4>1. pending'[e] = rest
        BY <1>2, <1>9, <3>2 DEF Received
      <4>2. CASE m.own
        <5>1. Len(rest) = Len(pending[d]) - 1
          BY <1>2, <2>1, <4>2, FirstAndRest
        <5>2. Taken(d)' + 1 = Taken(d)
          BY <2>1, <4>2 DEF One
        <5> QED
          BY <1>2, <1>3, <2>1, <3>2, <4>1, <5>1, <5>2
      <4>3. CASE ~m.own
        <5>1. Taken(d)' + 0 = Taken(d)
          BY <2>1, <4>3 DEF One
        <5> QED
          BY <1>2, <2>1, <3>2, <4>1, <4>3, <5>1
      <4> QED
        BY <4>2, <4>3
    <3> QED
      BY <3>1, <3>2
  <2> QED
    BY <1>2, <1>9, <2>1, <2>4, <2>5 DEF Received
<1>10. ASSUME NEW d \in Devices, Relaunch(d)
       PROVE  Rest
  BY <1>2, <1>10, TakenSame DEF Relaunch
<1> QED
  BY <1>4, <1>5, <1>6, <1>7, <1>8, <1>9, <1>10, Steps DEF DeviceStep

(* The variables keep their types, and the server has never taken more of  *)
(* a device's writes than still wait there: no acknowledgement finds the   *)
(* queue of the client empty.                                              *)
THEOREM TypeCorrect == Spec => []TypeOK
BY TypeInit, TypeNext, PTL DEF Spec

----------------------------------------------------------------------------
(* Views. *)

LEMMA ViewSame ==
  ASSUME NEW e \in Devices, serverCache'[e] = serverCache[e], pending'[e] = pending[e]
  PROVE  View(e)' = View(e)
BY DEF View

LEMMA ViewWritten ==
  ASSUME TypeOK, NEW d \in Devices, NEW s, NEW ws \in Seq(Writes), Written(d, s, ws)
  PROVE  /\ View(d)' = Layered(View(d), ws)
         /\ \A e \in Devices \ {d} : View(e)' = View(e)
<1>1. serverCache[d] \in Node /\ pending[d] \in Seq(Writes)
  BY ViewType
<1>2. serverCache' = serverCache /\ pending'[d] = pending[d] \o ws
  BY DEF Written, TypeOK
<1>3. View(d)' = Layered(serverCache[d], pending[d] \o ws)
  BY <1>2 DEF View
<1>4. \A e \in Devices \ {d} : pending'[e] = pending[e]
  BY DEF Written, TypeOK
<1> QED
  BY <1>1, <1>2, <1>3, <1>4, LayeredConcat, ViewSame DEF View

LEMMA ViewEnds ==
  ASSUME TypeOK, NEW d \in Devices, Ends(d)
  PROVE  /\ View(d)' = Nothing
         /\ \A e \in Devices \ {d} : View(e)' = View(e)
<1>1. serverCache'[d] = Nothing /\ pending'[d] = <<>>
  BY DEF Ends, TypeOK
<1>2. View(d)' = Layered(Nothing, <<>>)
  BY <1>1 DEF View
<1>3. \A e \in Devices \ {d} : serverCache'[e] = serverCache[e] /\ pending'[e] = pending[e]
  BY DEF Ends, TypeOK
<1> QED
  BY <1>2, <1>3, EmptyNode, LayeredEmpty, ViewSame

LEMMA ViewReceived ==
  ASSUME TypeOK, NEW d \in Devices, NEW m, NEW rest, Received(d, m, rest)
  PROVE  /\ View(d)' = Layered(m.node, rest)
         /\ \A e \in Devices \ {d} : View(e)' = View(e)
<1>1. serverCache'[d] = m.node /\ pending'[d] = rest
  BY DEF Received, TypeOK
<1>2. \A e \in Devices \ {d} : serverCache'[e] = serverCache[e] /\ pending'[e] = pending[e]
  BY DEF Received, TypeOK
<1> QED
  BY <1>1, <1>2, ViewSame DEF View

LEMMA ViewOther ==
  ASSUME NEW d \in Devices,
         Connect(d) \/ Disconnect(d) \/ ServerTakes(d) \/ Relaunch(d) \/ UNCHANGED vars
  PROVE  /\ \A e \in Devices : View(e)' = View(e)
         /\ UNCHANGED <<serverCache, pending, pucks, synced>>
<1>1. UNCHANGED <<serverCache, pending, pucks, synced>>
  BY DEF Connect, Disconnect, ServerTakes, Relaunch, vars, client
<1> QED
  BY <1>1, ViewSame

(* The first write of a handler whose list shows the view changes the      *)
(* view, or the handler leaves the list as it was.                         *)
LEMMA FirstWriteChanges ==
  ASSUME TypeOK, NEW d \in Devices, NEW s \in PuckLists, NEW ws \in Seq(Writes),
         Handled(d, s, ws), Shown(pucks[d], View(d))
  PROVE  Shown(s, View(d)) \/ (ws # <<>> /\ Apply(View(d), ws[1]) # View(d))
<1> DEFINE n == Len(pucks[d])
           x == View(d)
<1>1. /\ x \in Node /\ pucks[d] \in PuckLists /\ pucks[d] \in Seq(PuckModel)
      /\ n \in Nat /\ n <= MaxPucks /\ MaxPucks \in Nat \ {0}
  BY ViewType, ListType
<1> HIDE DEF x
<1>2. CASE Present(x) = {} \/ ~WellFormed(x)
  BY <1>2 DEF Shown, x
<1>3. CASE WellFormed(x) /\ pucks[d] = Children(x)
  <2>1. /\ Present(x) = 0 .. n - 1
        /\ \A i \in 1 .. n : pucks[d][i] = x[i - 1]
        /\ \A k \in Present(x) : x[k] \in PuckModel
    BY <1>1, <1>3, ListOfNode
  <2>2. CASE s = pucks[d]
    BY <1>3, <2>2 DEF Shown, x
  <2>3. ASSUME n < MaxPucks, NEW p \in PuckModel, ws = <<SetValue(n, p)>>
        PROVE  Apply(x, ws[1]) # x
    <3>1. n \in Keys /\ n \notin Present(x)
      BY <1>1, <2>1, <2>3 DEF Keys
    <3> QED
      BY <1>1, <2>3, <3>1, SetChanges
  <2>4. ASSUME n > 0
        PROVE  n - 1 \in Present(x) /\ x[n - 1] \in PuckModel /\ x[n - 1] = pucks[d][n]
    <3>1. n - 1 \in 0 .. n - 1 /\ n \in 1 .. n
      BY <1>1, <2>4
    <3> QED
      BY <2>1, <3>1
  <2>5. ASSUME n > 0, s = [pucks[d] EXCEPT ![n].shotType = "Skate"],
               ws = <<UpdateChildValues(n - 1, "Skate")>>, s # pucks[d]
        PROVE  Apply(x, ws[1]) # x
    <3>1. pucks[d][n].shotType # "Skate"
      <4> SUFFICES ASSUME pucks[d][n].shotType = "Skate" PROVE FALSE
        OBVIOUS
      <4>1. pucks[d][n] \in PuckModel /\ n \in 1 .. n
        BY <1>1, <2>5
      <4>2. [pucks[d][n] EXCEPT !.shotType = "Skate"] = pucks[d][n]
        BY <4>1 DEF PuckModel
      <4>3. s = [pucks[d] EXCEPT ![n] = pucks[d][n]]
        BY <2>5, <4>2
      <4>4. s = pucks[d]
        BY <1>1, <4>3
      <4> QED
        BY <2>5, <4>4
    <3> QED
      BY <1>1, <2>4, <2>5, <3>1, UpdateChanges
  <2>6. ASSUME n > 0, ws[1] = RemoveValue(n - 1)
        PROVE  Apply(x, ws[1]) # x
    BY <1>1, <2>4, <2>6, RemoveChanges
  <2> QED
    BY <2>2, <2>3, <2>5, <2>6 DEF Handled, x
<1> QED
  BY <1>2, <1>3 DEF Shown, x

(* Every device lists what it shows. *)
ListsShow == \A d \in Devices : Shown(pucks[d], View(d))

LEMMA ShowStep ==
  ASSUME TypeOK, ListsShow, [Next]_vars
  PROVE  ListsShow'
<1> SUFFICES ASSUME NEW e \in Devices
             PROVE  Shown(pucks'[e], View(e)')
  BY DEF ListsShow, Shown, WellFormed, Whole, Contiguous, Present, Children
<1>1. Shown(pucks[e], View(e)) /\ View(e) \in Node
  BY ViewType DEF ListsShow
<1>2. ASSUME NEW d \in Devices, NEW s \in PuckLists, NEW ws \in Seq(Writes), Written(d, s, ws)
      PROVE  Shown(pucks'[e], View(e)')
  <2>1. CASE e = d
    <3> DEFINE after == AfterWrites(d, s, ws)
    <3>1. View(d)' = Layered(View(d), ws) /\ pucks'[d] = after.list
      BY <1>2, ViewWritten DEF Written, TypeOK
    <3>2. Shown(s, View(d)) \/ (ws # <<>> /\ Apply(View(d), ws[1]) # View(d))
      BY <1>1, <1>2, <2>1, FirstWriteChanges DEF Written
    <3>3. /\ after.view = Layered(View(d), ws)
          /\ Shown(after.list, after.view)
      BY <1>1, <2>1, <3>1, <3>2, AfterFacts
    <3> QED
      BY <2>1, <3>1, <3>3
  <2>2. CASE e # d
    <3>1. View(e)' = View(e) /\ pucks'[e] = pucks[e]
      BY <1>2, <2>2, ViewWritten DEF Written, TypeOK
    <3> QED
      BY <1>1, <3>1
  <2> QED
    BY <2>1, <2>2
<1>3. ASSUME NEW d \in Devices, Ends(d)
      PROVE  Shown(pucks'[e], View(e)')
  <2>1. CASE e = d
    BY <1>3, <2>1, ViewEnds, EmptyNode DEF Shown
  <2>2. CASE e # d
    <3>1. View(e)' = View(e) /\ pucks'[e] = pucks[e]
      BY <1>3, <2>2, ViewEnds DEF Ends, TypeOK
    <3> QED
      BY <1>1, <3>1
  <2> QED
    BY <2>1, <2>2
<1>4. ASSUME NEW d \in Devices, NEW m, NEW rest, Received(d, m, rest)
      PROVE  Shown(pucks'[e], View(e)')
  <2>1. CASE e = d
    <3> DEFINE new == Layered(m.node, rest)
    <3>1. View(d)' = new /\ pucks'[d] = Hear(pucks[d], View(d), new)
      <4>1. View(d)' = new
        BY <1>4, ViewReceived
      <4>2. pucks'[d] = Hear(pucks[d], View(d), new)
        BY <1>4 DEF Received, TypeOK
      <4> QED
        BY <4>1, <4>2
    <3> HIDE DEF new
    <3> QED
      BY <1>1, <2>1, <3>1 DEF Hear, Shown, WellFormed
  <2>2. CASE e # d
    <3>1. View(e)' = View(e) /\ pucks'[e] = pucks[e]
      BY <1>4, <2>2, ViewReceived DEF Received, TypeOK
    <3> QED
      BY <1>1, <3>1
  <2> QED
    BY <2>1, <2>2
<1>5. ASSUME NEW d \in Devices,
             Connect(d) \/ Disconnect(d) \/ ServerTakes(d) \/ Relaunch(d) \/ UNCHANGED vars
      PROVE  Shown(pucks'[e], View(e)')
  BY <1>1, <1>5, ViewOther
<1> QED
  BY <1>2, <1>3, <1>4, <1>5, Steps DEF DeviceStep

(* The list a game is saved from is the list of its node. *)
LEMMA ShowInit == Init => ListsShow
<1> SUFFICES ASSUME Init, NEW d \in Devices
             PROVE  Shown(pucks[d], View(d))
  BY DEF ListsShow
<1>1. PICK s \in PuckLists : server = NodeOf(s) /\ pucks[d] = s
  BY SharedGameAssumption DEF Init
<1>2. server \in Node /\ View(d) = server
  BY <1>1, NodeOfType, LayeredEmpty DEF Init, View
<1>3. s = Children(NodeOf(s))
  BY SavedNode
<1> QED
  BY <1>1, <1>2, <1>3 DEF Shown

----------------------------------------------------------------------------
(* When nothing is on its way every device has the server's game. *)

(* The last message on its way to a device is the server's value, and when *)
(* there is none the device has that value.  A device that is not          *)
(* connected has no messages.                                              *)
OnlineKnows ==
    \A d \in Devices :
        IF online[d]
        THEN IF inbox[d] = <<>> THEN serverCache[d] = server
                                ELSE inbox[d][Len(inbox[d])].node = server
        ELSE inbox[d] = <<>>

LEMMA KnowsStep ==
  ASSUME TypeOK, OnlineKnows, [Next]_vars
  PROVE  OnlineKnows'
<1> DEFINE Knows(e) == IF online[e]
                       THEN IF inbox[e] = <<>> THEN serverCache[e] = server
                                               ELSE inbox[e][Len(inbox[e])].node = server
                       ELSE inbox[e] = <<>>
<1> SUFFICES ASSUME NEW e \in Devices PROVE Knows(e)'
  BY DEF OnlineKnows
<1>1. Knows(e) /\ inbox[e] \in Seq(Messages)
  BY ViewType DEF OnlineKnows
<1>2. ASSUME online'[e] = online[e], inbox'[e] = inbox[e], serverCache'[e] = serverCache[e],
             server' = server
      PROVE  Knows(e)'
  BY <1>1, <1>2
<1>3. ASSUME NEW d \in Devices, NEW s, NEW ws, Written(d, s, ws)
      PROVE  Knows(e)'
  BY <1>2, <1>3 DEF Written
<1>4. ASSUME NEW d \in Devices, Ends(d)
      PROVE  Knows(e)'
  <2>1. CASE e = d
    BY <1>4, <2>1 DEF Ends, TypeOK
  <2>2. CASE e # d
    BY <1>2, <1>4, <2>2 DEF Ends, TypeOK
  <2> QED
    BY <2>1, <2>2
<1>5. ASSUME NEW d \in Devices, Connect(d)
      PROVE  Knows(e)'
  <2>1. CASE e = d
    <3> DEFINE m == Value(server, FALSE)
    <3>1. m.node = server
      BY DEF Value
    <3> HIDE DEF m
    <3>2. online'[d] /\ inbox'[d] = <<m>> /\ server' = server
      BY <1>5 DEF Connect, TypeOK, m
    <3>3. inbox'[d] # <<>> /\ inbox'[d][Len(inbox'[d])] = m
      BY <3>2
    <3> QED
      BY <2>1, <3>1, <3>2, <3>3
  <2>2. CASE e # d
    BY <1>2, <1>5, <2>2 DEF Connect, TypeOK
  <2> QED
    BY <2>1, <2>2
<1>6. ASSUME NEW d \in Devices, Disconnect(d)
      PROVE  Knows(e)'
  <2>1. CASE e = d
    BY <1>6, <2>1 DEF Disconnect, TypeOK
  <2>2. CASE e # d
    BY <1>2, <1>6, <2>2 DEF Disconnect, TypeOK
  <2> QED
    BY <2>1, <2>2
<1>7. ASSUME NEW d \in Devices, ServerTakes(d)
      PROVE  Knows(e)'
  <2>0. online' = online
    BY <1>7 DEF ServerTakes
  <2>1. CASE online[e]
    <3> DEFINE m == Value(server', e = d)
    <3>1. m \in Messages /\ inbox'[e] = Append(inbox[e], m) /\ m.node = server'
      <4>1. m.node = server'
        BY DEF Value
      <4> QED
        BY <1>7, <2>1, <4>1, ServerTakesInbox
    <3> HIDE DEF m
    <3>2. /\ inbox'[e] \in Seq(Messages) /\ Len(inbox'[e]) = Len(inbox[e]) + 1
          /\ inbox'[e][Len(inbox[e]) + 1] = m /\ Len(inbox[e]) \in Nat
      BY <1>1, <3>1, OwnAppend
    <3>3. inbox'[e] # <<>>
      BY <3>2
    <3> QED
      BY <2>0, <2>1, <3>1, <3>2, <3>3
  <2>2. CASE ~online[e]
    BY <1>1, <1>7, <2>0, <2>2, ServerTakesInbox
  <2> QED
    BY <2>1, <2>2
<1>8. ASSUME NEW d \in Devices, NEW m, NEW rest, Received(d, m, rest)
      PROVE  Knows(e)'
  <2>1. CASE e = d
    <3> DEFINE q == inbox[d]
               t == Tail(inbox[d])
               n == Len(q)
    <3>1. q # <<>> /\ inbox'[d] = t /\ m = q[1] /\ q \in Seq(Messages)
      <4>1. q # <<>> /\ q \in Seq(Messages)
        BY <1>1, <1>8, <2>1 DEF Received
      <4> QED
        BY <1>8, <4>1, ReceivedInbox
    <3>2. /\ n \in Nat \ {0} /\ Len(t) = n - 1 /\ t \in Seq(Messages)
          /\ \A i \in 1 .. n - 1 : t[i] = q[i + 1]
      BY <3>1, OwnTail
    <3>3. serverCache'[d] = m.node /\ server' = server /\ online' = online
      BY <1>8 DEF Received, TypeOK
    <3>4. online[d] /\ q[n].node = server
      BY <1>1, <2>1, <3>1
    <3> HIDE DEF q, t, n
    <3>5. CASE n = 1
      <4>1. t = <<>>
        BY <3>2, <3>5, EmptySeq
      <4> QED
        BY <2>1, <3>1, <3>3, <3>4, <3>5, <4>1
    <3>6. CASE n # 1
      <4>1. n - 1 \in 1 .. n - 1 /\ (n - 1) + 1 = n
        BY <3>2, <3>6
      <4>2. t # <<>> /\ t[Len(t)] = q[n]
        BY <3>2, <4>1
      <4> QED
        BY <2>1, <3>1, <3>3, <3>4, <4>2
    <3> QED
      BY <3>5, <3>6
  <2>2. CASE e # d
    BY <1>2, <1>8, <2>2 DEF Received, TypeOK
  <2> QED
    BY <2>1, <2>2
<1>9. ASSUME NEW d \in Devices, Relaunch(d) \/ UNCHANGED vars
      PROVE  Knows(e)'
  BY <1>2, <1>9 DEF Relaunch, vars, client
<1> QED
  BY <1>3, <1>4, <1>5, <1>6, <1>7, <1>8, <1>9, Steps DEF DeviceStep

LEMMA KnowsInit == Init => OnlineKnows
BY DEF Init, OnlineKnows

(* Whatever was recorded on and off line, lost with an app or sent twice,  *)
(* by any number of devices: when nothing is on its way each has the       *)
(* server's game, and lists it unless it was emptied or got a gap.         *)
THEOREM DevicesConverge == Spec => []Converged
<1>1. TypeOK /\ ListsShow /\ OnlineKnows => Converged
  <2> SUFFICES ASSUME TypeOK, ListsShow, OnlineKnows, NEW d \in Devices, Quiet(d)
               PROVE  /\ serverCache[d] = server
                      /\ Present(server) = {} \/ ~WellFormed(server) \/ pucks[d] = Children(server)
    BY DEF Converged
  <2>1. serverCache[d] = server
    BY DEF Quiet, OnlineKnows
  <2>2. View(d) = server
    <3>1. serverCache[d] \in Node /\ pending[d] = <<>>
      BY DEF Quiet, TypeOK
    <3> QED
      BY <2>1, <3>1, LayeredEmpty DEF View
  <2> QED
    BY <2>1, <2>2 DEF ListsShow, Shown
<1>2. Init => ListsShow /\ OnlineKnows
  BY ShowInit, KnowsInit
<1>3. TypeOK /\ ListsShow /\ OnlineKnows /\ [Next]_vars => (ListsShow /\ OnlineKnows)'
  BY ShowStep, KnowsStep
<1> QED
  BY <1>1, <1>2, <1>3, TypeCorrect, PTL DEF Spec

----------------------------------------------------------------------------
(* Writes made twice. *)

(* An update overwrites one made before. *)
LEMMA PutTwice ==
  ASSUME NEW c \in Child \cup {Absent}, NEW v \in Writes, NEW w \in Writes,
         v.op = "update", w.op = "update"
  PROVE  Renewed(Renewed(c, v), w) = Renewed(c, w)
<1> DEFINE t == v.shotType
           u == w.shotType
<1>0. Renewed(c, v) = IF c = Absent THEN [shotType |-> t] ELSE [c EXCEPT !.shotType = t]
  BY DEF Renewed
<1>1. t \in ShotTypes /\ u \in ShotTypes
  BY DEF Writes
<1>2. \A b : Renewed(b, w) = IF b = Absent THEN [shotType |-> u] ELSE [b EXCEPT !.shotType = u]
  BY DEF Renewed
<1>3. Renewed(c, v) \in Child /\ Renewed(c, v) # Absent
  <2>1. CASE c = Absent
    BY <1>0, <1>1, <2>1, AbsentAssumption DEF Child, PartialChild
  <2>2. CASE c # Absent /\ c \in PuckModel
    <3>1. [c EXCEPT !.shotType = t] \in PuckModel
      BY <1>1, <2>2 DEF PuckModel
    <3> QED
      BY <1>0, <2>2, <3>1, AbsentAssumption DEF Child
  <2>3. CASE c # Absent /\ c \in PartialChild
    <3>1. [c EXCEPT !.shotType = t] \in PartialChild
      BY <1>1, <2>3 DEF PartialChild
    <3> QED
      BY <1>0, <2>3, <3>1, AbsentAssumption DEF Child
  <2> QED
    BY <2>1, <2>2, <2>3 DEF Child
<1>4. Renewed(Renewed(c, v), w) = [Renewed(c, v) EXCEPT !.shotType = u]
  BY <1>2, <1>3
<1>5. CASE c = Absent
  <2>1. [[shotType |-> t] EXCEPT !.shotType = u] = [shotType |-> u]
    OBVIOUS
  <2> QED
    BY <1>0, <1>2, <1>4, <1>5, <2>1
<1>6. CASE c # Absent
  <2>1. [[c EXCEPT !.shotType = t] EXCEPT !.shotType = u] = [c EXCEPT !.shotType = u]
    OBVIOUS
  <2> QED
    BY <1>0, <1>2, <1>4, <1>6, <2>1
<1> QED
  BY <1>5, <1>6

(* A write made once more changes nothing. *)
LEMMA ApplyTwice ==
  ASSUME NEW x \in Node, NEW w \in Writes
  PROVE  Apply(Apply(x, w), w) = Apply(x, w)
<1> DEFINE y == Apply(x, w)
           z == Apply(y, w)
<1>1. /\ w.key \in Keys /\ y \in Node /\ x[w.key] \in Child \cup {Absent}
      /\ y[w.key] = Renewed(x[w.key], w)
  BY ApplyPut
<1>2. /\ z \in Node /\ z[w.key] = Renewed(y[w.key], w)
      /\ \A k \in Keys : k # w.key => z[k] = y[k]
  BY <1>1, ApplyPut
<1>3. Renewed(y[w.key], w) = Renewed(x[w.key], w)
  <2>1. CASE w.op = "update"
    BY <1>1, <2>1, PutTwice
  <2>2. CASE w.op # "update"
    BY <2>2 DEF Renewed, Writes
  <2> QED
    BY <2>1, <2>2
<1> HIDE DEF y, z
<1>4. z = y
  BY <1>1, <1>2, <1>3, NodesEqual
<1> QED
  BY <1>4 DEF y, z

(* Nodes that a write makes equal are made equal by it after any other.    *)
LEMMA ApplyMerges ==
  ASSUME NEW x \in Node, NEW y \in Node, NEW v \in Writes, NEW w \in Writes,
         Apply(x, w) = Apply(y, w)
  PROVE  Apply(Apply(x, v), w) = Apply(Apply(y, v), w)
<1> DEFINE a == Apply(x, v)
           b == Apply(y, v)
<1>1. /\ w.key \in Keys /\ v.key \in Keys
      /\ Renewed(x[w.key], w) = Renewed(y[w.key], w)
      /\ \A k \in Keys : k # w.key => x[k] = y[k]
      /\ \A k \in Keys : x[k] \in Child \cup {Absent} /\ y[k] \in Child \cup {Absent}
  <2>1. \A k \in Keys : x[k] \in Child \cup {Absent} /\ y[k] \in Child \cup {Absent}
    BY DEF Node
  <2>2. w.key \in Keys /\ v.key \in Keys
    BY DEF Writes
  <2>3. Renewed(x[w.key], w) = Renewed(y[w.key], w)
    <3>1. /\ Apply(x, w)[w.key] = Renewed(x[w.key], w)
          /\ Apply(y, w)[w.key] = Renewed(y[w.key], w)
      BY ApplyPut
    <3> QED
      BY <3>1
  <2>4. \A k \in Keys : k # w.key => x[k] = y[k]
    <3>1. \A k \in Keys : k # w.key => Apply(x, w)[k] = x[k] /\ Apply(y, w)[k] = y[k]
      BY ApplyPut
    <3> QED
      BY <3>1
  <2> QED
    BY <2>1, <2>2, <2>3, <2>4
<1>2. /\ a \in Node /\ b \in Node
      /\ a[v.key] = Renewed(x[v.key], v) /\ b[v.key] = Renewed(y[v.key], v)
      /\ \A k \in Keys : k # v.key => a[k] = x[k] /\ b[k] = y[k]
  BY ApplyPut
<1> HIDE DEF a, b
<1>3. \A k \in Keys : k # w.key => a[k] = b[k]
  BY <1>1, <1>2
<1>4. Renewed(a[w.key], w) = Renewed(b[w.key], w)
  <2>1. CASE v.key # w.key
    BY <1>1, <1>2, <2>1
  <2>2. CASE v.key = w.key /\ v.op # "update"
    <3>1. Renewed(x[v.key], v) = Renewed(y[v.key], v)
      BY <2>2 DEF Renewed, Writes
    <3> QED
      BY <1>2, <2>2, <3>1
  <2>3. CASE w.op # "update"
    BY <2>3 DEF Renewed, Writes
  <2>4. CASE v.key = w.key /\ v.op = "update" /\ w.op = "update"
    BY <1>1, <1>2, <2>4, PutTwice
  <2> QED
    BY <2>1, <2>2, <2>3, <2>4
<1>5. Apply(a, w) = Apply(b, w)
  <2> DEFINE c == Apply(a, w)
             e == Apply(b, w)
  <2>1. /\ c \in Node /\ e \in Node
        /\ c[w.key] = Renewed(a[w.key], w) /\ e[w.key] = Renewed(b[w.key], w)
        /\ \A k \in Keys : k # w.key => c[k] = a[k] /\ e[k] = b[k]
    BY <1>2, ApplyPut
  <2> HIDE DEF c, e
  <2>2. c = e
    BY <1>3, <1>4, <2>1, NodesEqual
  <2> QED
    BY <2>2 DEF c, e
<1> QED
  BY <1>5 DEF a, b

(* A write that is made again later may as well be made before. *)
LEMMA LayeredAbsorbs ==
  ASSUME NEW x \in Node, NEW ws \in Seq(Writes), NEW i \in 1 .. Len(ws)
  PROVE  Layered(Apply(x, ws[i]), ws) = Layered(x, ws)
<1> DEFINE n == Len(ws)
           w == ws[i]
           y == Apply(x, w)
<1>1. n \in Nat /\ i \in 1 .. n /\ \A j \in 1 .. n : ws[j] \in Writes
  OBVIOUS
<1>2. w \in Writes /\ y \in Node
  BY <1>1, ApplyType
<1> HIDE DEF w, y
<1>3. PICK g \in [0 .. n -> Node] : /\ g[0] = x
                                    /\ \A j \in 1 .. n : g[j] = Apply(g[j - 1], ws[j])
                                    /\ Layered(x, ws) = g[n]
  BY LayeredSteps
<1>4. PICK h \in [0 .. n -> Node] : /\ h[0] = y
                                    /\ \A j \in 1 .. n : h[j] = Apply(h[j - 1], ws[j])
                                    /\ Layered(y, ws) = h[n]
  BY <1>2, LayeredSteps
<1> HIDE DEF n
<1> DEFINE S == {j \in 0 .. n : IF j < i THEN Apply(g[j], w) = Apply(h[j], w) ELSE g[j] = h[j]}
<1>5. 0 \in S
  <2>1. Apply(y, w) = Apply(x, w)
    BY <1>2, ApplyTwice DEF y
  <2>2. 0 \in 0 .. n /\ 0 < i
    BY <1>1
  <2> QED
    BY <1>3, <1>4, <2>1, <2>2
<1>6. ASSUME NEW j \in 1 .. n, j - 1 \in S PROVE j \in S
  <2>1. /\ j \in 0 .. n /\ j - 1 \in 0 .. n /\ i \in 1 .. n
        /\ g[j - 1] \in Node /\ h[j - 1] \in Node /\ ws[j] \in Writes
        /\ g[j] = Apply(g[j - 1], ws[j]) /\ h[j] = Apply(h[j - 1], ws[j])
    BY <1>1, <1>3, <1>4
  <2>2. CASE j < i
    <3>1. Apply(g[j - 1], w) = Apply(h[j - 1], w)
      <4>1. j - 1 < i
        BY <2>1, <2>2
      <4> QED
        BY <1>6, <4>1
    <3>2. Apply(g[j], w) = Apply(h[j], w)
      BY <1>2, <2>1, <3>1, ApplyMerges
    <3> QED
      BY <2>1, <2>2, <3>2
  <2>3. CASE j = i
    <3>1. Apply(g[j - 1], w) = Apply(h[j - 1], w) /\ ~(j < i)
      <4>1. j - 1 < i /\ ~(j < i)
        BY <2>1, <2>3
      <4> QED
        BY <1>6, <4>1
    <3>2. g[j] = h[j]
      BY <2>1, <2>3, <3>1 DEF w
    <3> QED
      BY <2>1, <3>1, <3>2
  <2>4. CASE j > i
    <3>1. ~(j - 1 < i) /\ ~(j < i)
      BY <2>1, <2>4
    <3>2. g[j - 1] = h[j - 1]
      BY <1>6, <3>1
    <3> QED
      BY <2>1, <3>1, <3>2
  <2> QED
    BY <2>1, <2>2, <2>3, <2>4
<1>7. n \in S
  <2>1. n \in 0 .. n
    BY <1>1
  <2> HIDE DEF S
  <2> QED
    BY <1>1, <1>5, <1>6, <2>1, UpTo
<1>8. g[n] = h[n]
  <2>1. ~(n < i)
    BY <1>1
  <2> QED
    BY <1>7, <2>1
<1> QED
  BY <1>3, <1>4, <1>8 DEF w, y

(* What is left of a client's writes when t are acknowledged. *)
After(p, t) == [i \in 1 .. Len(p) - t |-> p[i + t]]

LEMMA AfterType ==
  ASSUME NEW p \in Seq(Writes), NEW t \in 0 .. Len(p)
  PROVE  /\ After(p, t) \in Seq(Writes) /\ Len(After(p, t)) = Len(p) - t
         /\ Len(p) - t \in Nat
         /\ \A i \in 1 .. Len(p) - t : After(p, t)[i] = p[i + t]
<1>1. Len(p) - t \in Nat /\ Len(p) \in Nat /\ t \in Nat
  OBVIOUS
<1>2. \A i \in 1 .. Len(p) - t : p[i + t] \in Writes
  <2> SUFFICES ASSUME NEW i \in 1 .. Len(p) - t PROVE p[i + t] \in Writes
    OBVIOUS
  <2>1. i + t \in 1 .. Len(p)
    BY <1>1
  <2> QED
    BY <2>1
<1> QED
  BY <1>1, <1>2 DEF After

LEMMA AfterNone ==
  ASSUME NEW p \in Seq(Writes)
  PROVE  After(p, 0) = p
BY DEF After

LEMMA AfterTail ==
  ASSUME NEW p \in Seq(Writes), p # <<>>, NEW t \in 0 .. Len(p) - 1
  PROVE  After(Tail(p), t) = After(p, t + 1)
<1> DEFINE q == Tail(p)
           n == Len(p)
<1>1. /\ n \in Nat \ {0} /\ Len(q) = n - 1
      /\ \A i \in 1 .. n - 1 : q[i] = p[i + 1]
  BY FirstAndRest
<1> HIDE DEF q, n
<1>2. t \in 0 .. n - 1
  BY DEF n
<1>3. \A i \in 1 .. n - 1 - t : i + t \in 1 .. n - 1 /\ (i + t) + 1 = i + (t + 1)
  BY <1>1, <1>2
<1>4. n - 1 - t = n - (t + 1)
  BY <1>1, <1>2
<1>5. [i \in 1 .. n - 1 - t |-> q[i + t]] = [i \in 1 .. n - (t + 1) |-> p[i + (t + 1)]]
  BY <1>1, <1>3, <1>4
<1> QED
  BY <1>1, <1>5 DEF After, q, n

(* One more is made; more are added. *)
LEMMA AfterStep ==
  ASSUME NEW x \in Node, NEW p \in Seq(Writes), NEW t \in 0 .. Len(p) - 1
  PROVE  Layered(x, After(p, t)) = Layered(Apply(x, p[t + 1]), After(p, t + 1))
<1> DEFINE q == After(p, t)
           n == Len(p)
<1>1. n \in Nat /\ t \in 0 .. n /\ t + 1 \in 0 .. n /\ n - t \in Nat \ {0} /\ 1 \in 1 .. n - t
  OBVIOUS
<1>2. /\ q \in Seq(Writes) /\ Len(q) = n - t
      /\ \A i \in 1 .. n - t : q[i] = p[i + t]
  BY <1>1, AfterType
<1>3. q # <<>> /\ q[1] = p[1 + t] /\ 1 + t = t + 1
  BY <1>1, <1>2
<1>4. Tail(q) = After(q, 1)
  <2>1. 0 \in 0 .. Len(q) - 1 /\ 0 + 1 = 1
    BY <1>1, <1>2
  <2>2. After(Tail(q), 0) = After(q, 1)
    BY <1>2, <1>3, <2>1, AfterTail
  <2>3. Tail(q) \in Seq(Writes)
    BY <1>2, <1>3, FirstAndRest
  <2> QED
    BY <2>2, <2>3, AfterNone
<1>5. After(q, 1) = After(p, t + 1)
  <2> HIDE DEF q, n
  <2>1. \A i \in 1 .. n - t - 1 : i + 1 \in 1 .. n - t /\ (i + 1) + t = i + (t + 1)
    BY <1>1
  <2>2. n - t - 1 = n - (t + 1)
    BY <1>1
  <2>3. [i \in 1 .. n - t - 1 |-> q[i + 1]] = [i \in 1 .. n - (t + 1) |-> p[i + (t + 1)]]
    BY <1>2, <2>1, <2>2
  <2> QED
    BY <1>2, <2>3 DEF After, n
<1> HIDE DEF q
<1>6. Layered(x, q) = Layered(Apply(x, q[1]), Tail(q))
  BY <1>2, <1>3, LayeredFirst
<1> QED
  BY <1>3, <1>4, <1>5, <1>6 DEF q

LEMMA AfterConcat ==
  ASSUME NEW p \in Seq(Writes), NEW ws \in Seq(Writes), NEW t \in 0 .. Len(p)
  PROVE  After(p \o ws, t) = After(p, t) \o ws
<1> DEFINE r == p \o ws
           q == After(p, t)
           m == Len(p)
           n == Len(ws)
<1>1. /\ r \in Seq(Writes) /\ m \in Nat /\ n \in Nat /\ Len(r) = m + n
      /\ \A i \in 1 .. m : r[i] = p[i]
      /\ \A i \in 1 .. n : r[m + i] = ws[i]
  BY Joined
<1>2. /\ q \in Seq(Writes) /\ Len(q) = m - t /\ t \in 0 .. m /\ m - t \in Nat
      /\ \A i \in 1 .. m - t : q[i] = p[i + t]
  BY AfterType
<1>3. /\ q \o ws \in Seq(Writes) /\ Len(q \o ws) = Len(q) + n
      /\ \A i \in 1 .. Len(q) : (q \o ws)[i] = q[i]
      /\ \A i \in 1 .. n : (q \o ws)[Len(q) + i] = ws[i]
  <2>1. q \in Seq(Writes) /\ ws \in Seq(Writes)
    BY <1>2
  <2> HIDE DEF q
  <2> QED
    BY <2>1, Joined
<1> HIDE DEF r, q, m, n
<1>4. /\ After(r, t) \in Seq(Writes) /\ Len(After(r, t)) = (m + n) - t
      /\ \A i \in 1 .. (m + n) - t : After(r, t)[i] = r[i + t]
  <2>1. r \in Seq(Writes) /\ t \in 0 .. Len(r)
    BY <1>1, <1>2
  <2>2. /\ After(r, t) \in Seq(Writes) /\ Len(After(r, t)) = Len(r) - t
        /\ \A i \in 1 .. Len(r) - t : After(r, t)[i] = r[i + t]
    BY <2>1, AfterType
  <2>3. Len(r) = m + n
    BY <1>1
  <2> QED
    BY <2>2, <2>3
<1>5. ASSUME NEW i \in 1 .. (m + n) - t PROVE After(r, t)[i] = (q \o ws)[i]
  <2>1. CASE i <= m - t
    <3>1. i \in 1 .. m - t /\ i + t \in 1 .. m
      BY <1>1, <1>2, <2>1
    <3> QED
      BY <1>1, <1>2, <1>3, <1>4, <3>1
  <2>2. CASE i > m - t
    <3> DEFINE j == i - (m - t)
    <3>1. j \in 1 .. n /\ i + t = m + j /\ i = Len(q) + j
      BY <1>1, <1>2, <2>2
    <3> HIDE DEF j
    <3>2. (q \o ws)[Len(q) + j] = ws[j] /\ r[m + j] = ws[j]
      BY <1>1, <1>3, <3>1
    <3>3. After(r, t)[i] = r[i + t]
      BY <1>4
    <3> QED
      BY <3>1, <3>2, <3>3
  <2>3. i <= m - t \/ i > m - t
    BY <1>1, <1>2
  <2> QED
    BY <2>1, <2>2, <2>3
<1>6. Len(After(r, t)) = Len(q \o ws)
  BY <1>1, <1>2, <1>3, <1>4
<1>7. After(r, t) = q \o ws
  <2>1. Len(After(r, t)) = (m + n) - t
    BY <1>4
  <2> QED
    BY <1>3, <1>4, <1>5, <1>6, SeqEqual
<1> QED
  BY <1>7 DEF r, q

----------------------------------------------------------------------------
(* A device that records alone is not disturbed. *)

(* Nobody else writes; what is still to be made of the writes of the only  *)
(* device that does, on top of the server's value and of every value on    *)
(* its way, is what the device shows.  This holds from any number of the   *)
(* writes the server has answered on: it may have to take them again.      *)
Alone(d) ==
    IF synced[d]
    THEN /\ \A t \in 0 .. Taken(d) : Layered(server, After(pending[d], t)) = View(d)
         /\ \A i \in 1 .. Len(inbox[d]) :
                Layered(inbox[d][i].node, After(pending[d], OwnIn(inbox[d], i))) = View(d)
    ELSE /\ pending[d] = <<>>
         /\ \A i \in 1 .. Len(inbox[d]) : inbox[d][i].node = server

AloneInv ==
    /\ \A e \in Devices \ writers : pending[e] = <<>>
    /\ \A d \in Devices : writers = {d} => Alone(d)

LEMMA OthersIdle ==
  ASSUME TypeOK, NEW f \in Devices, f \notin writers, pending[f] = <<>>, [Next]_vars
  PROVE  pending'[f] = <<>>
<1>1. ASSUME NEW d \in Devices, DeviceStep(d)
      PROVE  pending'[f] = <<>>
  <2>1. ASSUME NEW s \in PuckLists, NEW ws \in Seq(Writes), Written(d, s, ws)
        PROVE  pending'[f] = <<>>
    BY <2>1 DEF Written, TypeOK
  <2>2. CASE Ends(d)
    BY <2>2 DEF Ends, TypeOK
  <2>3. CASE Connect(d) \/ Disconnect(d) \/ ServerTakes(d) \/ Relaunch(d)
    BY <2>3, ViewOther
  <2>4. ASSUME NEW m, NEW rest, Received(d, m, rest)
        PROVE  pending'[f] = <<>>
    <3>1. CASE f = d
      <4>1. ~m.own /\ rest = pending[f]
        BY <2>4, <3>1, ReceivedInbox
      <4> QED
        BY <2>4, <3>1, <4>1 DEF Received, TypeOK
    <3>2. CASE f # d
      BY <2>4, <3>2 DEF Received, TypeOK
    <3> QED
      BY <3>1, <3>2
  <2> QED
    BY <1>1, <2>1, <2>2, <2>3, <2>4 DEF DeviceStep
<1>2. CASE UNCHANGED vars
  BY <1>2 DEF vars, client
<1> QED
  BY <1>1, <1>2, Steps

(* What a step leaves of d's inbox, view and writes decides. *)
LEMMA AloneSame ==
  ASSUME NEW d \in Devices, Alone(d), View(d)' = View(d), synced'[d] = synced[d],
         server' = server, inbox'[d] = inbox[d], pending'[d] = pending[d]
  PROVE  Alone(d)'
<1>1. Taken(d)' = Taken(d)
  BY TakenSame
<1> QED
  BY <1>1 DEF Alone

LEMMA AloneWritten ==
  ASSUME TypeOK, NEW d \in Devices, Alone(d), NEW s \in PuckLists, NEW ws \in Seq(Writes),
         Written(d, s, ws)
  PROVE  Alone(d)'
<1> DEFINE p == pending[d]
<1>1. /\ synced[d] /\ synced'[d] /\ server' = server /\ inbox'[d] = inbox[d]
      /\ pending'[d] = p \o ws /\ View(d)' = Layered(View(d), ws)
      /\ Taken(d)' = Taken(d)
  BY ViewWritten, TakenSame DEF Written, TypeOK
<1>2. /\ p \in Seq(Writes) /\ inbox[d] \in Seq(Messages) /\ Len(inbox[d]) \in Nat
      /\ Taken(d) = OwnIn(inbox[d], Len(inbox[d])) /\ Taken(d) \in Nat
      /\ Taken(d) <= Len(p) /\ Len(p) \in Nat
  <2>1. p \in Seq(Writes) /\ inbox[d] \in Seq(Messages) /\ Taken(d) <= Len(p)
    BY ViewType DEF TypeOK
  <2> QED
    BY <2>1, TakenIsOwn
<1>3. ASSUME NEW x \in Node, NEW t \in 0 .. Taken(d), Layered(x, After(p, t)) = View(d)
      PROVE  Layered(x, After(p \o ws, t)) = Layered(View(d), ws)
  <2>1. t \in 0 .. Len(p)
    BY <1>2
  <2>2. After(p \o ws, t) = After(p, t) \o ws /\ After(p, t) \in Seq(Writes)
    BY <1>2, <2>1, AfterConcat, AfterType
  <2> QED
    BY <1>3, <2>2, LayeredConcat
<1>4. ASSUME NEW t \in 0 .. Taken(d)
      PROVE  Layered(server, After(p \o ws, t)) = Layered(View(d), ws)
  BY <1>1, <1>3 DEF Alone, TypeOK
<1>5. ASSUME NEW i \in 1 .. Len(inbox[d])
      PROVE  Layered(inbox[d][i].node, After(p \o ws, OwnIn(inbox[d], i))) = Layered(View(d), ws)
  <2>1. inbox[d][i].node \in Node
    <3>1. inbox[d][i] \in Messages
      BY <1>2
    <3> QED
      BY <3>1 DEF Messages
  <2>2. OwnIn(inbox[d], i) \in 0 .. Taken(d)
    <3>1. i \in Nat /\ i \in 0 .. Len(inbox[d])
      BY <1>2
    <3>2. OwnIn(inbox[d], i) \in Nat /\ OwnIn(inbox[d], i) <= OwnIn(inbox[d], Len(inbox[d]))
      BY <1>2, <3>1, OwnType, OwnGrows
    <3> QED
      BY <1>2, <3>2
  <2>3. Layered(inbox[d][i].node, After(p, OwnIn(inbox[d], i))) = View(d)
    BY <1>1 DEF Alone
  <2> QED
    BY <1>3, <2>1, <2>2, <2>3
<1> QED
  BY <1>1, <1>4, <1>5 DEF Alone

(* A device that is not connected has no messages: what it hears of after  *)
(* it connects is the server's value.                                      *)
LEMMA AloneConnects ==
  ASSUME TypeOK, OnlineKnows, NEW d \in Devices, Alone(d), Connect(d) \/ Disconnect(d)
  PROVE  Alone(d)'
<1>1. /\ View(d)' = View(d) /\ pending'[d] = pending[d] /\ synced'[d] = synced[d]
      /\ server' = server /\ server \in Node /\ pending[d] \in Seq(Writes)
  BY ViewOther, ViewType DEF Connect, Disconnect, TypeOK
<1>2. inbox'[d] = <<>> \/ inbox'[d] = <<Value(server, FALSE)>>
  BY DEF Connect, Disconnect, TypeOK
<1>3. Taken(d)' = 0
  BY <1>2, TakenNone
<1>4. synced[d] => Layered(server, After(pending[d], 0)) = View(d)
  <2>1. 0 \in 0 .. Taken(d)
    BY ViewType, TakenIsOwn
  <2> QED
    BY <2>1 DEF Alone
<1>5. ASSUME NEW i \in 1 .. Len(inbox'[d])
      PROVE  inbox'[d][i].node = server /\ OwnIn(inbox'[d], i) = 0
  <2> DEFINE v == Value(server, FALSE)
  <2>1. v.node = server /\ ~v.own
    BY DEF Value
  <2> HIDE DEF v
  <2>2. inbox'[d] = <<>> \/ inbox'[d] = <<v>>
    BY <1>2 DEF v
  <2>3. i = 1 /\ inbox'[d][1] = v
    <3>1. CASE inbox'[d] = <<>>
      BY <3>1
    <3>2. CASE inbox'[d] = <<v>>
      BY <3>2
    <3> QED
      BY <2>2, <3>1, <3>2
  <2>4. OwnIn(inbox'[d], 1) = OwnIn(inbox'[d], 1 - 1) + One(inbox'[d][1].own)
    BY OwnNext
  <2>5. OwnIn(inbox'[d], 0) = 0 /\ One(v.own) = 0
    BY <2>1, OwnNone DEF One
  <2> QED
    BY <2>1, <2>3, <2>4, <2>5
<1> QED
  BY <1>1, <1>3, <1>4, <1>5 DEF Alone

(* The server takes the next write, perhaps once more. *)
LEMMA AloneTaken ==
  ASSUME TypeOK, NEW d \in Devices, Alone(d), ServerTakes(d)
  PROVE  Alone(d)'
<1> DEFINE p == pending[d]
           n == Taken(d)
           q == inbox[d]
           w == p[n + 1]
           m == Value(server', TRUE)
<1>1. /\ n \in Nat /\ n + 1 \in 1 .. Len(p) /\ w \in Writes /\ p \in Seq(Writes) /\ Len(p) \in Nat
      /\ server' = Apply(server, w) /\ server' \in Node /\ server \in Node
      /\ online[d] /\ q \in Seq(Messages)
  <2>1. p \in Seq(Writes) /\ Len(p) \in Nat /\ q \in Seq(Messages)
    BY ViewType
  <2>2. server \in Node /\ online[d]
    BY DEF ServerTakes, TypeOK
  <2> QED
    BY <2>1, <2>2, ServerTakesInbox
<1>2. /\ m \in Messages /\ inbox'[d] = Append(q, m) /\ Taken(d)' = n + 1
      /\ m.node = server' /\ m.own = TRUE
  <2>1. m.node = server' /\ m.own = TRUE
    BY DEF Value
  <2>2. /\ Value(server', d = d) \in Messages /\ inbox'[d] = Append(q, Value(server', d = d))
        /\ Taken(d)' = n + One(d = d)
    BY <1>1, ServerTakesInbox
  <2>3. One(d = d) = 1 /\ (d = d) = TRUE
    BY DEF One
  <2> QED
    BY <2>1, <2>2, <2>3
<1>3. View(d)' = View(d) /\ pending'[d] = p /\ synced'[d] = synced[d]
  BY ViewOther DEF ServerTakes
<1>4. synced[d]
  <2>1. p # <<>>
    BY <1>1
  <2> QED
    BY <2>1 DEF Alone
<1>5. /\ \A t \in 0 .. n : Layered(server, After(p, t)) = View(d)
      /\ \A i \in 1 .. Len(q) : Layered(q[i].node, After(p, OwnIn(q, i))) = View(d)
  BY <1>4 DEF Alone
<1>6. n = OwnIn(q, Len(q)) /\ Len(q) \in Nat
  BY <1>1, TakenIsOwn
<1>7. /\ Len(Append(q, m)) = Len(q) + 1 /\ Append(q, m)[Len(q) + 1] = m
      /\ \A i \in 1 .. Len(q) : Append(q, m)[i] = q[i]
      /\ \A i \in 0 .. Len(q) : OwnIn(Append(q, m), i) = OwnIn(q, i)
      /\ OwnIn(Append(q, m), Len(q) + 1) = OwnIn(q, Len(q)) + One(m.own)
  BY <1>1, <1>2, OwnAppend
<1> DEFINE r == Append(q, m)
<1> HIDE DEF p, n, q, w, m, r
<1>8. Layered(server', After(p, n + 1)) = View(d)
  <2>1. n \in 0 .. Len(p) - 1 /\ n \in 0 .. n
    BY <1>1
  <2>2. Layered(server, After(p, n)) = Layered(Apply(server, w), After(p, n + 1))
    BY <1>1, <2>1, AfterStep DEF w
  <2> QED
    BY <1>1, <1>5, <2>1, <2>2
<1>9. ASSUME NEW t \in 0 .. n + 1
      PROVE  Layered(server', After(p, t)) = View(d)
  <2>1. CASE t = n + 1
    BY <1>8, <2>1
  <2>2. CASE t # n + 1
    <3> DEFINE ws == After(p, t)
               i == n + 1 - t
    <3>1. t \in 0 .. n /\ t \in 0 .. Len(p) /\ i \in 1 .. Len(p) - t /\ i + t = n + 1
      BY <1>1, <2>2
    <3>2. ws \in Seq(Writes) /\ Len(ws) = Len(p) - t /\ ws[i] = p[i + t]
      BY <1>1, <3>1, AfterType
    <3>3. ws[i] = w /\ i \in 1 .. Len(ws)
      BY <3>1, <3>2 DEF w
    <3> HIDE DEF ws, i
    <3>4. Layered(Apply(server, ws[i]), ws) = Layered(server, ws)
      BY <1>1, <3>2, <3>3, LayeredAbsorbs
    <3> QED
      BY <1>1, <1>5, <3>1, <3>3, <3>4 DEF ws
  <2> QED
    BY <2>1, <2>2
<1>10. ASSUME NEW i \in 1 .. Len(q) + 1
       PROVE  Layered(r[i].node, After(p, OwnIn(r, i))) = View(d)
  <2>1. CASE i = Len(q) + 1
    <3>1. OwnIn(r, i) = n + 1 /\ r[i] = m
      BY <1>2, <1>6, <1>7, <2>1 DEF One, r
    <3> QED
      BY <1>2, <1>8, <3>1
  <2>2. CASE i # Len(q) + 1
    <3>1. i \in 1 .. Len(q) /\ i \in 0 .. Len(q)
      BY <1>6, <2>2
    <3>2. OwnIn(r, i) = OwnIn(q, i) /\ r[i] = q[i]
      BY <1>7, <3>1 DEF r
    <3> QED
      BY <1>5, <3>1, <3>2
  <2> QED
    BY <2>1, <2>2
<1>11. inbox'[d] = r /\ Len(r) = Len(q) + 1
  BY <1>2, <1>7 DEF r
<1> QED
  BY <1>2, <1>3, <1>4, <1>9, <1>10, <1>11 DEF Alone, p, n

(* The value at the head of the inbox, with the writes on top that are     *)
(* still to be acknowledged after it, is what the device shows.            *)
LEMMA AloneHears ==
  ASSUME TypeOK, NEW d \in Devices, Alone(d), synced[d], NEW m, NEW rest,
         inbox[d] # <<>>, m = Head(inbox[d]),
         rest = IF m.own THEN Tail(pending[d]) ELSE pending[d],
         m.own => pending[d] # <<>>
  PROVE  /\ rest = After(pending[d], One(m.own))
         /\ Layered(m.node, rest) = View(d)
<1>1. /\ inbox[d] \in Seq(Messages) /\ pending[d] \in Seq(Writes)
      /\ m = inbox[d][1] /\ Len(inbox[d]) \in Nat \ {0}
  BY ViewType, OwnTail
<1>2. OwnIn(inbox[d], 1) = One(m.own)
  BY <1>1, OwnFirst
<1>3. rest = After(pending[d], One(m.own))
  <2>1. CASE m.own
    <3>1. Tail(pending[d]) \in Seq(Writes) /\ 0 \in 0 .. Len(pending[d]) - 1 /\ 0 + 1 = 1
      BY <1>1, <2>1, FirstAndRest
    <3>2. After(Tail(pending[d]), 0) = After(pending[d], 1)
      BY <1>1, <2>1, <3>1, AfterTail
    <3> QED
      BY <2>1, <3>1, <3>2, AfterNone DEF One
  <2>2. CASE ~m.own
    BY <1>1, <2>2, AfterNone DEF One
  <2> QED
    BY <2>1, <2>2
<1>4. 1 \in 1 .. Len(inbox[d])
  BY <1>1
<1>5. Layered(inbox[d][1].node, After(pending[d], OwnIn(inbox[d], 1))) = View(d)
  BY <1>4 DEF Alone
<1> QED
  BY <1>1, <1>2, <1>3, <1>5

LEMMA AloneReceived ==
  ASSUME TypeOK, NEW d \in Devices, Alone(d), NEW m, NEW rest, Received(d, m, rest)
  PROVE  Alone(d)'
<1> DEFINE p == pending[d]
           q == inbox[d]
           r == Tail(q)
           o == One(m.own)
<1>1. /\ q # <<>> /\ m = Head(q)
      /\ rest = IF m.own THEN Tail(p) ELSE p
      /\ pending'[d] = rest /\ synced'[d] /\ server' = server /\ server \in Node
  BY DEF Received, TypeOK
<1>2. /\ m = q[1] /\ m \in Messages /\ m.node \in Node /\ inbox'[d] = r
      /\ Taken(d)' + o = Taken(d) /\ Taken(d)' \in Nat
      /\ m.own => p # <<>>
      /\ rest \in Seq(Writes)
  BY ReceivedInbox
<1>3. /\ q \in Seq(Messages) /\ p \in Seq(Writes) /\ Len(p) \in Nat
      /\ Taken(d) <= Len(p) /\ Taken(d) \in Nat /\ o \in {0, 1}
  <2>1. q \in Seq(Messages) /\ p \in Seq(Writes)
    BY ViewType
  <2> QED
    BY <2>1, TakenIsOwn DEF TypeOK, One
<1>4. /\ r \in Seq(Messages) /\ Len(q) \in Nat \ {0} /\ Len(r) = Len(q) - 1
      /\ \A i \in 1 .. Len(r) : r[i] = q[i + 1]
      /\ \A i \in 0 .. Len(r) : OwnIn(q, i + 1) = OwnIn(r, i) + o
  BY <1>1, <1>2, <1>3, OwnTail
<1>5. View(d)' = Layered(m.node, rest)
  BY ViewReceived
<1>6. Taken(d)' = OwnIn(r, Len(r))
  <2>1. DOMAIN inbox'[d] = 1 .. Len(inbox'[d])
    BY <1>2, <1>4
  <2> QED
    BY <1>2, <2>1 DEF Taken, OwnIn
<1>7. ASSUME NEW i \in 1 .. Len(r)
      PROVE  /\ i + 1 \in 1 .. Len(q) /\ i \in 0 .. Len(r) /\ r[i] = q[i + 1]
             /\ OwnIn(r, i) \in 0 .. Taken(d)'
             /\ OwnIn(r, i) + o = OwnIn(q, i + 1)
  <2>1. i + 1 \in 1 .. Len(q) /\ i \in 0 .. Len(r) /\ i \in Nat /\ Len(r) \in Nat
    BY <1>4
  <2>2. OwnIn(r, i) \in Nat /\ OwnIn(r, i) <= OwnIn(r, Len(r))
    BY <2>1, OwnType, OwnGrows
  <2>3. OwnIn(r, i) \in 0 .. Taken(d)'
    BY <1>2, <1>6, <2>2
  <2> QED
    BY <1>4, <2>1, <2>3
<1>8. CASE synced[d]
  <2>1. rest = After(p, o) /\ Layered(m.node, rest) = View(d)
    BY <1>1, <1>2, <1>8, AloneHears
  <2>2. ASSUME NEW t \in 0 .. Taken(d)'
        PROVE  t + o \in 0 .. Taken(d) /\ After(rest, t) = After(p, t + o)
    <3>1. t + o \in 0 .. Taken(d) /\ t \in Nat
      BY <1>2, <1>3
    <3>2. CASE m.own
      <4>1. o = 1 /\ p # <<>> /\ rest = Tail(p) /\ t \in 0 .. Len(p) - 1
        BY <1>1, <1>2, <1>3, <3>1, <3>2 DEF One
      <4> QED
        BY <1>3, <3>1, <4>1, AfterTail
    <3>3. CASE ~m.own
      <4>1. o = 0 /\ rest = p /\ t + 0 = t
        BY <1>1, <3>1, <3>3 DEF One
      <4> QED
        BY <3>1, <4>1
    <3> QED
      BY <3>2, <3>3
  <2> HIDE DEF p, q, r, o
  <2>3. ASSUME NEW t \in 0 .. Taken(d)'
        PROVE  Layered(server, After(rest, t)) = View(d)
    BY <1>8, <2>2 DEF Alone, p
  <2>4. ASSUME NEW i \in 1 .. Len(r)
        PROVE  Layered(r[i].node, After(rest, OwnIn(r, i))) = View(d)
    <3>1. After(rest, OwnIn(r, i)) = After(p, OwnIn(q, i + 1))
      BY <1>7, <2>2
    <3>2. Layered(q[i + 1].node, After(p, OwnIn(q, i + 1))) = View(d)
      BY <1>7, <1>8 DEF Alone, p, q
    <3> QED
      BY <1>7, <3>1, <3>2
  <2> QED
    BY <1>1, <1>2, <1>5, <2>1, <2>3, <2>4 DEF Alone
<1>9. CASE ~synced[d]
  <2>1. p = <<>> /\ \A i \in 1 .. Len(q) : q[i].node = server
    BY <1>9 DEF Alone
  <2>2. ~m.own /\ rest = <<>>
    BY <1>1, <1>2, <2>1
  <2>3. m.node = server
    <3>1. 1 \in 1 .. Len(q)
      BY <1>4
    <3> QED
      BY <1>2, <2>1, <3>1
  <2>4. View(d)' = server
    BY <1>1, <1>5, <2>2, <2>3, LayeredEmpty
  <2>5. Taken(d)' = 0
    <3>1. Len(p) = 0 /\ o = 0
      BY <2>1, <2>2 DEF One
    <3> HIDE DEF p, o
    <3> QED
      BY <1>2, <1>3, <3>1
  <2>6. After(rest, 0) = <<>> /\ Layered(server, <<>>) = server
    <3>1. rest \in Seq(Writes)
      BY <1>2
    <3> QED
      BY <1>1, <2>2, <3>1, AfterNone, LayeredEmpty
  <2> HIDE DEF p, q, r, o
  <2>7. ASSUME NEW t \in 0 .. Taken(d)'
        PROVE  Layered(server, After(rest, t)) = server
    <3>1. t = 0
      BY <2>5
    <3> QED
      BY <2>6, <3>1
  <2>8. ASSUME NEW i \in 1 .. Len(r)
        PROVE  Layered(r[i].node, After(rest, OwnIn(r, i))) = server
    <3>1. OwnIn(r, i) = 0 /\ r[i].node = server
      BY <1>7, <2>1, <2>5
    <3> QED
      BY <2>6, <3>1
  <2> QED
    BY <1>1, <1>2, <2>4, <2>7, <2>8 DEF Alone
<1> QED
  BY <1>8, <1>9

LEMMA AloneStep ==
  ASSUME TypeOK, OnlineKnows, AloneInv, [Next]_vars
  PROVE  AloneInv'
<1>1. writers' = writers
  BY UsersStay
<1>2. \A e \in Devices \ writers : pending'[e] = <<>>
  BY OthersIdle DEF AloneInv
<1>3. ASSUME NEW d \in Devices, writers = {d}
      PROVE  Alone(d)'
  <2>0. Alone(d) /\ \A e \in Devices \ {d} : pending[e] = <<>>
    BY <1>3 DEF AloneInv
  <2>1. ASSUME NEW e \in Devices, NEW s \in PuckLists, NEW ws \in Seq(Writes), Written(e, s, ws)
        PROVE  Alone(d)'
    <3>1. e = d
      BY <1>3, <2>1 DEF Written
    <3> QED
      BY <2>0, <2>1, <3>1, AloneWritten
  <2>2. ASSUME NEW e \in Devices, Ends(e)
        PROVE  Alone(d)'
    <3>1. CASE e = d
      <4>1. ~synced'[d] /\ pending'[d] = <<>> /\ inbox'[d] = <<>>
        BY <2>2, <3>1 DEF Ends, TypeOK
      <4> QED
        BY <4>1 DEF Alone
    <3>2. CASE e # d
      <4>1. /\ View(d)' = View(d) /\ synced'[d] = synced[d] /\ server' = server
            /\ inbox'[d] = inbox[d] /\ pending'[d] = pending[d]
        BY <2>2, <3>2, ViewEnds DEF Ends, TypeOK
      <4> QED
        BY <2>0, <4>1, AloneSame
    <3> QED
      BY <3>1, <3>2
  <2>3. ASSUME NEW e \in Devices, Connect(e) \/ Disconnect(e)
        PROVE  Alone(d)'
    <3>1. CASE e = d
      BY <2>0, <2>3, <3>1, AloneConnects
    <3>2. CASE e # d
      <4>1. /\ synced' = synced /\ server' = server /\ inbox'[d] = inbox[d] /\ pending' = pending
        BY <2>3, <3>2 DEF Connect, Disconnect, TypeOK
      <4>2. View(d)' = View(d)
        BY <2>3, ViewOther
      <4> QED
        BY <2>0, <4>1, <4>2, AloneSame
    <3> QED
      BY <3>1, <3>2
  <2>4. ASSUME NEW e \in Devices, ServerTakes(e)
        PROVE  Alone(d)'
    <3>1. e = d
      <4>1. pending[e] # <<>>
        <5>1. Taken(e) + 1 \in 1 .. Len(pending[e])
          BY <2>4, ServerTakesInbox
        <5> QED
          BY <5>1
      <4> QED
        BY <2>0, <4>1
    <3> QED
      BY <2>0, <2>4, <3>1, AloneTaken
  <2>5. ASSUME NEW e \in Devices, NEW m, NEW rest, Received(e, m, rest)
        PROVE  Alone(d)'
    <3>1. CASE e = d
      BY <2>0, <2>5, <3>1, AloneReceived
    <3>2. CASE e # d
      <4>1. /\ synced'[d] = synced[d] /\ server' = server
            /\ inbox'[d] = inbox[d] /\ pending'[d] = pending[d]
        BY <2>5, <3>2 DEF Received, TypeOK
      <4>2. View(d)' = View(d)
        BY <2>5, <3>2, ViewReceived
      <4> QED
        BY <2>0, <4>1, <4>2, AloneSame
    <3> QED
      BY <3>1, <3>2
  <2>6. ASSUME NEW e \in Devices, Relaunch(e) \/ UNCHANGED vars
        PROVE  Alone(d)'
    <3>1. /\ synced' = synced /\ server' = server /\ inbox' = inbox /\ pending' = pending
      BY <2>6 DEF Relaunch, vars, client
    <3>2. View(d)' = View(d)
      BY <2>6, ViewOther
    <3> QED
      BY <2>0, <3>1, <3>2, AloneSame
  <2> QED
    BY <2>1, <2>2, <2>3, <2>4, <2>5, <2>6, Steps DEF DeviceStep
<1> QED
  BY <1>1, <1>2, <1>3 DEF AloneInv

LEMMA AloneInit == Init => AloneInv
<1> SUFFICES ASSUME Init PROVE AloneInv
  OBVIOUS
<1>1. server \in Node
  BY NodeOfType, SharedGameAssumption DEF Init
<1>2. ASSUME NEW d \in Devices
      PROVE  Alone(d)
  <2>1. synced[d] /\ pending[d] = <<>> /\ inbox[d] = <<>> /\ serverCache[d] = server
    BY DEF Init
  <2>2. View(d) = server
    BY <1>1, <2>1, LayeredEmpty DEF View
  <2>3. Taken(d) = 0
    <3>1. {i \in DOMAIN inbox[d] : inbox[d][i].own} = {}
      BY <2>1
    <3> QED
      BY <3>1, FS_EmptySet DEF Taken
  <2>4. After(pending[d], 0) = <<>>
    <3>1. <<>> \in Seq(Writes)
      OBVIOUS
    <3> QED
      BY <2>1, <3>1, AfterNone
  <2>5. ASSUME NEW t \in 0 .. Taken(d)
        PROVE  Layered(server, After(pending[d], t)) = View(d)
    <3>1. t = 0
      BY <2>3
    <3> QED
      BY <1>1, <2>2, <2>4, <3>1, LayeredEmpty
  <2> QED
    BY <2>1, <2>5 DEF Alone
<1> QED
  BY <1>2 DEF Init, AloneInv

LEMMA DevicesAlways == Spec => [](TypeOK /\ ListsShow /\ OnlineKnows /\ AloneInv)
<1>1. Init => TypeOK /\ ListsShow /\ OnlineKnows /\ AloneInv
  BY TypeInit, ShowInit, KnowsInit, AloneInit
<1>2. TypeOK /\ ListsShow /\ OnlineKnows /\ AloneInv /\ [Next]_vars
         => (TypeOK /\ ListsShow /\ OnlineKnows /\ AloneInv)'
  BY TypeNext, ShowStep, KnowsStep, AloneStep
<1> QED
  BY <1>1, <1>2, PTL DEF Spec

(* Who records alone is not disturbed: acknowledgements, any number of     *)
(* connections lost with answers on them, and writes that the server takes *)
(* twice or more never change the list on the device that made them, nor   *)
(* the node it shows.                                                      *)
THEOREM SoleWriterIsUndisturbed == Spec => WriterUndisturbed
<1>1. ASSUME TypeOK, AloneInv, NEW d \in Devices,
             writers = {d}, synced[d], Receive(d)
      PROVE  pucks'[d] = pucks[d] /\ View(d)' = View(d)
  <2> DEFINE m == Head(inbox[d])
             rest == IF m.own THEN Tail(pending[d]) ELSE pending[d]
             new == Layered(m.node, rest)
  <2>1. inbox[d] # <<>> /\ inbox[d] \in Seq(Messages) /\ pending[d] \in Seq(Writes)
    BY <1>1, ViewType DEF Receive
  <2>2. m.own => pending[d] # <<>>
    <3>1. /\ Len(inbox[d]) \in Nat \ {0} /\ Len(Tail(inbox[d])) = Len(inbox[d]) - 1
          /\ Head(inbox[d]) = inbox[d][1] /\ Tail(inbox[d]) \in Seq(Messages)
          /\ \A i \in 0 .. Len(Tail(inbox[d])) :
                OwnIn(inbox[d], i + 1) = OwnIn(Tail(inbox[d]), i) + One(inbox[d][1].own)
      BY <2>1, OwnTail
    <3>2. Taken(d) = OwnIn(inbox[d], Len(inbox[d])) /\ Taken(d) <= Len(pending[d])
      BY <1>1, <2>1, TakenIsOwn DEF TypeOK
    <3> DEFINE k == Len(inbox[d]) - 1
               n == OwnIn(Tail(inbox[d]), k)
    <3>3. k \in Nat /\ k \in 0 .. Len(Tail(inbox[d])) /\ k + 1 = Len(inbox[d])
      BY <3>1
    <3>4. Taken(d) = n + One(m.own)
      BY <3>1, <3>2, <3>3
    <3>5. n \in Nat
      BY <3>3, OwnType
    <3> HIDE DEF n
    <3>6. m.own => Len(pending[d]) # 0
      BY <2>1, <3>2, <3>4, <3>5 DEF One
    <3> QED
      BY <3>6
  <2>3. Alone(d)
    BY <1>1 DEF AloneInv
  <2>4. new = View(d)
    BY <1>1, <2>1, <2>2, <2>3, AloneHears
  <2>5. Received(d, m, rest)
    BY <1>1 DEF Receive, Hears, Received
  <2>6. pucks' = [pucks EXCEPT ![d] = Hear(@, View(d), new)] /\ View(d)' = new
    BY <1>1, <2>5, ViewReceived DEF Received
  <2>7. Hear(pucks[d], View(d), new) = pucks[d]
    BY <2>4 DEF Hear
  <2> HIDE DEF new
  <2>8. pucks' = [pucks EXCEPT ![d] = pucks[d]]
    BY <2>6, <2>7
  <2> QED
    BY <1>1, <2>4, <2>6, <2>8 DEF TypeOK
<1>2. TypeOK /\ ListsShow /\ OnlineKnows /\ AloneInv =>
        [\A d \in Devices :
            writers = {d} /\ synced[d] /\ Receive(d) =>
                pucks'[d] = pucks[d] /\ View(d)' = View(d)]_vars
  BY <1>1
<1> QED
  BY <1>2, DevicesAlways, PTL DEF WriterUndisturbed

----------------------------------------------------------------------------
(* Devices that only add pucks leave no gap. *)

(* The number of keys that w needs below it, and the number there are      *)
(* after it.                                                               *)
Needs(w) == IF w.op = "update" THEN w.key + 1 ELSE w.key

(* n keys are there after the first i writes on top of a node of size c,   *)
(* if nothing was removed and no gap was left.                             *)
Reaches(ws, i, c, n) ==
    n <= c \/ \E j \in 1 .. i : ws[j].op = "set" /\ n <= ws[j].key + 1

(* The writes, on top of a node of size c, never leave a gap. *)
Fits(ws, c) ==
    \A i \in 1 .. Len(ws) : ws[i].op # "remove" /\ Reaches(ws, i - 1, c, Needs(ws[i]))

LEMMA AddOne ==
  ASSUME NEW x \in Node, WellFormed(x), NEW w \in Writes, w.op # "remove", Needs(w) <= Size(x)
  PROVE  LET y == Apply(x, w)
         IN  /\ y \in Node /\ WellFormed(y)
             /\ Size(x) <= Size(y)
             /\ \A n \in Nat : n <= Size(y) <=>
                    n <= Size(x) \/ (w.op = "set" /\ n <= w.key + 1)
<1> DEFINE y == Apply(x, w)
           c == Size(x)
           k == w.key
<1>1. /\ k \in Keys /\ y \in Node /\ y[k] = Renewed(x[k], w)
      /\ \A j \in Keys : j # k => y[j] = x[j]
  BY ApplyPut
<1>2. /\ Present(x) = 0 .. c - 1 /\ c \in Nat /\ c <= MaxPucks /\ MaxPucks \in Nat
      /\ k \in Nat /\ k < MaxPucks
      /\ \A j \in Present(x) : x[j] \in PuckModel
  BY <1>1, SizeKeys, SizeType, PucksAssumption DEF WellFormed, Whole, Keys
<1> HIDE DEF y, c, k
<1>3. CASE w.op = "set"
  <2>1. y[k] \in PuckModel /\ y[k] # Absent /\ k <= c
    <3>1. w.puck \in PuckModel /\ y[k] = w.puck
      BY <1>1, <1>3 DEF Renewed, Writes
    <3>2. k <= c
      BY <1>3 DEF Needs, k, c
    <3> QED
      BY <3>1, <3>2, AbsentAssumption DEF Child
  <2>2. Present(y) = Present(x) \cup {k}
    BY <1>1, <2>1 DEF Present
  <2>3. PICK n \in 0 .. MaxPucks : n = (IF k = c THEN c + 1 ELSE c) /\ n \in Nat
    BY <1>2
  <2>4. Present(y) = 0 .. n - 1
    BY <1>2, <2>1, <2>2, <2>3
  <2>5. Size(y) = n
    BY <2>3, <2>4, SizeOf
  <2>6. WellFormed(y)
    <3>1. Contiguous(y)
      BY <2>4 DEF Contiguous
    <3>2. \A j \in Present(y) : y[j] \in PuckModel
      <4> SUFFICES ASSUME NEW j \in Present(y) PROVE y[j] \in PuckModel
        OBVIOUS
      <4>1. CASE j = k
        BY <2>1, <4>1
      <4>2. CASE j # k
        <5>1. j \in Present(x) /\ j \in Keys
          BY <2>2, <4>2 DEF Present
        <5> QED
          BY <1>1, <1>2, <4>2, <5>1
      <4> QED
        BY <4>1, <4>2
    <3> QED
      BY <3>1, <3>2 DEF WellFormed, Whole
  <2>7. c <= n
    BY <1>2, <2>3
  <2>8. \A i \in Nat : i <= n <=> i <= c \/ i <= k + 1
    BY <1>2, <2>1, <2>3
  <2> QED
    BY <1>1, <1>3, <2>5, <2>6, <2>7, <2>8 DEF y, c, k
<1>4. CASE w.op # "set"
  <2>1. w.op = "update" /\ k < c
    <3>1. w.op = "update"
      BY <1>4 DEF Writes
    <3>2. k + 1 <= c
      BY <3>1 DEF Needs, k, c
    <3> QED
      BY <1>2, <3>1, <3>2
  <2>2. k \in Present(x) /\ x[k] \in PuckModel
    BY <1>2, <2>1
  <2>3. y[k] \in PuckModel /\ y[k] # Absent
    <3>1. x[k] # Absent /\ w.shotType \in ShotTypes
      BY <2>1, <2>2, AbsentAssumption DEF Child, Writes
    <3>2. y[k] = [x[k] EXCEPT !.shotType = w.shotType]
      BY <1>1, <2>1, <3>1 DEF Renewed
    <3>3. y[k] \in PuckModel
      BY <2>2, <3>1, <3>2 DEF PuckModel
    <3> QED
      BY <3>3, AbsentAssumption DEF Child
  <2>4. Present(y) = Present(x)
    BY <1>1, <2>2, <2>3 DEF Present
  <2>5. Size(y) = c
    BY <2>4 DEF Size, c
  <2>6. WellFormed(y)
    <3>1. Contiguous(y)
      BY <2>4 DEF WellFormed, Contiguous
    <3>2. \A j \in Present(y) : y[j] \in PuckModel
      BY <1>1, <1>2, <2>3, <2>4 DEF Present
    <3> QED
      BY <3>1, <3>2 DEF WellFormed, Whole
  <2>7. c <= c
    BY <1>2
  <2> QED
    BY <1>1, <1>4, <2>5, <2>6, <2>7 DEF y, c, k
<1> QED
  BY <1>3, <1>4

(* Writes that fit leave no gap, and the size they reach. *)
LEMMA LayeredFits ==
  ASSUME NEW x \in Node, WellFormed(x), NEW ws \in Seq(Writes), Fits(ws, Size(x))
  PROVE  LET y == Layered(x, ws)
         IN  /\ y \in Node /\ WellFormed(y)
             /\ \A n \in Nat : n <= Size(y) <=> Reaches(ws, Len(ws), Size(x), n)
<1> DEFINE l == Len(ws)
           c == Size(x)
<1>1. PICK g \in [0 .. l -> Node] : /\ g[0] = x
                                    /\ \A i \in 1 .. l : g[i] = Apply(g[i - 1], ws[i])
                                    /\ Layered(x, ws) = g[l]
  BY LayeredSteps
<1>2. /\ l \in Nat /\ c \in Nat
      /\ \A i \in 1 .. l : ws[i] \in Writes /\ ws[i].op # "remove" /\ Reaches(ws, i - 1, c, Needs(ws[i]))
  BY SizeType DEF Fits
<1> HIDE DEF l, c
<1> DEFINE S == {i \in 0 .. l : /\ WellFormed(g[i])
                                /\ \A n \in Nat : n <= Size(g[i]) <=> Reaches(ws, i, c, n)}
<1>3. 0 \in S
  <2>1. \A n \in Nat : n <= c <=> Reaches(ws, 0, c, n)
    BY <1>2 DEF Reaches
  <2> QED
    BY <1>1, <1>2, <2>1 DEF c
<1>4. ASSUME NEW i \in 1 .. l, i - 1 \in S PROVE i \in S
  <2> DEFINE w == ws[i]
             u == g[i - 1]
             v == g[i]
  <2>1. /\ i \in Nat /\ i \in 0 .. l /\ i - 1 \in 0 .. l
        /\ w \in Writes /\ w.op # "remove" /\ Reaches(ws, i - 1, c, Needs(w))
        /\ v = Apply(u, w) /\ u \in Node
    BY <1>1, <1>2
  <2>2. WellFormed(u) /\ \A n \in Nat : n <= Size(u) <=> Reaches(ws, i - 1, c, n)
    BY <1>4
  <2>3. Needs(w) \in Nat /\ w.key \in Nat
    <3>1. w.key \in Nat
      BY <2>1, PucksAssumption DEF Writes, Keys
    <3> HIDE DEF w
    <3> QED
      BY <3>1 DEF Needs
  <2>4. Needs(w) <= Size(u)
    BY <2>1, <2>2, <2>3
  <2>5. /\ WellFormed(v)
        /\ \A n \in Nat : n <= Size(v) <=>
               n <= Size(u) \/ (w.op = "set" /\ n <= w.key + 1)
    BY <2>1, <2>2, <2>4, AddOne
  <2>6. ASSUME NEW n \in Nat
        PROVE  Reaches(ws, i, c, n) <=>
                  Reaches(ws, i - 1, c, n) \/ (w.op = "set" /\ n <= w.key + 1)
    <3>1. 1 .. i = (1 .. i - 1) \cup {i}
      BY <2>1
    <3> QED
      BY <3>1 DEF Reaches
  <2>7. \A n \in Nat : n <= Size(v) <=> Reaches(ws, i, c, n)
    BY <2>2, <2>5, <2>6
  <2> QED
    BY <2>1, <2>5, <2>7
<1>5. l \in S
  <2>1. l \in 0 .. l
    BY <1>2
  <2> HIDE DEF S
  <2> QED
    BY <1>2, <1>3, <1>4, <2>1, UpTo
<1> QED
  BY <1>1, <1>5, LayeredType DEF l, c

(* One more write. *)
LEMMA FitsAppend ==
  ASSUME NEW ws \in Seq(Writes), NEW c \in Nat, Fits(ws, c), NEW w \in Writes,
         w.op # "remove", Reaches(ws, Len(ws), c, Needs(w))
  PROVE  Fits(ws \o <<w>>, c)
<1> DEFINE us == ws \o <<w>>
           l == Len(ws)
<1>1. /\ us \in Seq(Writes) /\ Len(us) = l + 1 /\ l \in Nat
      /\ \A i \in 1 .. l : us[i] = ws[i]
      /\ us[l + 1] = w
  <2>1. us = Append(ws, w)
    BY AppendIsConcat
  <2> QED
    BY <2>1, AppendProperties
<1> HIDE DEF us
<1>2. ASSUME NEW i \in 0 .. l, NEW n, Reaches(ws, i, c, n)
      PROVE  Reaches(us, i, c, n)
  <2>1. \A j \in 1 .. i : us[j] = ws[j]
    BY <1>1
  <2> QED
    BY <1>2, <2>1 DEF Reaches
<1>3. ASSUME NEW i \in 1 .. l + 1
      PROVE  us[i].op # "remove" /\ Reaches(us, i - 1, c, Needs(us[i]))
  <2>1. CASE i = l + 1
    <3>1. l \in 0 .. l /\ i - 1 = l
      BY <1>1, <2>1
    <3> QED
      BY <1>1, <1>2, <2>1, <3>1
  <2>2. CASE i # l + 1
    <3>1. i \in 1 .. l /\ i - 1 \in 0 .. l
      BY <1>1, <2>2
    <3>2. us[i] = ws[i] /\ ws[i].op # "remove" /\ Reaches(ws, i - 1, c, Needs(ws[i]))
      BY <1>1, <3>1 DEF Fits
    <3> QED
      BY <1>2, <3>1, <3>2
  <2> QED
    BY <2>1, <2>2
<1>4. Fits(us, c)
  BY <1>1, <1>3 DEF Fits
<1> QED
  BY <1>4 DEF us

(* The same writes on a node that is not smaller; all but the first, on a  *)
(* node that has what the first one made.                                  *)
LEMMA ReachesMore ==
  ASSUME NEW ws, NEW i \in Nat, NEW c \in Nat, NEW b \in Nat, c <= b, NEW n \in Nat,
         Reaches(ws, i, c, n)
  PROVE  Reaches(ws, i, b, n)
BY DEF Reaches

LEMMA ReachesTail ==
  ASSUME NEW ws \in Seq(Writes), ws # <<>>, NEW i \in 1 .. Len(ws),
         NEW c \in Nat, NEW b \in Nat, c <= b,
         ws[1].op = "set" => ws[1].key < b,
         NEW n \in Nat, Reaches(ws, i, c, n)
  PROVE  Reaches(Tail(ws), i - 1, b, n)
<1> DEFINE r == Tail(ws)
           l == Len(ws)
<1>1. /\ l \in Nat \ {0} /\ Len(r) = l - 1 /\ i \in 1 .. l /\ i \in Nat
      /\ \A j \in 1 .. l - 1 : r[j] = ws[j + 1]
      /\ ws[1] \in Writes
  BY FirstAndRest
<1> HIDE DEF r, l
<1>2. CASE n <= c
  BY <1>2 DEF Reaches
<1>3. CASE ~(n <= c)
  <2>1. PICK j \in 1 .. i : ws[j].op = "set" /\ n <= ws[j].key + 1
    BY <1>3 DEF Reaches
  <2>2. CASE j = 1
    <3>1. ws[1].key \in Nat
      BY <1>1, PucksAssumption DEF Writes, Keys
    <3>2. n <= b
      BY <2>1, <2>2, <3>1
    <3> QED
      BY <3>2 DEF Reaches
  <2>3. CASE j # 1
    <3>1. j - 1 \in 1 .. i - 1 /\ j - 1 \in 1 .. l - 1 /\ (j - 1) + 1 = j
      BY <1>1, <2>3
    <3>2. r[j - 1] = ws[j]
      BY <1>1, <3>1
    <3> QED
      BY <2>1, <3>1, <3>2 DEF Reaches, r
  <2> QED
    BY <2>2, <2>3
<1> QED
  BY <1>2, <1>3

LEMMA NeedsType ==
  ASSUME NEW w \in Writes
  PROVE  w.key \in Nat /\ Needs(w) \in Nat
BY PucksAssumption DEF Needs, Writes, Keys

(* A write on top of those of a node without gaps that its size allows. *)
LEMMA FitsView ==
  ASSUME NEW x \in Node, WellFormed(x), NEW ws \in Seq(Writes), Fits(ws, Size(x)),
         NEW w \in Writes, w.op # "remove", Needs(w) <= Size(Layered(x, ws))
  PROVE  Fits(ws \o <<w>>, Size(x))
<1>1. Reaches(ws, Len(ws), Size(x), Needs(w))
  BY LayeredFits, NeedsType
<1> QED
  BY <1>1, FitsAppend, SizeType

(* All but the first of the writes that fit, and all of them. *)
LEMMA FitsTail ==
  ASSUME NEW ws \in Seq(Writes), ws # <<>>, NEW c \in Nat, Fits(ws, c),
         NEW b \in Nat, c <= b, ws[1].op = "set" => ws[1].key < b
  PROVE  Fits(Tail(ws), b)
<1> DEFINE r == Tail(ws)
           l == Len(ws)
<1>1. /\ l \in Nat \ {0} /\ Len(r) = l - 1
      /\ \A i \in 1 .. Len(r) : r[i] = ws[i + 1]
  BY FirstAndRest
<1>2. ASSUME NEW i \in 1 .. Len(r)
      PROVE  r[i].op # "remove" /\ Reaches(r, i - 1, b, Needs(r[i]))
  <2>1. i \in 1 .. l /\ i + 1 \in 1 .. l /\ (i + 1) - 1 = i /\ r[i] = ws[i + 1]
    BY <1>1
  <2>2. ws[i + 1] \in Writes /\ ws[i + 1].op # "remove" /\ Reaches(ws, i, c, Needs(ws[i + 1]))
    BY <2>1 DEF Fits
  <2>3. Reaches(r, i - 1, b, Needs(ws[i + 1]))
    BY <2>1, <2>2, ReachesTail, NeedsType
  <2> QED
    BY <2>1, <2>2, <2>3
<1>3. Fits(r, b)
  BY <1>2 DEF Fits
<1> QED
  BY <1>3

LEMMA FitsMore ==
  ASSUME NEW ws \in Seq(Writes), NEW c \in Nat, Fits(ws, c), NEW b \in Nat, c <= b
  PROVE  Fits(ws, b)
<1>1. ASSUME NEW i \in 1 .. Len(ws)
      PROVE  ws[i].op # "remove" /\ Reaches(ws, i - 1, b, Needs(ws[i]))
  <2>1. ws[i] \in Writes /\ i - 1 \in Nat
    OBVIOUS
  <2>2. ws[i].op # "remove" /\ Reaches(ws, i - 1, c, Needs(ws[i]))
    BY DEF Fits
  <2> QED
    BY <2>1, <2>2, ReachesMore, NeedsType
<1> QED
  BY <1>1 DEF Fits

(* A node c without gaps, the writes p that wait on top of it and that     *)
(* fit, the messages q on their way, and the server's node x, each of them *)
(* without gaps and not smaller than those before it.  A message that      *)
(* answers a write has the key it set, and those of the writes before it.  *)
Grows(c, p, q, x) ==
    /\ WellFormed(c)
    /\ Size(c) <= Size(x)
    /\ Fits(p, Size(c))
    /\ \A i \in 1 .. Len(q) :
        /\ WellFormed(q[i].node)
        /\ Size(c) <= Size(q[i].node) /\ Size(q[i].node) <= Size(x)
        /\ \A j \in 1 .. i : Size(q[j].node) <= Size(q[i].node)
        /\ \A t \in 1 .. OwnIn(q, i) : p[t].op = "set" => p[t].key < Size(q[i].node)

(* ... on device d, whose list is empty if its node is. *)
Grown(d) ==
    /\ Grows(serverCache[d], pending[d], inbox[d], server)
    /\ Present(View(d)) = {} => pucks[d] = <<>>

AddInv == ~takeBack => WellFormed(server) /\ \A d \in Devices : Grown(d)

LEMMA GrownPrimed ==
  ASSUME NEW d \in Devices, Grows(serverCache'[d], pending'[d], inbox'[d], server'),
         Present(View(d)') = {} => pucks'[d] = <<>>
  PROVE  Grown(d)'
BY DEF Grown, Grows, WellFormed, Whole, Contiguous, Size, Present, Fits, Reaches, Needs, OwnIn

LEMMA GrownView ==
  ASSUME TypeOK, NEW d \in Devices, Grown(d)
  PROVE  /\ WellFormed(View(d))
         /\ \A n \in Nat : n <= Size(View(d)) <=>
                Reaches(pending[d], Len(pending[d]), Size(serverCache[d]), n)
<1>1. serverCache[d] \in Node /\ pending[d] \in Seq(Writes)
  BY ViewType
<1>2. WellFormed(serverCache[d]) /\ Fits(pending[d], Size(serverCache[d]))
  BY DEF Grown, Grows
<1> QED
  BY <1>1, <1>2, LayeredFits DEF View

(* What a step leaves of d's client and its list, and a server that has    *)
(* grown, decide.                                                          *)
LEMMA GrownSame ==
  ASSUME NEW d \in Devices, Grown(d), View(d)' = View(d), pucks'[d] = pucks[d],
         serverCache'[d] = serverCache[d], pending'[d] = pending[d], inbox'[d] = inbox[d],
         Size(server) <= Size(server')
  PROVE  Grown(d)'
<1>1. \A x : Size(x) \in Nat
  BY SizeType
<1>2. \A x : Size(x) <= Size(server) => Size(x) <= Size(server')
  BY <1>1
<1>3. Grows(serverCache[d], pending[d], inbox[d], server')
  BY <1>2 DEF Grown, Grows
<1> QED
  BY <1>3, GrownPrimed DEF Grown

(* A puck is added to what the device shows, or its last one changes. *)
LEMMA GrownWritten ==
  ASSUME TypeOK, ListsShow, ~takeBack, NEW d \in Devices, Grown(d),
         NEW s \in PuckLists, NEW ws \in Seq(Writes), Written(d, s, ws)
  PROVE  Grown(d)'
<1> DEFINE n == Len(pucks[d])
           c == serverCache[d]
           p == pending[d]
           x == View(d)
<1>1. /\ serverCache'[d] = c /\ pending'[d] = p \o ws /\ inbox'[d] = inbox[d] /\ server' = server
      /\ View(d)' = Layered(x, ws)
  BY ViewWritten DEF Written, TypeOK
<1>2. /\ c \in Node /\ p \in Seq(Writes) /\ x \in Node /\ inbox[d] \in Seq(Messages)
      /\ WellFormed(c) /\ Fits(p, Size(c)) /\ WellFormed(x)
  BY ViewType, GrownView DEF Grown, Grows
<1>3. n = Size(x) /\ n \in Nat /\ MaxPucks \in Nat /\ n <= MaxPucks
  <2>1. CASE Present(x) = {}
    <3>1. n = 0
      BY <2>1 DEF Grown
    <3> QED
      BY <2>1, <3>1, SizeType, PucksAssumption
  <2>2. CASE Present(x) # {}
    <3>1. pucks[d] = Children(x)
      BY <1>2, <2>2 DEF ListsShow, Shown
    <3>2. n \in 0 .. MaxPucks /\ Present(x) = 0 .. n - 1
      BY <1>2, <3>1, ListOfNode
    <3>3. n \in Nat
      BY <3>2, PucksAssumption
    <3> QED
      BY <3>2, <3>3, SizeOf, PucksAssumption
  <2> QED
    BY <2>1, <2>2
<1>4. PICK w \in Writes : ws = <<w>> /\ w.op # "remove" /\ Needs(w) <= n /\ (w.op = "set" \/ n > 0)
  <2>1. CASE n < MaxPucks /\ \E k \in PuckModel : ws = <<SetValue(n, k)>>
    <3>1. PICK k \in PuckModel : ws = <<SetValue(n, k)>>
      BY <2>1
    <3>2. SetValue(n, k) \in Writes /\ SetValue(n, k).op = "set" /\ Needs(SetValue(n, k)) = n
      BY <1>3, <2>1 DEF SetValue, Writes, Keys, Needs
    <3> QED
      BY <1>3, <3>1, <3>2
  <2>2. CASE n > 0 /\ ws = <<UpdateChildValues(n - 1, "Skate")>>
    <3> DEFINE w == UpdateChildValues(n - 1, "Skate")
    <3>1. w \in Writes /\ w.op = "update" /\ Needs(w) = n
      BY <1>3, <2>2 DEF UpdateChildValues, Writes, Keys, Needs, ShotTypes, Continuing
    <3> QED
      BY <1>3, <2>2, <3>1
  <2> QED
    BY <2>1, <2>2 DEF Written, Handled
<1>5. View(d)' = Apply(x, w)
  BY <1>1, <1>2, <1>4, LayeredOne
<1>6. Present(Apply(x, w)) # {}
  <2>1. /\ Size(x) <= Size(Apply(x, w))
        /\ \A k \in Nat : k <= Size(Apply(x, w)) <=>
               k <= Size(x) \/ (w.op = "set" /\ k <= w.key + 1)
    BY <1>2, <1>3, <1>4, AddOne
  <2>2. w.key \in Nat
    BY <1>4, NeedsType
  <2>3. 1 <= Size(Apply(x, w))
    BY <1>3, <1>4, <2>1, <2>2
  <2> QED
    BY <2>3, SizeType
<1>7. Fits(p \o ws, Size(c))
  BY <1>2, <1>3, <1>4, FitsView DEF View
<1>8. Grows(c, p \o ws, inbox[d], server)
  <2>1. /\ Len(p) \in Nat
        /\ \A t \in 1 .. Len(p) : (p \o ws)[t] = p[t]
    BY <1>2, Joined
  <2>2. ASSUME NEW i \in 1 .. Len(inbox[d]), NEW t \in 1 .. OwnIn(inbox[d], i)
        PROVE  (p \o ws)[t] = p[t]
    <3>1. OwnIn(inbox[d], i) <= Len(p) /\ OwnIn(inbox[d], i) \in Nat
      <4>1. Len(inbox[d]) \in Nat /\ i \in 0 .. Len(inbox[d]) /\ i \in Nat
        BY <1>2
      <4>2. Taken(d) = OwnIn(inbox[d], Len(inbox[d])) /\ Taken(d) \in Nat /\ Taken(d) <= Len(p)
        BY <1>2, TakenIsOwn DEF TypeOK
      <4>3. OwnIn(inbox[d], i) <= OwnIn(inbox[d], Len(inbox[d])) /\ OwnIn(inbox[d], i) \in Nat
        BY <4>1, OwnGrows, OwnType
      <4> QED
        BY <2>1, <4>2, <4>3
    <3> QED
      BY <2>1, <3>1
  <2> HIDE DEF p
  <2> QED
    BY <1>7, <2>2 DEF Grown, Grows, p
<1> QED
  BY <1>1, <1>5, <1>6, <1>8, GrownPrimed

(* The server has the keys of the writes it has taken. *)
LEMMA TakenKeys ==
  ASSUME TypeOK, NEW d \in Devices, Grown(d), NEW t \in 1 .. Taken(d), pending[d][t].op = "set"
  PROVE  pending[d][t].key < Size(server)
<1> DEFINE q == inbox[d]
           n == Len(q)
<1>1. Taken(d) = OwnIn(q, n) /\ Taken(d) \in Nat /\ n \in Nat /\ q \in Seq(Messages)
  BY ViewType, TakenIsOwn
<1>2. n # 0
  BY <1>1, OwnNone
<1>3. n \in 1 .. n
  BY <1>1, <1>2
<1>4. t \in 1 .. OwnIn(q, n)
  BY <1>1
<1>5. pending[d][t].key < Size(q[n].node) /\ Size(q[n].node) <= Size(server)
  BY <1>3, <1>4 DEF Grown, Grows
<1>6. pending[d][t].key \in Nat
  <2>1. Taken(d) <= Len(pending[d]) /\ pending[d] \in Seq(Writes)
    BY ViewType DEF TypeOK
  <2>2. pending[d][t] \in Writes
    BY <1>1, <2>1
  <2> QED
    BY <2>2, NeedsType
<1>7. Size(q[n].node) \in Nat /\ Size(server) \in Nat
  BY SizeType
<1> QED
  BY <1>5, <1>6, <1>7

(* The server takes a write of d, which adds at most one key to its node. *)
LEMMA ServerGrows ==
  ASSUME TypeOK, WellFormed(server), NEW d \in Devices, Grown(d), ServerTakes(d)
  PROVE  LET w == pending[d][Taken(d) + 1]
         IN  /\ WellFormed(server')
             /\ Size(server) <= Size(server')
             /\ w.op = "set" => w.key < Size(server')
<1> DEFINE p == pending[d]
           c == Size(serverCache[d])
           t == Taken(d)
           w == p[t + 1]
<1>1. /\ t \in Nat /\ t + 1 \in 1 .. Len(p) /\ w \in Writes
      /\ server' = Apply(server, w) /\ server \in Node
  BY ServerTakesInbox DEF TypeOK
<1>2. w.op # "remove" /\ Reaches(p, t, c, Needs(w)) /\ c <= Size(server)
  <2>1. (t + 1) - 1 = t
    BY <1>1
  <2> QED
    BY <1>1, <2>1 DEF Grown, Grows, Fits
<1>3. Size(server) \in Nat /\ c \in Nat /\ Needs(w) \in Nat /\ w.key \in Nat
  BY <1>1, SizeType, NeedsType
<1>4. Needs(w) <= Size(server)
  <2>1. CASE Needs(w) <= c
    BY <1>2, <1>3, <2>1
  <2>2. CASE ~(Needs(w) <= c)
    <3>1. PICK j \in 1 .. t : p[j].op = "set" /\ Needs(w) <= p[j].key + 1
      BY <1>2, <2>2 DEF Reaches
    <3>2. p[j].key < Size(server)
      BY <3>1, TakenKeys
    <3>3. p[j].key \in Nat
      <4>1. p \in Seq(Writes) /\ j \in 1 .. Len(p)
        BY <1>1, ViewType
      <4> QED
        BY <4>1, NeedsType
    <3> QED
      BY <1>3, <3>1, <3>2, <3>3
  <2> QED
    BY <2>1, <2>2
<1>5. LET y == Apply(server, w)
      IN  /\ y \in Node /\ WellFormed(y)
          /\ Size(server) <= Size(y)
          /\ \A n \in Nat : n <= Size(y) <=> n <= Size(server) \/ (w.op = "set" /\ n <= w.key + 1)
  BY <1>1, <1>2, <1>4, AddOne
<1>6. ASSUME w.op = "set" PROVE w.key < Size(server')
  <2>1. w.key + 1 \in Nat /\ w.key + 1 <= w.key + 1
    BY <1>3
  <2>2. w.key + 1 <= Size(server')
    BY <1>1, <1>5, <1>6, <2>1
  <2>3. Size(server') \in Nat
    BY SizeType
  <2> QED
    BY <1>3, <2>2, <2>3
<1> QED
  BY <1>1, <1>5, <1>6

(* ... and tells e. *)
LEMMA GrownTold ==
  ASSUME TypeOK, WellFormed(server), NEW d \in Devices, Grown(d), ServerTakes(d),
         NEW e \in Devices, Grown(e)
  PROVE  Grown(e)'
<1> DEFINE p == pending[e]
           q == inbox[e]
           c == serverCache[e]
           l == Len(q)
           m == Value(server', e = d)
<1>1. /\ WellFormed(server') /\ Size(server) <= Size(server')
      /\ pending[d][Taken(d) + 1].op = "set" => pending[d][Taken(d) + 1].key < Size(server')
  BY ServerGrows
<1>2. /\ View(e)' = View(e) /\ pucks'[e] = pucks[e]
      /\ serverCache'[e] = c /\ pending'[e] = p
  BY ViewOther
<1>3. CASE ~online[e]
  BY <1>1, <1>2, <1>3, ServerTakesInbox, GrownSame
<1>4. CASE online[e]
  <2>1. /\ m \in Messages /\ inbox'[e] = Append(q, m) /\ m.node = server' /\ m.own = (e = d)
        /\ q \in Seq(Messages) /\ l \in Nat
    <3>1. m.node = server' /\ m.own = (e = d)
      BY DEF Value
    <3>2. q \in Seq(Messages) /\ l \in Nat
      BY ViewType
    <3> QED
      BY <1>4, <3>1, <3>2, ServerTakesInbox
  <2> HIDE DEF m
  <2> DEFINE r == Append(q, m)
  <2>2. /\ Len(r) = l + 1 /\ r[l + 1] = m
        /\ \A i \in 1 .. l : r[i] = q[i]
        /\ \A i \in 0 .. l : OwnIn(r, i) = OwnIn(q, i)
        /\ OwnIn(r, l + 1) = OwnIn(q, l) + One(m.own)
    BY <2>1, OwnAppend
  <2>3. Taken(e) = OwnIn(q, l) /\ Taken(e) \in Nat
    BY <2>1, TakenIsOwn
  <2>4. \A x : Size(x) \in Nat
    BY SizeType
  <2>5. \A x : Size(x) <= Size(server) => Size(x) <= Size(server')
    BY <1>1, <2>4
  <2>6. ASSUME NEW t \in 1 .. OwnIn(r, l + 1), p[t].op = "set"
        PROVE  p[t].key < Size(server')
    <3>1. CASE t \in 1 .. Taken(e)
      <4>1. p[t].key < Size(server)
        BY <2>6, <3>1, TakenKeys
      <4>2. p[t].key \in Nat
        <5>1. Taken(e) <= Len(p) /\ p \in Seq(Writes)
          BY ViewType DEF TypeOK
        <5>2. p[t] \in Writes
          BY <2>3, <3>1, <5>1
        <5> QED
          BY <5>2, NeedsType
      <4> QED
        BY <1>1, <2>4, <4>1, <4>2
    <3>2. CASE t \notin 1 .. Taken(e)
      <4>1. t \in 1 .. Taken(e) + One(m.own)
        BY <2>2, <2>3
      <4>2. One(m.own) = 1 /\ m.own
        BY <2>3, <3>2, <4>1 DEF One
      <4>3. e = d
        BY <2>1, <4>2
      <4>4. t = Taken(e) + 1
        <5>1. t \in 1 .. Taken(e) + 1
          BY <4>1, <4>2
        <5> QED
          BY <2>3, <3>2, <5>1
      <4> QED
        BY <1>1, <2>6, <4>3, <4>4
    <3> QED
      BY <3>1, <3>2
  <2>7. /\ WellFormed(c) /\ Size(c) <= Size(server) /\ Fits(p, Size(c))
        /\ \A i \in 1 .. l :
            /\ WellFormed(q[i].node)
            /\ Size(c) <= Size(q[i].node) /\ Size(q[i].node) <= Size(server)
            /\ \A j \in 1 .. i : Size(q[j].node) <= Size(q[i].node)
            /\ \A t \in 1 .. OwnIn(q, i) : p[t].op = "set" => p[t].key < Size(q[i].node)
    BY DEF Grown, Grows
  <2> HIDE DEF p, q, c, l, r
  <2>8. ASSUME NEW i \in 1 .. Len(r)
        PROVE  /\ WellFormed(r[i].node)
               /\ Size(c) <= Size(r[i].node) /\ Size(r[i].node) <= Size(server')
               /\ \A j \in 1 .. i : Size(r[j].node) <= Size(r[i].node)
               /\ \A t \in 1 .. OwnIn(r, i) : p[t].op = "set" => p[t].key < Size(r[i].node)
    <3>1. CASE i = l + 1
      <4>1. r[i].node = server'
        BY <2>1, <2>2, <3>1
      <4>2. \A j \in 1 .. l : Size(r[j].node) <= Size(server')
        BY <2>2, <2>5, <2>7
      <4>3. \A j \in 1 .. i : Size(r[j].node) <= Size(server')
        <5>1. \A j \in 1 .. i : j = i \/ j \in 1 .. l
          BY <2>1, <3>1
        <5>2. Size(server') <= Size(server')
          BY <2>4
        <5> QED
          BY <4>1, <4>2, <5>1, <5>2
      <4>4. Size(server') <= Size(server') /\ Size(c) <= Size(server')
        BY <2>4, <2>5, <2>7
      <4> QED
        BY <1>1, <2>6, <3>1, <4>1, <4>3, <4>4
    <3>2. CASE i # l + 1
      <4>1. i \in 1 .. l /\ i \in 0 .. l /\ \A j \in 1 .. i : j \in 1 .. l
        BY <2>1, <2>2, <3>2
      <4> QED
        BY <2>2, <2>5, <2>7, <4>1
    <3> QED
      BY <3>1, <3>2
  <2>9. Grows(c, p, r, server')
    BY <2>5, <2>7, <2>8 DEF Grows
  <2>10. Present(View(e)') = {} => pucks'[e] = <<>>
    BY <1>2 DEF Grown
  <2> QED
    BY <1>2, <2>1, <2>9, <2>10, GrownPrimed DEF p, q, c, r
<1> QED
  BY <1>3, <1>4

(* d hears from the server of a node that is not smaller than the last. *)
LEMMA GrownReceived ==
  ASSUME TypeOK, NEW d \in Devices, Grown(d), NEW m, NEW rest, Received(d, m, rest)
  PROVE  Grown(d)'
<1> DEFINE p == pending[d]
           q == inbox[d]
           c == Size(serverCache[d])
           b == Size(m.node)
           r == Tail(q)
<1>1. /\ q # <<>> /\ serverCache'[d] = m.node /\ pending'[d] = rest /\ server' = server
      /\ View(d)' = Layered(m.node, rest)
      /\ pucks'[d] = Hear(pucks[d], View(d), Layered(m.node, rest))
  <2>1. View(d)' = Layered(m.node, rest)
    BY ViewReceived
  <2> QED
    BY <2>1 DEF Received, TypeOK
<1>2. /\ m = q[1] /\ m.node \in Node /\ inbox'[d] = r
      /\ m.own => p # <<>> /\ rest = Tail(p)
      /\ ~m.own => rest = p
      /\ rest \in Seq(Writes) /\ Layered(m.node, rest) \in Node
  BY ReceivedInbox
<1>3. q \in Seq(Messages) /\ p \in Seq(Writes) /\ Len(p) \in Nat /\ c \in Nat /\ b \in Nat
  BY ViewType, SizeType
<1>4. /\ Len(q) \in Nat \ {0} /\ Len(r) = Len(q) - 1
      /\ \A i \in 1 .. Len(r) : r[i] = q[i + 1]
      /\ \A i \in 0 .. Len(r) : OwnIn(q, i + 1) = OwnIn(r, i) + One(m.own)
  BY <1>1, <1>2, <1>3, OwnTail
<1>5. /\ Fits(p, c)
      /\ \A i \in 1 .. Len(q) :
            /\ WellFormed(q[i].node)
            /\ c <= Size(q[i].node) /\ Size(q[i].node) <= Size(server)
            /\ \A j \in 1 .. i : Size(q[j].node) <= Size(q[i].node)
            /\ \A t \in 1 .. OwnIn(q, i) : p[t].op = "set" => p[t].key < Size(q[i].node)
  BY DEF Grown, Grows
<1>6. /\ WellFormed(m.node) /\ c <= b /\ b <= Size(server)
      /\ m.own /\ p[1].op = "set" => p[1].key < b
  <2>1. 1 \in 1 .. Len(q)
    BY <1>4
  <2>2. m.own => 1 \in 1 .. OwnIn(q, 1)
    BY <1>2, OwnFirst DEF One
  <2> HIDE DEF p, q
  <2> QED
    BY <1>2, <1>5, <2>1, <2>2
<1>7. Fits(rest, b)
  <2>1. CASE m.own
    BY <1>2, <1>3, <1>5, <1>6, <2>1, FitsTail
  <2>2. CASE ~m.own
    BY <1>2, <1>3, <1>5, <1>6, <2>2, FitsMore
  <2> QED
    BY <2>1, <2>2
<1>8. ASSUME NEW i \in 1 .. Len(r)
      PROVE  /\ WellFormed(r[i].node)
             /\ b <= Size(r[i].node) /\ Size(r[i].node) <= Size(server)
             /\ \A j \in 1 .. i : Size(r[j].node) <= Size(r[i].node)
             /\ \A t \in 1 .. OwnIn(r, i) : rest[t].op = "set" => rest[t].key < Size(r[i].node)
  <2>1. /\ i \in 0 .. Len(r) /\ i \in Nat /\ i + 1 \in 1 .. Len(q) /\ 1 \in 1 .. i + 1
        /\ r[i] = q[i + 1]
        /\ \A j \in 1 .. i : j + 1 \in 1 .. i + 1 /\ r[j] = q[j + 1]
    BY <1>4
  <2>2. /\ OwnIn(q, i + 1) = OwnIn(r, i) + One(m.own)
        /\ OwnIn(r, i) \in Nat /\ OwnIn(q, i + 1) \in Nat
    <3>1. i + 1 \in Nat
      BY <2>1
    <3> QED
      BY <1>4, <2>1, <3>1, OwnType
  <2>3. ASSUME NEW t \in 1 .. OwnIn(r, i)
        PROVE  \E k \in 1 .. OwnIn(q, i + 1) : rest[t] = p[k]
    <3>1. CASE m.own
      <4>1. t + 1 \in 1 .. OwnIn(q, i + 1)
        BY <2>2, <3>1 DEF One
      <4>2. OwnIn(q, i + 1) <= Len(p)
        <5>1. Taken(d) = OwnIn(q, Len(q)) /\ Taken(d) <= Len(p)
          BY <1>3, TakenIsOwn DEF TypeOK
        <5>2. OwnIn(q, i + 1) <= OwnIn(q, Len(q))
          <6>1. Len(q) \in Nat /\ i + 1 \in 0 .. Len(q)
            BY <1>4, <2>1
          <6> QED
            BY <6>1, OwnGrows
        <5>3. OwnIn(q, Len(q)) \in Nat
          BY <1>4, OwnType
        <5> QED
          BY <1>3, <2>2, <5>1, <5>2, <5>3
      <4>3. t \in 1 .. Len(p) - 1
        BY <1>3, <2>2, <4>1, <4>2
      <4>4. Tail(p)[t] = p[t + 1]
        BY <1>2, <1>3, <3>1, <4>3, FirstAndRest
      <4> QED
        BY <1>2, <3>1, <4>1, <4>4
    <3>2. CASE ~m.own
      BY <1>2, <2>2, <3>2 DEF One
    <3> QED
      BY <3>1, <3>2
  <2> HIDE DEF p, q, c, b, r
  <2>4. b <= Size(r[i].node)
    BY <1>2, <1>5, <2>1 DEF b
  <2> QED
    BY <1>5, <2>1, <2>3, <2>4
<1>9. Grows(m.node, rest, r, server)
  BY <1>6, <1>7, <1>8 DEF Grows
<1>10. ASSUME Present(View(d)') = {} PROVE pucks'[d] = <<>>
  <2> DEFINE new == Layered(m.node, rest)
             x == View(d)
  <2>1. Size(new) = 0
    BY <1>1, <1>10, SizeType
  <2>2. Size(x) = 0
    <3>1. CASE 1 <= Size(x)
      <4>1. Reaches(p, Len(p), c, 1)
        BY <3>1, GrownView
      <4>2. Reaches(rest, Len(rest), b, 1)
        <5>1. CASE m.own
          <6>1. Len(p) \in 1 .. Len(p) /\ Len(rest) = Len(p) - 1
            BY <1>2, <1>3, <5>1, FirstAndRest
          <6> QED
            BY <1>2, <1>3, <1>6, <4>1, <5>1, <6>1, ReachesTail
        <5>2. CASE ~m.own
          BY <1>2, <1>3, <1>6, <4>1, <5>2, ReachesMore
        <5> QED
          BY <5>1, <5>2
      <4>3. 1 <= Size(new)
        BY <1>2, <1>6, <1>7, <4>2, LayeredFits
      <4> QED
        BY <2>1, <4>3
    <3>2. CASE ~(1 <= Size(x))
      BY <3>2, SizeType
    <3> QED
      BY <3>1, <3>2
  <2>3. Present(x) = {} /\ Present(new) = {}
    BY <2>1, <2>2, SizeType
  <2> QED
    BY <1>1, <2>3 DEF Grown, Hear
<1> QED
  BY <1>1, <1>2, <1>9, <1>10, GrownPrimed

LEMMA AddStep ==
  ASSUME TypeOK, ListsShow, AddInv, [Next]_vars
  PROVE  AddInv'
<1> SUFFICES ASSUME ~takeBack PROVE WellFormed(server') /\ \A e \in Devices : Grown(e)'
  <2>1. takeBack' = takeBack
    BY UsersStay
  <2> QED
    BY <2>1 DEF AddInv, WellFormed, Whole, Contiguous, Present
<1>1. WellFormed(server) /\ \A e \in Devices : Grown(e)
  BY DEF AddInv
<1>2. ASSUME server' = server
      PROVE  WellFormed(server') /\ Size(server) <= Size(server')
  BY <1>1, <1>2, SizeType
<1>3. ASSUME NEW d \in Devices, NEW s \in PuckLists, NEW ws \in Seq(Writes), Written(d, s, ws),
             NEW e \in Devices
      PROVE  Grown(e)' /\ server' = server
  <2>1. server' = server
    BY <1>3 DEF Written
  <2>2. CASE e = d
    BY <1>1, <1>3, <2>1, <2>2, GrownWritten
  <2>3. CASE e # d
    <3>1. /\ View(e)' = View(e) /\ pucks'[e] = pucks[e]
          /\ serverCache'[e] = serverCache[e] /\ pending'[e] = pending[e]
          /\ inbox'[e] = inbox[e]
      BY <1>3, <2>3, ViewWritten DEF Written, TypeOK
    <3> QED
      BY <1>1, <1>2, <2>1, <3>1, GrownSame
  <2> QED
    BY <2>1, <2>2, <2>3
<1>4. ASSUME NEW d \in Devices, Ends(d), NEW e \in Devices
      PROVE  Grown(e)' /\ server' = server
  <2>1. server' = server
    BY <1>4 DEF Ends
  <2>2. CASE e = d
    <3>1. /\ serverCache'[d] = Nothing /\ pending'[d] = <<>> /\ inbox'[d] = <<>> /\ pucks'[d] = <<>>
      BY <1>4 DEF Ends, TypeOK
    <3>2. WellFormed(Nothing) /\ Size(Nothing) = 0 /\ Size(server) \in Nat
      <4>1. <<>> \in PuckLists
        BY EmptyNode
      <4>2. WellFormed(Nothing)
        BY <4>1, SavedNode DEF Nothing
      <4> QED
        BY <4>2, EmptyNode, SizeType
    <3>3. Grows(Nothing, <<>>, <<>>, server)
      BY <3>2 DEF Grows, Fits
    <3> QED
      BY <2>1, <2>2, <3>1, <3>3, GrownPrimed
  <2>3. CASE e # d
    <3>1. /\ View(e)' = View(e) /\ pucks'[e] = pucks[e]
          /\ serverCache'[e] = serverCache[e] /\ pending'[e] = pending[e]
          /\ inbox'[e] = inbox[e]
      BY <1>4, <2>3, ViewEnds DEF Ends, TypeOK
    <3> QED
      BY <1>1, <1>2, <2>1, <3>1, GrownSame
  <2> QED
    BY <2>1, <2>2, <2>3
<1>5. ASSUME NEW d \in Devices,
             Connect(d) \/ Disconnect(d) \/ Relaunch(d) \/ UNCHANGED vars, NEW e \in Devices
      PROVE  Grown(e)' /\ server' = server
  <2>1. /\ server' = server /\ View(e)' = View(e) /\ pucks'[e] = pucks[e]
        /\ serverCache'[e] = serverCache[e] /\ pending'[e] = pending[e]
    <3>1. server' = server
      BY <1>5 DEF Connect, Disconnect, Relaunch, vars
    <3> QED
      BY <1>5, <3>1, ViewOther
  <2>2. CASE inbox'[e] = inbox[e]
    BY <1>1, <1>2, <2>1, <2>2, GrownSame
  <2>3. CASE inbox'[e] = <<>>
    <3>1. Grows(serverCache[e], pending[e], <<>>, server)
      BY <1>1 DEF Grown, Grows
    <3>2. Present(View(e)') = {} => pucks'[e] = <<>>
      BY <1>1, <2>1 DEF Grown
    <3> QED
      BY <2>1, <2>3, <3>1, <3>2, GrownPrimed
  <2>4. CASE inbox'[e] = <<Value(server, FALSE)>>
    <3> DEFINE m == Value(server, FALSE)
               q == <<m>>
    <3>1. m.node = server /\ ~m.own
      BY DEF Value
    <3> HIDE DEF m
    <3>2. Len(q) = 1 /\ q[1] = m
      OBVIOUS
    <3>3. OwnIn(q, 1) = 0
      BY <3>1, <3>2, OwnFirst DEF One
    <3> HIDE DEF q
    <3>4. /\ WellFormed(serverCache[e]) /\ Fits(pending[e], Size(serverCache[e]))
          /\ Size(serverCache[e]) <= Size(server) /\ Size(server) <= Size(server)
      BY <1>1, SizeType DEF Grown, Grows
    <3>5. ASSUME NEW i \in 1 .. Len(q)
          PROVE  /\ q[i].node = server /\ OwnIn(q, i) = 0
                 /\ \A j \in 1 .. i : q[j].node = server
      <4>1. i = 1
        BY <3>2
      <4> QED
        BY <3>1, <3>2, <3>3, <4>1
    <3>6. Grows(serverCache[e], pending[e], q, server)
      BY <1>1, <3>4, <3>5 DEF Grows
    <3>7. Present(View(e)') = {} => pucks'[e] = <<>>
      BY <1>1, <2>1 DEF Grown
    <3> QED
      BY <2>1, <2>4, <3>6, <3>7, GrownPrimed DEF q, m
  <2> QED
    BY <1>5, <2>1, <2>2, <2>3, <2>4 DEF Connect, Disconnect, Relaunch, vars, client, TypeOK
<1>6. ASSUME NEW d \in Devices, ServerTakes(d)
      PROVE  WellFormed(server') /\ \A e \in Devices : Grown(e)'
  BY <1>1, <1>6, ServerGrows, GrownTold
<1>7. ASSUME NEW d \in Devices, NEW m, NEW rest, Received(d, m, rest), NEW e \in Devices
      PROVE  Grown(e)' /\ server' = server
  <2>1. server' = server
    BY <1>7 DEF Received
  <2>2. CASE e = d
    BY <1>1, <1>7, <2>1, <2>2, GrownReceived
  <2>3. CASE e # d
    <3>1. View(e)' = View(e)
      BY <1>7, <2>3, ViewReceived
    <3>2. /\ pucks'[e] = pucks[e]
          /\ serverCache'[e] = serverCache[e] /\ pending'[e] = pending[e]
          /\ inbox'[e] = inbox[e]
      BY <1>7, <2>3 DEF Received, TypeOK
    <3> QED
      BY <1>1, <1>2, <2>1, <3>1, <3>2, GrownSame
  <2> QED
    BY <2>1, <2>2, <2>3
<1>8. CASE UNCHANGED vars
  <2>1. server' = server
    BY <1>8 DEF vars
  <2> QED
    BY <1>2, <1>5, <1>8, <2>1
<1>9. ASSUME NEW d \in Devices, DeviceStep(d)
      PROVE  WellFormed(server') /\ \A e \in Devices : Grown(e)'
  <2>1. ASSUME NEW s \in PuckLists, NEW ws \in Seq(Writes), Written(d, s, ws)
        PROVE  WellFormed(server') /\ \A e \in Devices : Grown(e)'
    BY <1>2, <1>3, <2>1
  <2>2. CASE Ends(d)
    BY <1>2, <1>4, <2>2
  <2>3. CASE Connect(d) \/ Disconnect(d) \/ Relaunch(d)
    BY <1>2, <1>5, <2>3
  <2>4. ASSUME NEW m, NEW rest, Received(d, m, rest)
        PROVE  WellFormed(server') /\ \A e \in Devices : Grown(e)'
    BY <1>2, <1>7, <2>4
  <2> QED
    BY <1>6, <1>9, <2>1, <2>2, <2>3, <2>4 DEF DeviceStep
<1> QED
  BY <1>8, <1>9, Steps

LEMMA AddInit == Init => AddInv
<1> SUFFICES ASSUME Init PROVE WellFormed(server) /\ \A d \in Devices : Grown(d)
  BY DEF AddInv
<1>1. PICK s \in PuckLists : server = NodeOf(s) /\ pucks = [d \in Devices |-> s]
  BY SharedGameAssumption DEF Init
<1>2. server \in Node /\ WellFormed(server) /\ Present(server) = 0 .. Len(s) - 1
  BY <1>1, NodeOfType, SavedNode
<1>3. ASSUME NEW d \in Devices PROVE Grown(d)
  <2>1. serverCache[d] = server /\ pending[d] = <<>> /\ inbox[d] = <<>> /\ pucks[d] = s
    BY <1>1 DEF Init
  <2>2. View(d) = server
    BY <1>2, <2>1, LayeredEmpty DEF View
  <2>3. Grows(server, <<>>, <<>>, server)
    BY <1>2, SizeType DEF Grows, Fits
  <2>4. Present(server) = {} => s = <<>>
    <3>1. s \in Seq(PuckModel) /\ Len(s) \in Nat
      BY DEF PuckLists
    <3>2. Len(s) # 0 => 0 \in 0 .. Len(s) - 1
      BY <3>1
    <3> QED
      BY <1>2, <3>1, <3>2, EmptySeq
  <2> QED
    BY <2>1, <2>2, <2>3, <2>4 DEF Grown
<1> QED
  BY <1>2, <1>3

(* Any number of devices that only add pucks, on and off line, ended and   *)
(* started again, however often the server takes their writes: no device   *)
(* ever shows a gap or a partial child, the server never gets one, and it  *)
(* never has fewer pucks than a device has heard of.                       *)
THEOREM AddersFillTheGame == Spec => []AddersLeaveNoGap
<1>1. TypeOK /\ AddInv => AddersLeaveNoGap
  <2> SUFFICES ASSUME TypeOK, AddInv, ~takeBack
               PROVE  /\ WellFormed(server)
                      /\ \A d \in Devices :
                            WellFormed(View(d)) /\ Present(serverCache[d]) \subseteq Present(server)
    BY DEF AddersLeaveNoGap
  <2>1. WellFormed(server) /\ \A d \in Devices : Grown(d)
    BY DEF AddInv
  <2>2. ASSUME NEW d \in Devices
        PROVE  WellFormed(View(d)) /\ Present(serverCache[d]) \subseteq Present(server)
    <3>1. WellFormed(View(d))
      BY <2>1, GrownView
    <3>2. WellFormed(serverCache[d]) /\ Size(serverCache[d]) <= Size(server)
      BY <2>1 DEF Grown, Grows
    <3>3. /\ Present(serverCache[d]) = 0 .. Size(serverCache[d]) - 1
          /\ Present(server) = 0 .. Size(server) - 1
      BY <2>1, <3>2, SizeKeys
    <3>4. Size(serverCache[d]) \in Nat /\ Size(server) \in Nat
      BY SizeType
    <3> QED
      BY <3>1, <3>2, <3>3, <3>4
  <2> QED
    BY <2>1, <2>2
<1>2. Init => AddInv
  BY AddInit
<1>3. TypeOK /\ ListsShow /\ AddInv /\ [Next]_vars => AddInv'
  BY AddStep
<1> QED
  BY <1>1, <1>2, <1>3, DevicesAlways, PTL DEF Spec
=============================================================================
