------------------------ MODULE GameSelector_proofs ------------------------
(***************************************************************************)
(* Theorems about the game selector page, for any number of users, rows,   *)
(* callbacks, sign-ins and games.                                          *)
(***************************************************************************)
EXTENDS GameSelector, FiniteSetTheorems, SequenceTheorems, WellFoundedInduction, TLAPS

(* A set of naturals that is not empty has a least element.  Induction     *)
(* over Nat is used in this form: as the least counterexample.             *)
LEMMA LeastNat ==
  ASSUME NEW T, T \subseteq Nat, T # {}
  PROVE  \E m \in T : \A k \in T : m <= k
<1> DEFINE Down == {0 .. n : n \in T}
<1>1. Down \subseteq FiniteSubsetsOf(Nat)
  <2> SUFFICES ASSUME NEW n \in T PROVE 0 .. n \in FiniteSubsetsOf(Nat)
    OBVIOUS
  <2>1. IsFiniteSet(0 .. n)
    BY FS_Interval
  <2> QED
    BY <2>1 DEF FiniteSubsetsOf
<1>2. Down # {}
  OBVIOUS
<1>3. PICK D \in Down : \A E \in Down : <<E, D>> \notin StrictSubsetOrdering(Nat)
  <2> HIDE DEF Down
  <2> QED
    BY <1>1, <1>2, FS_StrictSubsetOrderingWellFounded, WFMin
<1>4. PICK m \in T : D = 0 .. m
  BY <1>3
<1>5. ASSUME NEW k \in T, k < m
      PROVE  FALSE
  <2>1. m \in 0 .. m /\ m \notin 0 .. k
    BY <1>5
  <2>2. 0 .. k \in Down /\ 0 .. k \subseteq 0 .. m /\ 0 .. k # 0 .. m
    BY <1>5, <2>1
  <2>3. <<0 .. k, 0 .. m>> \in StrictSubsetOrdering(Nat)
    BY <2>2 DEF StrictSubsetOrdering
  <2> QED
    BY <1>3, <1>4, <2>2, <2>3
<1> QED
  BY <1>4, <1>5

(* Induction up to n over a set of naturals. *)
LEMMA UpTo ==
  ASSUME NEW n \in Nat, NEW S, 0 \in S, \A i \in 1 .. n : i - 1 \in S => i \in S
  PROVE  \A i \in 0 .. n : i \in S
<1> DEFINE T == {i \in 0 .. n : i \notin S}
<1> SUFFICES ASSUME T # {} PROVE FALSE
  OBVIOUS
<1>1. PICK i \in T : \A k \in T : i <= k
  <2>1. T \subseteq Nat
    OBVIOUS
  <2> HIDE DEF T
  <2> QED
    BY <2>1, LeastNat
<1>2. i \in 0 .. n /\ i \notin S /\ i # 0
  BY <1>1
<1>3. i \in 1 .. n /\ i - 1 \in 0 .. n /\ i - 1 < i
  BY <1>2
<1>4. i - 1 \notin T
  <2> HIDE DEF T
  <2> QED
    BY <1>1, <1>2, <1>3
<1> QED
  BY <1>2, <1>3, <1>4

(* The keys of a finite set can be enumerated from the least to the        *)
(* greatest.  The proof takes a smallest set that cannot and removes its   *)
(* least key.                                                              *)
InOrder(s, S) ==
    /\ s \in [1 .. Cardinality(S) -> S]
    /\ \A k \in S : \E n \in DOMAIN s : s[n] = k
    /\ \A m, n \in DOMAIN s : m < n => s[m] < s[n]

LEMMA LeastFirst ==
  ASSUME NEW S, S \subseteq Nat, IsFiniteSet(S), NEW x \in S,
         \A k \in S : x <= k, NEW r, InOrder(r, S \ {x})
  PROVE  InOrder([n \in 1 .. Cardinality(S) |-> IF n = 1 THEN x ELSE r[n - 1]], S)
<1> DEFINE c == Cardinality(S)
           s == [n \in 1 .. c |-> IF n = 1 THEN x ELSE r[n - 1]]
<1>1. c \in Nat /\ c > 0 /\ Cardinality(S \ {x}) = c - 1
  <2>1. Cardinality(S \ {x}) = Cardinality(S) - 1
    BY FS_RemoveElement
  <2>2. Cardinality(S) \in Nat /\ Cardinality(S) # 0
    BY FS_CardinalityType, FS_EmptySet
  <2> QED
    BY <2>1, <2>2
<1>2. DOMAIN r = 1 .. c - 1 /\ \A n \in 1 .. c - 1 : r[n] \in S /\ x < r[n]
  <2>1. r \in [1 .. c - 1 -> S \ {x}]
    BY <1>1 DEF InOrder
  <2>2. \A k \in S \ {x} : k \in S /\ x < k
    OBVIOUS
  <2> QED
    BY <2>1, <2>2
<1> HIDE DEF c
<1>3. ASSUME NEW n \in 1 .. c, n # 1
      PROVE  n - 1 \in 1 .. c - 1
  BY <1>1, <1>3
<1>4. s \in [1 .. c -> S]
  BY <1>2, <1>3
<1>5. ASSUME NEW k \in S
      PROVE  \E n \in DOMAIN s : s[n] = k
  <2>1. CASE k = x
    <3>1. 1 \in 1 .. c /\ s[1] = k
      BY <1>1, <2>1
    <3> QED
      BY <3>1
  <2>2. CASE k # x
    <3>1. PICK n \in 1 .. c - 1 : r[n] = k
      BY <1>2, <2>2 DEF InOrder
    <3>2. n + 1 \in 1 .. c /\ n + 1 # 1 /\ (n + 1) - 1 = n
      BY <1>1
    <3>3. s[n + 1] = k
      BY <3>1, <3>2
    <3> QED
      BY <3>2, <3>3
  <2> QED
    BY <2>1, <2>2
<1>6. ASSUME NEW m \in DOMAIN s, NEW n \in DOMAIN s, m < n
      PROVE  s[m] < s[n]
  <2>1. n # 1 /\ n - 1 \in 1 .. c - 1 /\ s[n] = r[n - 1]
    BY <1>3, <1>6
  <2>2. CASE m = 1
    BY <1>2, <2>1, <2>2
  <2>3. CASE m # 1
    <3>1. m - 1 \in 1 .. c - 1 /\ m - 1 < n - 1 /\ s[m] = r[m - 1]
      BY <1>3, <1>6, <2>3
    <3>2. r[m - 1] < r[n - 1]
      BY <1>2, <2>1, <3>1 DEF InOrder
    <3> QED
      BY <2>1, <3>1, <3>2
  <2> QED
    BY <2>2, <2>3
<1> QED
  BY <1>4, <1>5, <1>6 DEF InOrder, c

LEMMA InKeyOrderIs ==
  ASSUME NEW S, S \subseteq Nat, IsFiniteSet(S)
  PROVE  InOrder(InKeyOrder(S), S)
<1> DEFINE B == {T \in FiniteSubsetsOf(Nat) : ~ \E s : InOrder(s, T)}
<1>1. B = {}
  <2> SUFFICES ASSUME B # {} PROVE FALSE
    OBVIOUS
  <2>1. PICK T \in B : \A U \in B : <<U, T>> \notin StrictSubsetOrdering(Nat)
    <3>1. B \subseteq FiniteSubsetsOf(Nat)
      OBVIOUS
    <3> HIDE DEF B
    <3> QED
      BY <3>1, FS_StrictSubsetOrderingWellFounded, WFMin
  <2>2. T \subseteq Nat /\ IsFiniteSet(T)
    BY DEF FiniteSubsetsOf
  <2>3. T # {}
    <3> SUFFICES ASSUME T = {} PROVE FALSE
      OBVIOUS
    <3>1. Cardinality(T) = 0 /\ 1 .. 0 = {}
      BY FS_EmptySet
    <3>2. InOrder([n \in 1 .. 0 |-> n], T)
      BY <3>1 DEF InOrder
    <3> QED
      BY <3>2
  <2>4. PICK x \in T : \A k \in T : x <= k
    BY <2>2, <2>3, LeastNat
  <2>5. T \ {x} \in FiniteSubsetsOf(Nat) /\ <<T \ {x}, T>> \in StrictSubsetOrdering(Nat)
    <3>1. IsFiniteSet(T \ {x}) /\ T \ {x} \subseteq Nat
      BY <2>2, FS_RemoveElement
    <3> QED
      BY <2>2, <2>4, <3>1 DEF FiniteSubsetsOf, StrictSubsetOrdering
  <2>6. PICK r : InOrder(r, T \ {x})
    BY <2>1, <2>5
  <2>7. \E s : InOrder(s, T)
    <3> HIDE DEF B
    <3> QED
      BY <2>2, <2>4, <2>6, LeastFirst
  <2> QED
    BY <2>7
<1>2. \E s : InOrder(s, S)
  BY <1>1 DEF FiniteSubsetsOf
<1>3. \E s \in [1 .. Cardinality(S) -> S] :
        /\ \A k \in S : \E n \in DOMAIN s : s[n] = k
        /\ \A m, n \in DOMAIN s : m < n => s[m] < s[n]
  BY <1>2 DEF InOrder
<1> QED
  BY <1>3 DEF InKeyOrder, InOrder

----------------------------------------------------------------------------
(* The invariant. *)

CallbackSet ==
    [does : {"load"}] \cup [does : {"set"}, label : Seconds]
        \cup [does : {"remove"}, label : Keys, place : Nat]

(* Before a user is known nothing but games have been added, and their     *)
(* rows have no listeners.                                                 *)
NoUserYet ==
    /\ \A u \in Users : loads[u] = 0
    /\ \A n \in DOMAIN callbacks : callbacks[n].does = "set"
    /\ \A r \in DOMAIN rows : rows[r].listeners = 0
    /\ Labels = gamesClassList
    /\ Stray \notin Range(gamesClassList)
    /\ patient => rows = <<>>
    /\ opening = FALSE

(* One user has been known: one request was made, for that user's games.   *)
SoleUser ==
    /\ \E n \in DOMAIN callbacks : callbacks[n] = Load
    /\ \A u \in Users \ {user} : loads[u] = 0
    /\ loads[user] \in {0, 1}

(* The row without a label has been deleted; its GameModel stays.          *)
StrayRowGone ==
    /\ loads[user] = 0
    /\ Stray \in Range(gamesClassList)
    /\ Stray \notin Range(Labels)

(* Until then rows and list are in step, and once they are here the games  *)
(* are among them; for a user who waits they are the games.                *)
RowsAndList ==
    /\ Labels = gamesClassList
    /\ \A m, n \in DOMAIN gamesClassList :
          gamesClassList[m] = Stray /\ gamesClassList[n] = Stray => m = n
    /\ loads[user] = 1 => Stray \notin Range(gamesClassList)
    /\ loads[user] = 0 => games[user] \subseteq Range(Labels)

WaitingUser ==
    patient =>
        /\ loads[user] = 1 => rows = <<>>
        /\ loads[user] = 0 => IsInjective(Labels) /\ Range(Labels) = games[user]

RowsListen ==
    user # Nobody /\ loads[user] = 0 => \A r \in DOMAIN rows : rows[r].listeners > 0

(* Without a removal every row has its GameModel, and the games their rows. *)
AllAdded ==
    NothingRemoved =>
        /\ Len(rows) = Len(gamesClassList)
        /\ user # Nobody /\ loads[user] = 0 => games[user] \subseteq Range(Labels)

OneInStep ==
    user # Nobody /\ OneUser => SoleUser /\ (StrayRowGone \/ (RowsAndList /\ WaitingUser))

IInv ==
    /\ TypeOK
    /\ callbacks \in Seq(CallbackSet)
    /\ user = Nobody => NoUserYet
    /\ RowsListen
    /\ AllAdded
    /\ OneInStep

----------------------------------------------------------------------------
(* The callbacks and handlers, on records.  Ids are below m. *)

RowSet(m) == [id : 0 .. m - 1, label : Keys, listeners : Nat]

IdsGrow(s) == \A r, t \in DOMAIN s : r < t => s[r].id < s[t].id

StateSet(m) ==
    [callbacks : Seq(CallbackSet), loads : [Users -> Nat], rows : Seq(RowSet(m)),
     list : Seq(Keys), games : [Users -> SUBSET Keys]]

StateType(st, m) == st \in StateSet(m) /\ IdsGrow(st.rows)

LEMMA FieldTypes ==
  ASSUME NEW m, NEW st \in StateSet(m)
  PROVE  /\ st.callbacks \in Seq(CallbackSet)
         /\ st.loads \in [Users -> Nat]
         /\ st.rows \in Seq(RowSet(m))
         /\ st.list \in Seq(Keys)
         /\ st.games \in [Users -> SUBSET Keys]
BY DEF StateSet

(* What each callback changes. *)
LEMMA RunLoad ==
  ASSUME NEW m, NEW st \in StateSet(m), NEW u \in Users
  PROVE  /\ Run(st, Load, u).callbacks = st.callbacks
         /\ Run(st, Load, u).loads = [st.loads EXCEPT ![u] = @ + 1]
         /\ Run(st, Load, u).rows = st.rows
         /\ Run(st, Load, u).list = st.list
         /\ Run(st, Load, u).games = st.games
         /\ Run(st, Load, u) \in StateSet(m)
<1>1. Run(st, Load, u) = [st EXCEPT !.loads[u] = @ + 1]
  BY DEF Run, Load
<1> DEFINE t == [st EXCEPT !.loads[u] = @ + 1]
<1>2. /\ t.callbacks = st.callbacks
      /\ t.loads = [st.loads EXCEPT ![u] = @ + 1]
      /\ t.rows = st.rows
      /\ t.list = st.list
      /\ t.games = st.games
  BY DEF StateSet
<1>3. [st.loads EXCEPT ![u] = @ + 1] \in [Users -> Nat]
  BY FieldTypes
<1>4. t \in StateSet(m)
  BY <1>3 DEF StateSet
<1> HIDE DEF t
<1> QED
  BY <1>1, <1>2, <1>4 DEF t

LEMMA ListenIs ==
  ASSUME NEW m, NEW row \in RowSet(m)
  PROVE  /\ Listen(row) \in RowSet(m)
         /\ Listen(row).id = row.id
         /\ Listen(row).label = row.label
         /\ Listen(row).listeners = row.listeners + 1
BY DEF Listen, RowSet

(* The listeners a callback gives to the last row. *)
LEMMA LastListensIs ==
  ASSUME NEW m, NEW s \in Seq(RowSet(m))
  PROVE  /\ LastListens(s) \in Seq(RowSet(m))
         /\ Len(LastListens(s)) = Len(s)
         /\ DOMAIN LastListens(s) = DOMAIN s
         /\ \A r \in DOMAIN s :
               /\ LastListens(s)[r].id = s[r].id
               /\ LastListens(s)[r].label = s[r].label
               /\ LastListens(s)[r].listeners =
                     IF r = Len(s) THEN s[r].listeners + 1 ELSE s[r].listeners
<1>1. Len(s) \in Nat /\ DOMAIN s = 1 .. Len(s) /\ \A r \in DOMAIN s : s[r] \in RowSet(m)
  OBVIOUS
<1>2. CASE s = <<>>
  BY <1>2 DEF LastListens
<1>3. CASE s # <<>>
  <2>1. Len(s) \in DOMAIN s
    BY <1>1, <1>3, EmptySeq
  <2>2. /\ Listen(s[Len(s)]) \in RowSet(m)
        /\ Listen(s[Len(s)]).id = s[Len(s)].id
        /\ Listen(s[Len(s)]).label = s[Len(s)].label
        /\ Listen(s[Len(s)]).listeners = s[Len(s)].listeners + 1
    <3>1. s[Len(s)] \in RowSet(m)
      BY <1>1, <2>1
    <3> QED
      BY <3>1, ListenIs
  <2>3. LastListens(s) = [s EXCEPT ![Len(s)] = Listen(s[Len(s)])]
    BY <1>3 DEF LastListens
  <2>4. LastListens(s) \in [1 .. Len(s) -> RowSet(m)]
    BY <1>1, <2>1, <2>2, <2>3
  <2>5. \A r \in DOMAIN s : LastListens(s)[r] = IF r = Len(s) THEN Listen(s[Len(s)]) ELSE s[r]
    BY <1>1, <2>1, <2>3
  <2>6. LastListens(s) \in Seq(RowSet(m)) /\ Len(LastListens(s)) = Len(s)
    BY <1>1, <2>4
  <2> QED
    BY <1>1, <2>2, <2>4, <2>5, <2>6
<1> QED
  BY <1>2, <1>3

LEMMA RunSet ==
  ASSUME NEW m, NEW st \in StateSet(m), NEW u \in Users, NEW l \in Seconds
  PROVE  LET r == Run(st, SetValue(l), u)
         IN  /\ r.callbacks = st.callbacks
             /\ r.loads = st.loads
             /\ r.rows = LastListens(st.rows)
             /\ r.list = st.list
             /\ r.games = [st.games EXCEPT ![u] = @ \cup {l}]
             /\ r \in StateSet(m)
<1> DEFINE r == Run(st, SetValue(l), u)
           t == [st EXCEPT !.games[u] = @ \cup {l}, !.rows = LastListens(st.rows)]
<1>1. r = t
  BY DEF Run, SetValue
<1>2. /\ t.callbacks = st.callbacks
      /\ t.loads = st.loads
      /\ t.rows = LastListens(st.rows)
      /\ t.list = st.list
      /\ t.games = [st.games EXCEPT ![u] = @ \cup {l}]
  BY DEF StateSet
<1>3. LastListens(st.rows) \in Seq(RowSet(m))
  BY FieldTypes, LastListensIs
<1>4. [st.games EXCEPT ![u] = @ \cup {l}] \in [Users -> SUBSET Keys]
  BY FieldTypes DEF Keys
<1>5. t \in StateSet(m)
  BY <1>3, <1>4 DEF StateSet
<1> QED
  BY <1>1, <1>2, <1>5

LEMMA RemoveAtIs ==
  ASSUME NEW E, NEW s \in Seq(E), NEW r \in DOMAIN s
  PROVE  /\ RemoveAt(s, r) \in Seq(E)
         /\ Len(RemoveAt(s, r)) = Len(s) - 1
         /\ DOMAIN RemoveAt(s, r) = 1 .. Len(s) - 1
         /\ \A n \in 1 .. Len(s) - 1 : RemoveAt(s, r)[n] = s[IF n < r THEN n ELSE n + 1]
<1> DEFINE a == SubSeq(s, 1, r - 1)
           b == SubSeq(s, r + 1, Len(s))
<1>1. Len(s) \in Nat /\ DOMAIN s = 1 .. Len(s) /\ r \in 1 .. Len(s)
  OBVIOUS
<1>2. /\ a \in Seq(E) /\ Len(a) = r - 1
      /\ \A n \in 1 .. r - 1 : a[n] = s[n]
  <2>1. 1 \in 1 .. Len(s) + 1 /\ r - 1 \in 1 - 1 .. Len(s)
    BY <1>1
  <2> QED
    BY <1>1, <2>1, SubSeqProperties
<1>3. /\ b \in Seq(E) /\ Len(b) = Len(s) - r
      /\ \A n \in 1 .. Len(s) - r : b[n] = s[r + n]
  <2>1. r + 1 \in 1 .. Len(s) + 1 /\ Len(s) \in r + 1 - 1 .. Len(s)
    BY <1>1
  <2>2. /\ b \in Seq(E) /\ Len(b) = Len(s) - (r + 1) + 1
        /\ \A n \in 1 .. Len(s) - (r + 1) + 1 : b[n] = s[(r + 1) + n - 1]
    BY <1>1, <2>1, SubSeqProperties
  <2>3. Len(s) \in Int /\ r \in Int
    BY <1>1
  <2>4. Len(b) = Len(s) - r
    BY <2>2, <2>3
  <2>5. ASSUME NEW n \in 1 .. Len(s) - r PROVE b[n] = s[r + n]
    <3>1. n \in 1 .. Len(s) - (r + 1) + 1 /\ (r + 1) + n - 1 = r + n
      BY <2>3
    <3> HIDE DEF b
    <3> QED
      BY <2>2, <3>1
  <2> QED
    BY <2>2, <2>4, <2>5
<1> HIDE DEF a, b
<1>4. /\ a \o b \in Seq(E) /\ Len(a \o b) = Len(a) + Len(b)
      /\ \A n \in 1 .. Len(a) : (a \o b)[n] = a[n]
      /\ \A n \in 1 .. Len(b) : (a \o b)[Len(a) + n] = b[n]
  <2>1. a \in Seq(E) /\ b \in Seq(E)
    BY <1>2, <1>3
  <2> QED
    BY <2>1, ConcatProperties
<1>5. ASSUME NEW n \in 1 .. Len(s) - 1
      PROVE  (a \o b)[n] = s[IF n < r THEN n ELSE n + 1]
  <2>0. n \in Int /\ r \in Int /\ Len(s) \in Int /\ n >= 1 /\ n <= Len(s) - 1
    BY <1>1
  <2>1. CASE n < r
    <3>1. n \in 1 .. r - 1 /\ Len(a) = r - 1
      BY <1>2, <2>0, <2>1
    <3> QED
      BY <1>2, <1>4, <2>1, <3>1
  <2>2. CASE ~ (n < r)
    <3>1. Len(a) = r - 1 /\ Len(b) = Len(s) - r
      BY <1>2, <1>3
    <3>2. n - (r - 1) \in 1 .. Len(s) - r
      BY <2>0, <2>2
    <3>3. (r - 1) + (n - (r - 1)) = n /\ r + (n - (r - 1)) = n + 1
      BY <2>0
    <3>4. (a \o b)[n] = b[n - (r - 1)]
      BY <1>4, <3>1, <3>2, <3>3
    <3>5. b[n - (r - 1)] = s[n + 1]
      BY <1>3, <3>2, <3>3
    <3> QED
      BY <2>2, <3>4, <3>5
  <2> QED
    BY <2>1, <2>2
<1>6. Len(a \o b) = Len(s) - 1
  BY <1>1, <1>2, <1>3, <1>4
<1>7. RemoveAt(s, r) = a \o b
  BY DEF RemoveAt, a, b
<1> QED
  BY <1>4, <1>5, <1>6, <1>7

(* A removal, of a game and of the child that is none. *)
LEMMA RunRemove ==
  ASSUME NEW m, NEW st \in StateSet(m), NEW u \in Users, NEW l \in Keys, NEW p \in Nat
  PROVE  LET r == Run(st, RemoveValue(l, p), u)
         IN  /\ r.callbacks = st.callbacks
             /\ r.loads = st.loads
             /\ r.rows = st.rows
             /\ r.list = IF l = Stray THEN st.list ELSE DropGame(st.list, p)
             /\ r.games = IF l = Stray THEN st.games ELSE [st.games EXCEPT ![u] = @ \ {l}]
             /\ r \in StateSet(m)
<1> DEFINE r == Run(st, RemoveValue(l, p), u)
           t == [st EXCEPT !.games[u] = @ \ {l}, !.list = DropGame(st.list, p)]
<1>1. r = IF l = Stray THEN st ELSE t
  BY DEF Run, RemoveValue
<1>2. /\ t.callbacks = st.callbacks
      /\ t.loads = st.loads
      /\ t.rows = st.rows
      /\ t.list = DropGame(st.list, p)
      /\ t.games = [st.games EXCEPT ![u] = @ \ {l}]
  BY DEF StateSet
<1>3. DropGame(st.list, p) \in Seq(Keys)
  BY FieldTypes, RemoveAtIs DEF DropGame
<1>4. [st.games EXCEPT ![u] = @ \ {l}] \in [Users -> SUBSET Keys]
  BY FieldTypes
<1>5. t \in StateSet(m)
  BY <1>3, <1>4 DEF StateSet
<1> HIDE DEF t
<1> QED
  BY <1>1, <1>2, <1>5

----------------------------------------------------------------------------
(* A row is found by its id. *)

LEMMA FoundById ==
  ASSUME NEW m, NEW s \in Seq(RowSet(m)), IdsGrow(s), NEW r \in DOMAIN s
  PROVE  LET I == {n \in 1 .. Len(s) : s[n].id = s[r].id}
         IN  I # {} /\ Min(I) = r
<1> DEFINE I == {n \in 1 .. Len(s) : s[n].id = s[r].id}
<1>1. Len(s) \in Nat /\ DOMAIN s = 1 .. Len(s) /\ \A n \in DOMAIN s : s[n].id \in Int
  <2>1. \A n \in DOMAIN s : s[n] \in RowSet(m)
    OBVIOUS
  <2> QED
    BY <2>1 DEF RowSet
<1>2. I = {r}
  <2>1. ASSUME NEW n \in 1 .. Len(s), s[n].id = s[r].id PROVE n = r
    <3>1. n \in DOMAIN s /\ n \in Int /\ r \in Int
      BY <1>1
    <3>2. ~ (n < r) /\ ~ (r < n)
      BY <1>1, <2>1, <3>1 DEF IdsGrow
    <3> QED
      BY <3>1, <3>2
  <2> QED
    BY <1>1, <2>1
<1>3. Min(I) = r
  <2>1. r \in Int
    BY <1>1
  <2> HIDE DEF I
  <2> QED
    BY <1>2, <2>1 DEF Min
<1> QED
  BY <1>2, <1>3

LEMMA RegisterIs ==
  ASSUME NEW m, NEW st \in StateSet(m), NEW c \in CallbackSet
  PROVE  LET t == [st EXCEPT !.callbacks = Append(@, c)]
         IN  /\ t \in StateSet(m)
             /\ t.callbacks = Append(st.callbacks, c)
             /\ t.loads = st.loads
             /\ t.rows = st.rows
             /\ t.list = st.list
             /\ t.games = st.games
             /\ Register(st, c) = IF user = Nobody THEN t ELSE Run(t, c, user)
<1> DEFINE t == [st EXCEPT !.callbacks = Append(@, c)]
<1>1. Append(st.callbacks, c) \in Seq(CallbackSet)
  BY FieldTypes, AppendProperties
<1>2. /\ t \in StateSet(m)
      /\ t.callbacks = Append(st.callbacks, c)
      /\ t.loads = st.loads
      /\ t.rows = st.rows
      /\ t.list = st.list
      /\ t.games = st.games
  BY <1>1 DEF StateSet
<1>3. Register(st, c) = IF user = Nobody THEN t ELSE Run(t, c, user)
  BY DEF Register
<1> QED
  BY <1>2, <1>3

LEMMA IdsStayApart ==
  ASSUME NEW m, NEW s \in Seq(RowSet(m)), IdsGrow(s), NEW r \in DOMAIN s
  PROVE  /\ RemoveAt(s, r) \in Seq(RowSet(m))
         /\ IdsGrow(RemoveAt(s, r))
         /\ \A n \in 1 .. Len(RemoveAt(s, r)) : RemoveAt(s, r)[n].id # s[r].id
<1> DEFINE t == RemoveAt(s, r)
           At(n) == IF n < r THEN n ELSE n + 1
<1>1. /\ t \in Seq(RowSet(m)) /\ Len(t) = Len(s) - 1 /\ DOMAIN t = 1 .. Len(s) - 1
      /\ \A n \in 1 .. Len(s) - 1 : t[n] = s[At(n)]
  BY RemoveAtIs
<1>2. Len(s) \in Nat /\ DOMAIN s = 1 .. Len(s) /\ \A n \in DOMAIN s : s[n].id \in Int
  <2>1. \A n \in DOMAIN s : s[n] \in RowSet(m)
    OBVIOUS
  <2> QED
    BY <2>1 DEF RowSet
<1>3. \A n \in 1 .. Len(s) - 1 : At(n) \in DOMAIN s /\ At(n) # r
  BY <1>2
<1>4. \A n, k \in 1 .. Len(s) - 1 : n < k => At(n) < At(k)
  BY <1>2
<1> HIDE DEF t, At
<1>5. IdsGrow(t)
  BY <1>1, <1>3, <1>4 DEF IdsGrow
<1>6. ASSUME NEW n \in 1 .. Len(t) PROVE t[n].id # s[r].id
  <2>1. At(n) \in DOMAIN s /\ At(n) # r /\ t[n] = s[At(n)] /\ At(n) \in Int /\ r \in Int
    BY <1>1, <1>2, <1>3
  <2>2. At(n) < r \/ r < At(n)
    BY <2>1
  <2>3. s[At(n)].id < s[r].id \/ s[r].id < s[At(n)].id
    BY <2>1, <2>2 DEF IdsGrow
  <2> QED
    BY <1>2, <2>1, <2>3
<1> QED
  BY <1>1, <1>5, <1>6 DEF t

(* What removeGame makes of st, called with the id of row r. *)
RowRemoved(st, r, g) ==
    /\ g.rows = RemoveAt(st.rows, r)
    /\ g.loads = st.loads
    /\ r \notin DOMAIN st.list => /\ g.callbacks = st.callbacks
                                  /\ g.list = st.list
                                  /\ g.games = st.games
    /\ r \in DOMAIN st.list =>
          /\ g.callbacks = Append(st.callbacks, RemoveValue(st.list[r], r))
          /\ IF user = Nobody \/ st.list[r] = Stray
             THEN g.list = st.list /\ g.games = st.games
             ELSE /\ g.list = RemoveAt(st.list, r)
                  /\ g.games = [st.games EXCEPT ![user] = @ \ {st.list[r]}]

LEMMA RemoveGameIs ==
  ASSUME NEW m, NEW st, StateType(st, m), user \in Users \cup {Nobody},
         NEW r \in DOMAIN st.rows
  PROVE  /\ StateType(RemoveGame(st, st.rows[r].id), m)
         /\ RowRemoved(st, r, RemoveGame(st, st.rows[r].id))
<1> DEFINE g == RemoveGame(st, st.rows[r].id)
           t == [st EXCEPT !.rows = RemoveAt(@, r)]
           c == RemoveValue(st.list[r], r)
<1>0. st \in StateSet(m) /\ IdsGrow(st.rows) /\ st.rows \in Seq(RowSet(m)) /\ st.list \in Seq(Keys)
  BY FieldTypes DEF StateType
<1>1. RemoveAt(st.rows, r) \in Seq(RowSet(m)) /\ IdsGrow(RemoveAt(st.rows, r))
  BY <1>0, IdsStayApart
<1>2. /\ t \in StateSet(m)
      /\ t.callbacks = st.callbacks
      /\ t.loads = st.loads
      /\ t.rows = RemoveAt(st.rows, r)
      /\ t.list = st.list
      /\ t.games = st.games
  BY <1>0, <1>1 DEF StateSet
<1>3. r \in Nat /\ r # 0
  BY <1>0
<1>4. SelectInSeq(st.rows, LAMBDA row : row.id = st.rows[r].id) = r
  BY <1>0, FoundById DEF SelectInSeq
<1>5. g = IF r \notin DOMAIN st.list THEN t ELSE Register(t, c)
  BY <1>3, <1>4 DEF RemoveGame
<1> HIDE DEF g, t
<1>6. CASE r \notin DOMAIN st.list
  BY <1>1, <1>2, <1>5, <1>6 DEF StateType, g, RowRemoved
<1>7. CASE r \in DOMAIN st.list
  <2>1. st.list[r] \in Keys
    BY <1>0, <1>7
  <2>2. c \in CallbackSet
    BY <1>3, <2>1 DEF CallbackSet, RemoveValue
  <2> DEFINE q == [t EXCEPT !.callbacks = Append(@, c)]
  <2>3. /\ q \in StateSet(m)
        /\ q.callbacks = Append(t.callbacks, c)
        /\ q.loads = t.loads
        /\ q.rows = t.rows
        /\ q.list = t.list
        /\ q.games = t.games
        /\ Register(t, c) = IF user = Nobody THEN q ELSE Run(q, c, user)
    <3>1. t \in StateSet(m)
      BY <1>2
    <3> HIDE DEF c
    <3> QED
      BY <2>2, <3>1, RegisterIs
  <2> HIDE DEF q
  <2>4. CASE user = Nobody
    BY <1>1, <1>2, <1>5, <1>7, <2>3, <2>4 DEF StateType, g, RowRemoved
  <2>5. CASE user # Nobody
    <3>1. user \in Users
      BY <2>5
    <3>2. LET h == Run(q, c, user)
          IN  /\ h.callbacks = q.callbacks
              /\ h.loads = q.loads
              /\ h.rows = q.rows
              /\ h.list = IF st.list[r] = Stray THEN q.list ELSE DropGame(q.list, r)
              /\ h.games = IF st.list[r] = Stray THEN q.games
                           ELSE [q.games EXCEPT ![user] = @ \ {st.list[r]}]
              /\ h \in StateSet(m)
      BY <1>3, <2>1, <2>3, <3>1, RunRemove
    <3>3. g = Run(q, c, user)
      BY <1>5, <1>7, <2>3, <2>5
    <3>4. DropGame(q.list, r) = RemoveAt(st.list, r)
      BY <1>2, <1>7, <2>3 DEF DropGame
    <3> QED
      BY <1>1, <1>2, <1>7, <2>3, <2>5, <3>2, <3>3, <3>4 DEF StateType, g, RowRemoved
  <2> QED
    BY <2>4, <2>5
<1> QED
  BY <1>6, <1>7

LEMMA RemoveGameNone ==
  ASSUME NEW st, NEW id, \A n \in 1 .. Len(st.rows) : st.rows[n].id # id
  PROVE  RemoveGame(st, id) = st
<1>1. SelectInSeq(st.rows, LAMBDA row : row.id = id) = 0
  BY DEF SelectInSeq
<1> QED
  BY <1>1 DEF RemoveGame

(* However many listeners a trash can has, only the first one finds the    *)
(* row.                                                                    *)
LEMMA RemoveOnce ==
  ASSUME NEW m, NEW st, StateType(st, m), user \in Users \cup {Nobody},
         NEW r \in DOMAIN st.rows, NEW k \in Nat, k > 0
  PROVE  RemoveGameTimes(st, st.rows[r].id, k) = RemoveGame(st, st.rows[r].id)
<1> DEFINE id == st.rows[r].id
           g == RemoveGame(st, id)
           F(h) == h = [n \in 0 .. k |-> IF n = 0 THEN st ELSE RemoveGame(h[n - 1], id)]
<1>1. RemoveGame(g, id) = g
  <2>1. st.rows \in Seq(RowSet(m)) /\ IdsGrow(st.rows)
    BY FieldTypes DEF StateType
  <2>2. g.rows = RemoveAt(st.rows, r)
    <3>1. RowRemoved(st, r, g)
      BY RemoveGameIs
    <3> HIDE DEF g
    <3> QED
      BY <3>1 DEF RowRemoved
  <2>3. \A n \in 1 .. Len(g.rows) : g.rows[n].id # id
    <3> HIDE DEF g
    <3> QED
      BY <2>1, <2>2, IdsStayApart
  <2> HIDE DEF g, id
  <2> QED
    BY <2>3, RemoveGameNone
<1> HIDE DEF id
<1>2. \E h : F(h)
  <2> DEFINE h == [n \in 0 .. k |-> IF n = 0 THEN st ELSE g]
  <2>1. ASSUME NEW n \in 0 .. k, n # 0
        PROVE  h[n] = RemoveGame(h[n - 1], id)
    <3>1. n - 1 \in 0 .. k /\ h[n] = g
      BY <2>1
    <3>2. CASE n = 1
      BY <3>1, <3>2
    <3>3. CASE n # 1
      <4>1. h[n - 1] = g
        BY <3>1, <3>3
      <4> HIDE DEF h, g
      <4> QED
        BY <1>1, <3>1, <4>1
    <3> QED
      BY <3>2, <3>3
  <2>2. h[0] = st /\ h = [n \in 0 .. k |-> h[n]]
    OBVIOUS
  <2>3. F(h)
    <3> HIDE DEF h
    <3> QED
      BY <2>1, <2>2
  <2> QED
    BY <2>3
<1> DEFINE c == CHOOSE h : F(h)
<1>3. F(c)
  <2> HIDE DEF F
  <2> QED
    BY <1>2
<1>4. RemoveGameTimes(st, id, k) = c[k]
  BY DEF RemoveGameTimes
<1> HIDE DEF c
<1>5. c[0] = st /\ \A n \in 1 .. k : c[n] = RemoveGame(c[n - 1], id)
  BY <1>3
<1> DEFINE S == {n \in 0 .. k : n # 0 => c[n] = g}
<1>6. 0 \in S
  OBVIOUS
<1>7. ASSUME NEW n \in 1 .. k, n - 1 \in S PROVE n \in S
  <2>1. CASE n = 1
    BY <1>5, <2>1
  <2>2. CASE n # 1
    <3>1. c[n - 1] = g
      BY <1>7, <2>2
    <3>2. c[n] = RemoveGame(c[n - 1], id)
      BY <1>5
    <3> HIDE DEF g
    <3> QED
      BY <1>1, <3>1, <3>2
  <2> QED
    BY <2>1, <2>2
<1>8. \A n \in 0 .. k : n \in S
  <2> HIDE DEF S
  <2> QED
    BY <1>6, <1>7, UpTo
<1>9. c[k] = g
  BY <1>8
<1> QED
  BY <1>4, <1>9 DEF id

----------------------------------------------------------------------------
(* All the callbacks. *)

(* RunAll by the records it goes through. *)
LEMMA RunAllSteps ==
  ASSUME NEW st, NEW cs, NEW u, Len(cs) \in Nat
  PROVE  \E h : /\ h[0] = st
                /\ \A i \in 1 .. Len(cs) : h[i] = Run(h[i - 1], cs[i], u)
                /\ RunAll(st, cs, u) = h[Len(cs)]
<1>0. PICK n \in Nat : n = Len(cs)
  OBVIOUS
<1> DEFINE Sat(h, m) == /\ h = [i \in 0 .. m |-> h[i]]
                        /\ h[0] = st
                        /\ \A i \in 1 .. m : h[i] = Run(h[i - 1], cs[i], u)
           S == {m \in Nat : \E h : Sat(h, m)}
<1>1. 0 \in S
  <2> DEFINE h == [i \in 0 .. 0 |-> st]
  <2>1. Sat(h, 0)
    OBVIOUS
  <2> QED
    BY <2>1
<1>2. ASSUME NEW m \in 1 .. n, m - 1 \in S
      PROVE  m \in S
  <2>1. m \in Nat /\ m - 1 \in Nat /\ m # 0
    OBVIOUS
  <2>2. PICK g : Sat(g, m - 1)
    BY <1>2
  <2> DEFINE y == Run(g[m - 1], cs[m], u)
             h == [i \in 0 .. m |-> IF i = m THEN y ELSE g[i]]
  <2> HIDE DEF y
  <2>3. h = [i \in 0 .. m |-> h[i]] /\ h[0] = st
    BY <2>1, <2>2
  <2>4. ASSUME NEW i \in 1 .. m PROVE h[i] = Run(h[i - 1], cs[i], u)
    <3>1. CASE i = m
      <4>1. h[i] = y /\ h[i - 1] = g[m - 1]
        BY <2>1, <3>1
      <4> QED
        BY <3>1, <4>1 DEF y
    <3>2. CASE i # m
      <4>1. i \in 1 .. m - 1 /\ i \in 0 .. m /\ i - 1 \in 0 .. m /\ i - 1 # m
        BY <2>1, <3>2
      <4>2. h[i] = g[i] /\ h[i - 1] = g[i - 1]
        BY <3>2, <4>1
      <4>3. g[i] = Run(g[i - 1], cs[i], u)
        BY <2>2, <4>1
      <4> QED
        BY <4>2, <4>3
    <3> QED
      BY <3>1, <3>2
  <2> HIDE DEF h
  <2>5. Sat(h, m)
    BY <2>3, <2>4
  <2> HIDE DEF Sat
  <2> QED
    BY <2>1, <2>5
<1>3. \A m \in 0 .. n : m \in S
  <2> HIDE DEF S
  <2> QED
    BY <1>1, <1>2, UpTo
<1>4. n \in S
  BY <1>3
<1>5. PICK h : Sat(h, n)
  BY <1>4
<1> DEFINE F(g) == g = [i \in 0 .. Len(cs) |-> IF i = 0 THEN st ELSE Run(g[i - 1], cs[i], u)]
<1>6. F(h)
  <2> DEFINE g == [i \in 0 .. Len(cs) |-> IF i = 0 THEN st ELSE Run(h[i - 1], cs[i], u)]
  <2>1. \A i \in 0 .. n : h[i] = g[i]
    <3>1. ASSUME NEW i \in 0 .. n, i # 0 PROVE h[i] = g[i]
      <4>1. i \in 1 .. n /\ i \in 0 .. Len(cs)
        BY <1>0, <3>1
      <4> QED
        BY <1>5, <3>1, <4>1
    <3>2. h[0] = g[0]
      BY <1>0, <1>5
    <3> QED
      BY <3>1, <3>2
  <2>2. h = [i \in 0 .. n |-> h[i]]
    BY <1>5
  <2> QED
    BY <1>0, <2>1, <2>2
<1>7. PICK g : F(g) /\ RunAll(st, cs, u) = g[Len(cs)]
  <2> DEFINE c == CHOOSE g : F(g)
  <2>1. F(c)
    <3> HIDE DEF F
    <3> QED
      BY <1>6
  <2>2. RunAll(st, cs, u) = c[Len(cs)]
    BY DEF RunAll
  <2> QED
    BY <2>1, <2>2
<1>8. g[0] = st /\ \A i \in 1 .. n : g[i] = Run(g[i - 1], cs[i], u)
  BY <1>0, <1>7
<1> QED
  BY <1>0, <1>7, <1>8

(* What no callback, called with user u, does to st: r has the same rows,  *)
(* with no fewer listeners, and u's games alone may differ.                *)
Keeps(st, r, u) ==
    /\ r.callbacks = st.callbacks
    /\ Len(r.rows) = Len(st.rows)
    /\ \A n \in 1 .. Len(st.rows) :
          r.rows[n].id = st.rows[n].id /\ r.rows[n].label = st.rows[n].label
    /\ r.loads[u] >= st.loads[u]
    /\ \A v \in Users \ {u} : r.loads[v] = st.loads[v] /\ r.games[v] = st.games[v]

LEMMA KeepsSelf ==
  ASSUME NEW m, NEW st \in StateSet(m), NEW u \in Users
  PROVE  Keeps(st, st, u)
<1>1. st.loads[u] \in Nat
  BY FieldTypes
<1> QED
  BY <1>1 DEF Keeps

LEMMA KeepsOn ==
  ASSUME NEW m, NEW st \in StateSet(m), NEW q \in StateSet(m), NEW r \in StateSet(m),
         NEW u \in Users, Keeps(st, q, u), Keeps(q, r, u)
  PROVE  Keeps(st, r, u)
<1>1. st.loads[u] \in Nat /\ q.loads[u] \in Nat /\ r.loads[u] \in Nat
  BY FieldTypes
<1>2. r.loads[u] >= st.loads[u]
  BY <1>1 DEF Keeps
<1> QED
  BY <1>2 DEF Keeps

(* One callback; only a removal changes the list, only a load the requests. *)
LEMMA RunKeeps ==
  ASSUME NEW m, NEW st, StateType(st, m), NEW c \in CallbackSet, NEW u \in Users
  PROVE  /\ StateType(Run(st, c, u), m)
         /\ Keeps(st, Run(st, c, u), u)
         /\ c.does # "remove" => Run(st, c, u).list = st.list
         /\ c.does = "set" => Run(st, c, u).loads = st.loads
<1>0. st \in StateSet(m) /\ IdsGrow(st.rows)
  BY DEF StateType
<1>t. /\ st.loads \in [Users -> Nat] /\ st.games \in [Users -> SUBSET Keys]
      /\ st.rows \in Seq(RowSet(m)) /\ DOMAIN st.rows = 1 .. Len(st.rows)
  BY <1>0, FieldTypes
<1>1. CASE c.does = "load"
  <2>1. c = Load
    BY <1>1 DEF CallbackSet, Load
  <2>2. /\ Run(st, Load, u).callbacks = st.callbacks
        /\ Run(st, Load, u).loads = [st.loads EXCEPT ![u] = @ + 1]
        /\ Run(st, Load, u).rows = st.rows
        /\ Run(st, Load, u).list = st.list
        /\ Run(st, Load, u).games = st.games
        /\ Run(st, Load, u) \in StateSet(m)
    BY <1>0, RunLoad
  <2>3. Keeps(st, Run(st, Load, u), u)
    <3>1. /\ Run(st, Load, u).loads[u] >= st.loads[u]
          /\ \A v \in Users \ {u} : Run(st, Load, u).loads[v] = st.loads[v]
      BY <1>t, <2>2
    <3> QED
      BY <2>2, <3>1 DEF Keeps
  <2> QED
    BY <1>0, <1>1, <2>1, <2>2, <2>3 DEF StateType
<1>2. CASE c.does = "set"
  <2>1. PICK l \in Seconds : c = SetValue(l)
    BY <1>2 DEF CallbackSet, SetValue
  <2> DEFINE r == Run(st, SetValue(l), u)
  <2>2. /\ r.callbacks = st.callbacks
        /\ r.loads = st.loads
        /\ r.rows = LastListens(st.rows)
        /\ r.list = st.list
        /\ r.games = [st.games EXCEPT ![u] = @ \cup {l}]
        /\ r \in StateSet(m)
    BY <1>0, RunSet
  <2>3. /\ Len(LastListens(st.rows)) = Len(st.rows)
        /\ DOMAIN LastListens(st.rows) = DOMAIN st.rows
        /\ \A n \in DOMAIN st.rows : /\ LastListens(st.rows)[n].id = st.rows[n].id
                                     /\ LastListens(st.rows)[n].label = st.rows[n].label
    BY <1>t, LastListensIs
  <2> HIDE DEF r
  <2>4. IdsGrow(r.rows)
    BY <1>0, <2>2, <2>3 DEF IdsGrow
  <2>5. Keeps(st, r, u)
    <3>1. \A v \in Users \ {u} : r.games[v] = st.games[v]
      BY <1>t, <2>2
    <3>2. r.loads[u] >= st.loads[u]
      BY <1>t, <2>2
    <3> QED
      BY <1>t, <2>2, <2>3, <3>1, <3>2 DEF Keeps
  <2> QED
    BY <1>2, <2>1, <2>2, <2>4, <2>5 DEF StateType, r
<1>3. CASE c.does = "remove"
  <2>1. PICK l \in Keys, p \in Nat : c = RemoveValue(l, p)
    BY <1>3 DEF CallbackSet, RemoveValue
  <2> DEFINE r == Run(st, RemoveValue(l, p), u)
  <2>2. /\ r.callbacks = st.callbacks
        /\ r.loads = st.loads
        /\ r.rows = st.rows
        /\ r.games = IF l = Stray THEN st.games ELSE [st.games EXCEPT ![u] = @ \ {l}]
        /\ r \in StateSet(m)
    BY <1>0, RunRemove
  <2> HIDE DEF r
  <2>3. Keeps(st, r, u)
    <3>1. \A v \in Users \ {u} : r.games[v] = st.games[v]
      BY <1>t, <2>2
    <3>2. r.loads[u] >= st.loads[u]
      BY <1>t, <2>2
    <3> QED
      BY <1>t, <2>2, <3>1, <3>2 DEF Keeps
  <2> QED
    BY <1>0, <1>3, <2>1, <2>2, <2>3 DEF StateType, r
<1> QED
  BY <1>1, <1>2, <1>3 DEF CallbackSet

(* All of them: callbacks that add games, a request at the end. *)
LEMMA RunAllKeeps ==
  ASSUME NEW m, NEW st, StateType(st, m), NEW cs \in Seq(CallbackSet), NEW u \in Users
  PROVE  LET r == RunAll(st, Append(cs, Load), u)
         IN  /\ StateType(r, m)
             /\ Keeps(st, r, u)
             /\ r.loads[u] > st.loads[u]
             /\ (\A n \in DOMAIN cs : cs[n].does # "remove") => r.list = st.list
             /\ (\A n \in DOMAIN cs : cs[n].does = "set") => r.loads[u] = st.loads[u] + 1
<1> DEFINE ds == Append(cs, Load)
           k == Len(cs)
           NoRemoves == \A n \in DOMAIN cs : cs[n].does # "remove"
           AllSets == \A n \in DOMAIN cs : cs[n].does = "set"
<1>1. /\ k \in Nat /\ Len(ds) = k + 1 /\ DOMAIN cs = 1 .. k
      /\ ds[k + 1] = Load
      /\ \A n \in 1 .. k : ds[n] = cs[n] /\ cs[n] \in CallbackSet
  <2>1. Load \in CallbackSet
    BY DEF Load, CallbackSet
  <2> QED
    BY <2>1, AppendProperties
<1> HIDE DEF ds, k
<1>2. PICK h : /\ h[0] = st
               /\ \A n \in 1 .. k + 1 : h[n] = Run(h[n - 1], ds[n], u)
               /\ RunAll(st, ds, u) = h[k + 1]
  BY <1>1, RunAllSteps
<1> DEFINE Ok(r) == /\ StateType(r, m)
                    /\ Keeps(st, r, u)
                    /\ NoRemoves => r.list = st.list
                    /\ AllSets => r.loads = st.loads
           S == {n \in 0 .. k : Ok(h[n])}
<1>3. 0 \in S
  <2>1. Keeps(st, st, u)
    BY KeepsSelf DEF StateType
  <2> QED
    BY <1>1, <1>2, <2>1
<1>4. ASSUME NEW n \in 1 .. k, n - 1 \in S
      PROVE  n \in S
  <2> DEFINE q == h[n - 1]
             r == Run(q, cs[n], u)
  <2>1. Ok(q)
    BY <1>4
  <2>2. h[n] = r
    BY <1>1, <1>2
  <2>3. /\ StateType(r, m)
        /\ Keeps(q, r, u)
        /\ cs[n].does # "remove" => r.list = q.list
        /\ cs[n].does = "set" => r.loads = q.loads
    <3>1. cs[n] \in CallbackSet
      BY <1>1
    <3> HIDE DEF q
    <3> QED
      BY <2>1, <3>1, RunKeeps
  <2> HIDE DEF q, r
  <2>4. Keeps(st, r, u)
    BY <2>1, <2>3, KeepsOn DEF StateType
  <2>5. n \in DOMAIN cs /\ n \in 0 .. k
    BY <1>1
  <2>6. Ok(r)
    BY <2>1, <2>3, <2>4, <2>5
  <2> QED
    BY <2>2, <2>5, <2>6
<1>5. \A n \in 0 .. k : n \in S
  <2> HIDE DEF S
  <2> QED
    BY <1>1, <1>3, <1>4, UpTo
<1> DEFINE q == h[k]
           r == Run(q, Load, u)
<1>6. Ok(q)
  <2>1. k \in 0 .. k
    BY <1>1
  <2> QED
    BY <1>5, <2>1
<1>7. RunAll(st, ds, u) = r
  <2>1. k + 1 \in 1 .. k + 1 /\ (k + 1) - 1 = k
    BY <1>1
  <2> QED
    BY <1>1, <1>2, <2>1
<1> HIDE DEF q
<1>8. /\ r.loads = [q.loads EXCEPT ![u] = @ + 1]
      /\ r.list = q.list
  BY <1>6, RunLoad DEF StateType
<1>9. StateType(r, m) /\ Keeps(q, r, u)
  <2>1. Load \in CallbackSet
    BY DEF Load, CallbackSet
  <2> QED
    BY <1>6, <2>1, RunKeeps
<1> HIDE DEF r
<1>10. Keeps(st, r, u)
  BY <1>6, <1>9, KeepsOn DEF StateType
<1>11. r.loads[u] = q.loads[u] + 1 /\ q.loads[u] \in Nat /\ st.loads[u] \in Nat
  <2>1. q.loads \in [Users -> Nat] /\ st.loads \in [Users -> Nat]
    BY <1>6, FieldTypes DEF StateType
  <2> QED
    BY <1>8, <2>1
<1>12. r.loads[u] > st.loads[u]
  BY <1>6, <1>11 DEF Keeps
<1>13. NoRemoves => r.list = st.list
  BY <1>6, <1>8
<1>14. AllSets => r.loads[u] = st.loads[u] + 1
  BY <1>6, <1>11
<1> QED
  BY <1>7, <1>9, <1>10, <1>12, <1>13, <1>14 DEF ds

----------------------------------------------------------------------------
(* What the actions do to the page. *)

(* The page's state, typed together with the callbacks. *)
PageTyped == TypeOK /\ callbacks \in Seq(CallbackSet)

LEMMA NowIs ==
  ASSUME PageTyped
  PROVE  /\ StateType(Now, numNewDiv)
         /\ Now.callbacks = callbacks
         /\ Now.loads = loads
         /\ Now.rows = rows
         /\ Now.list = gamesClassList
         /\ Now.games = games
<1>1. rows \in Seq(RowSet(numNewDiv)) /\ IdsGrow(rows)
  BY DEF PageTyped, TypeOK, RowSet, IdsGrow
<1>2. /\ Now.callbacks = callbacks
      /\ Now.loads = loads
      /\ Now.rows = rows
      /\ Now.list = gamesClassList
      /\ Now.games = games
  BY DEF Now
<1>3. Now \in StateSet(numNewDiv)
  BY <1>1 DEF Now, StateSet, PageTyped, TypeOK
<1> QED
  BY <1>1, <1>2, <1>3 DEF StateType

(* What a record of the state leaves behind is typed. *)
LEMMA BecomesTyped ==
  ASSUME NEW m \in Nat, NEW st, StateType(st, m), Becomes(st), numNewDiv' = m,
         patient' \in BOOLEAN, open' \in BOOLEAN, opening' \in BOOLEAN,
         user' \in Users \cup {Nobody}, signIns' \in 0 .. MaxSignIns,
         now' \in Seconds, lastSelectedGame' \in [Users -> Keys \cup {NoGame}]
  PROVE  PageTyped'
<1>1. /\ callbacks' \in Seq(CallbackSet)
      /\ loads' \in [Users -> Nat]
      /\ rows' \in Seq(RowSet(m))
      /\ gamesClassList' \in Seq(Keys)
      /\ games' \in [Users -> SUBSET Keys]
  BY FieldTypes DEF StateType, Becomes
<1>2. \A r, s \in DOMAIN rows' : r < s => rows'[r].id < rows'[s].id
  BY DEF StateType, Becomes, IdsGrow
<1> QED
  BY <1>1, <1>2 DEF PageTyped, TypeOK, RowSet

LEMMA SeqAsFunction ==
  ASSUME NEW E, NEW s \in Seq(E)
  PROVE  s = [n \in 1 .. Len(s) |-> s[n]]
<1>1. DOMAIN s = 1 .. Len(s)
  OBVIOUS
<1>2. s = [n \in DOMAIN s |-> s[n]]
  OBVIOUS
<1> QED
  BY <1>1, <1>2

LEMMA LabelsType ==
  ASSUME PageTyped
  PROVE  /\ Len(rows) \in Nat /\ DOMAIN rows = 1 .. Len(rows)
         /\ rows \in Seq(RowSet(numNewDiv))
         /\ Labels \in Seq(Keys) /\ Len(Labels) = Len(rows)
         /\ DOMAIN Labels = 1 .. Len(rows)
         /\ \A r \in 1 .. Len(rows) : Labels[r] = rows[r].label
         /\ gamesClassList \in Seq(Keys)
<1>1. rows \in Seq(RowSet(numNewDiv)) /\ gamesClassList \in Seq(Keys)
  BY DEF PageTyped, TypeOK, RowSet
<1>2. /\ Len(rows) \in Nat /\ DOMAIN rows = 1 .. Len(rows)
      /\ \A r \in DOMAIN rows : rows[r] \in RowSet(numNewDiv)
  BY <1>1
<1>3. /\ Labels \in [1 .. Len(rows) -> Keys]
      /\ \A r \in 1 .. Len(rows) : Labels[r] = rows[r].label
  BY <1>2 DEF Labels, RowSet
<1> QED
  BY <1>1, <1>2, <1>3

(* A game is added: callback, row and GameModel. *)
LEMMA AddGameIs ==
  ASSUME PageTyped, AddGame
  PROVE  /\ PageTyped'
         /\ callbacks' = Append(callbacks, SetValue(now))
         /\ loads' = loads
         /\ gamesClassList' = Append(gamesClassList, now)
         /\ Labels' = Append(Labels, now)
         /\ Len(rows') = Len(rows) + 1
         /\ user = Nobody => rows'[Len(rows) + 1].listeners = 0
         /\ user # Nobody => rows'[Len(rows) + 1].listeners = 1
         /\ \A r \in 1 .. Len(rows) : rows'[r] = rows[r]
         /\ games' = IF user = Nobody THEN games ELSE [games EXCEPT ![user] = @ \cup {now}]
<1> DEFINE row == Row(numNewDiv, now)
           more == Append(rows, row)
           st == [Now EXCEPT !.rows = Append(@, row), !.list = Append(@, now)]
           c == SetValue(now)
           t == [st EXCEPT !.callbacks = Append(@, c)]
           res == Register(st, c)
           m == numNewDiv + 1
<1>0. /\ numNewDiv \in Nat /\ now \in Seconds /\ now \in Keys /\ user \in Users \cup {Nobody}
      /\ loads \in [Users -> Nat] /\ games \in [Users -> SUBSET Keys]
      /\ rows \in Seq(RowSet(numNewDiv)) /\ gamesClassList \in Seq(Keys)
      /\ callbacks \in Seq(CallbackSet)
  BY DEF PageTyped, TypeOK, Keys, RowSet
<1>1. /\ st.callbacks = callbacks
      /\ st.loads = loads
      /\ st.rows = more
      /\ st.list = Append(gamesClassList, now)
      /\ st.games = games
  BY DEF Now
<1>2. /\ more \in Seq(RowSet(m)) /\ Len(more) = Len(rows) + 1
      /\ DOMAIN more = 1 .. Len(rows) + 1
      /\ \A r \in 1 .. Len(rows) : more[r] = rows[r]
      /\ more[Len(rows) + 1] = row
  <2>1. RowSet(numNewDiv) \subseteq RowSet(m)
    BY <1>0 DEF RowSet
  <2>2. rows \in Seq(RowSet(m))
    BY <1>0, <2>1, SeqMonotonic
  <2>3. row \in RowSet(m)
    BY <1>0 DEF Row, RowSet
  <2> HIDE DEF row
  <2> QED
    BY <2>2, <2>3, AppendProperties
<1>3. IdsGrow(more)
  <2>1. \A r \in 1 .. Len(rows) : rows[r].id < numNewDiv /\ rows[r] \in RowSet(numNewDiv)
    <3>1. \A r \in 1 .. Len(rows) : rows[r] \in RowSet(numNewDiv)
      BY <1>0
    <3> QED
      BY <1>0, <3>1 DEF RowSet
  <2>2. row.id = numNewDiv
    BY DEF Row
  <2>3. \A r, s \in 1 .. Len(rows) : r < s => rows[r].id < rows[s].id
    <3>1. IdsGrow(rows)
      BY NowIs DEF StateType
    <3>2. DOMAIN rows = 1 .. Len(rows)
      BY <1>0
    <3> QED
      BY <3>1, <3>2 DEF IdsGrow
  <2>4. Len(rows) \in Nat
    BY <1>0
  <2>5. ASSUME NEW r \in DOMAIN more, NEW s \in DOMAIN more, r < s
        PROVE  more[r].id < more[s].id
    <3>1. r \in 1 .. Len(rows) /\ more[r] = rows[r]
      BY <1>2, <2>4, <2>5
    <3>2. CASE s = Len(rows) + 1
      BY <1>2, <2>1, <2>2, <3>1, <3>2
    <3>3. CASE s # Len(rows) + 1
      <4>1. s \in 1 .. Len(rows) /\ more[s] = rows[s]
        BY <1>2, <2>4, <3>3
      <4> QED
        BY <2>3, <2>5, <3>1, <4>1
    <3> QED
      BY <3>2, <3>3
  <2> QED
    BY <2>5 DEF IdsGrow
<1>4. Append(gamesClassList, now) \in Seq(Keys)
  BY <1>0, AppendProperties
<1>5. st \in StateSet(m)
  <2> HIDE DEF more
  <2> QED
    BY <1>0, <1>2, <1>4 DEF StateSet, Now, more
<1>6. c \in CallbackSet
  BY <1>0 DEF SetValue, CallbackSet
<1> HIDE DEF st, c
<1>7. /\ t \in StateSet(m)
      /\ t.callbacks = Append(st.callbacks, c)
      /\ t.loads = st.loads
      /\ t.rows = st.rows
      /\ t.list = st.list
      /\ t.games = st.games
      /\ res = IF user = Nobody THEN t ELSE Run(t, c, user)
  BY <1>5, <1>6, RegisterIs
<1> HIDE DEF t, res, more
<1>8. user # Nobody =>
         /\ res.callbacks = t.callbacks
         /\ res.loads = t.loads
         /\ res.rows = LastListens(t.rows)
         /\ res.list = t.list
         /\ res.games = [t.games EXCEPT ![user] = @ \cup {now}]
         /\ res \in StateSet(m)
  <2> SUFFICES ASSUME user # Nobody
               PROVE  LET r == Run(t, SetValue(now), user)
                      IN  /\ r.callbacks = t.callbacks
                          /\ r.loads = t.loads
                          /\ r.rows = LastListens(t.rows)
                          /\ r.list = t.list
                          /\ r.games = [t.games EXCEPT ![user] = @ \cup {now}]
                          /\ r \in StateSet(m)
    BY <1>7 DEF c
  <2>1. user \in Users /\ t \in StateSet(m) /\ now \in Seconds
    BY <1>0, <1>7
  <2> HIDE DEF m
  <2> QED
    BY <2>1, RunSet
<1>9. /\ LastListens(more) \in Seq(RowSet(m))
      /\ Len(LastListens(more)) = Len(more)
      /\ DOMAIN LastListens(more) = DOMAIN more
      /\ \A r \in DOMAIN more :
            /\ LastListens(more)[r].id = more[r].id
            /\ LastListens(more)[r].label = more[r].label
            /\ LastListens(more)[r].listeners =
                  IF r = Len(more) THEN more[r].listeners + 1 ELSE more[r].listeners
  BY <1>2, LastListensIs
<1>10. Becomes(res) /\ numNewDiv' = m
  BY DEF AddGame, res, st, c, row
<1>11. /\ res \in StateSet(m)
       /\ rows' = IF user = Nobody THEN more ELSE LastListens(more)
       /\ callbacks' = Append(callbacks, c)
       /\ loads' = loads
       /\ gamesClassList' = Append(gamesClassList, now)
       /\ games' = IF user = Nobody THEN games ELSE [games EXCEPT ![user] = @ \cup {now}]
  BY <1>1, <1>7, <1>8, <1>10 DEF Becomes
<1>12. IdsGrow(rows')
  BY <1>3, <1>9, <1>11 DEF IdsGrow
<1>13. StateType(res, m)
  BY <1>10, <1>11, <1>12 DEF StateType, Becomes
<1>14. PageTyped'
  <2>1. m \in Nat
    BY <1>0
  <2>2. /\ patient' \in BOOLEAN /\ open' \in BOOLEAN /\ opening' \in BOOLEAN
        /\ user' \in Users \cup {Nobody} /\ signIns' \in 0 .. MaxSignIns
        /\ now' \in Seconds /\ lastSelectedGame' \in [Users -> Keys \cup {NoGame}]
    BY DEF PageTyped, TypeOK, AddGame, Click
  <2> HIDE DEF m
  <2> QED
    BY <1>10, <1>13, <2>1, <2>2, BecomesTyped
<1>15. \A r \in DOMAIN more : rows'[r].label = more[r].label
  BY <1>9, <1>11
<1>16. DOMAIN rows' = DOMAIN more /\ Len(rows') = Len(more)
  BY <1>9, <1>11
<1>17. ASSUME NEW r \in 1 .. Len(rows) PROVE rows'[r] = rows[r]
  <2>1. r \in DOMAIN more /\ r # Len(more) /\ more[r] = rows[r]
    BY <1>0, <1>2
  <2>2. CASE user = Nobody
    BY <1>11, <2>1, <2>2
  <2>3. CASE user # Nobody
    <3>1. rows' = LastListens(more) /\ more # <<>>
      BY <1>2, <1>11, <2>1, <2>3, EmptySeq
    <3>2. rows' = [more EXCEPT ![Len(more)] = Listen(more[Len(more)])]
      BY <3>1 DEF LastListens
    <3> QED
      BY <2>1, <3>2
  <2> QED
    BY <2>2, <2>3
<1>18. /\ user = Nobody => rows'[Len(rows) + 1].listeners = 0
       /\ user # Nobody => rows'[Len(rows) + 1].listeners = 1
  <2>1. row.listeners = 0
    BY DEF Row
  <2>2. Len(rows) + 1 \in DOMAIN more /\ Len(more) = Len(rows) + 1
    BY <1>0, <1>2
  <2> HIDE DEF row
  <2> QED
    BY <1>2, <1>9, <1>11, <2>1, <2>2
<1>19. Labels' = Append(Labels, now)
  <2>1. /\ Labels \in Seq(Keys) /\ Len(Labels) = Len(rows)
        /\ \A r \in 1 .. Len(rows) : Labels[r] = rows[r].label
    BY LabelsType
  <2>2. /\ Append(Labels, now) \in Seq(Keys) /\ Len(Append(Labels, now)) = Len(rows) + 1
        /\ DOMAIN Append(Labels, now) = 1 .. Len(rows) + 1
        /\ \A r \in 1 .. Len(rows) : Append(Labels, now)[r] = Labels[r]
        /\ Append(Labels, now)[Len(rows) + 1] = now
    BY <1>0, <2>1, AppendProperties
  <2>3. Labels' = [r \in 1 .. Len(rows) + 1 |-> rows'[r].label]
    BY <1>2, <1>16 DEF Labels
  <2>4. row.label = now
    BY DEF Row
  <2>5. ASSUME NEW r \in 1 .. Len(rows) + 1
        PROVE  rows'[r].label = Append(Labels, now)[r]
    <3>1. CASE r = Len(rows) + 1
      BY <1>2, <1>15, <2>2, <2>4, <3>1
    <3>2. CASE r # Len(rows) + 1
      <4>1. r \in 1 .. Len(rows)
        BY <1>0, <3>2
      <4> QED
        BY <1>17, <2>1, <2>2, <4>1
    <3> QED
      BY <3>1, <3>2
  <2>6. Append(Labels, now) = [r \in 1 .. Len(rows) + 1 |-> Append(Labels, now)[r]]
    BY <2>2, SeqAsFunction
  <2> QED
    BY <2>3, <2>5, <2>6
<1>20. Len(rows') = Len(rows) + 1
  BY <1>2, <1>16
<1> QED
  BY <1>11, <1>14, <1>17, <1>18, <1>19, <1>20 DEF c

(* A click on a trash can: the row goes, and with it the game at its place. *)
LEMMA DeleteGameIs ==
  ASSUME PageTyped, NEW r, DeleteGame(r)
  PROVE  /\ PageTyped'
         /\ r \in DOMAIN rows
         /\ loads' = loads
         /\ rows' = RemoveAt(rows, r)
         /\ Labels' = RemoveAt(Labels, r)
         /\ \A n \in 1 .. Len(rows') : rows'[n].id # rows[r].id
         /\ r \notin DOMAIN gamesClassList =>
               /\ callbacks' = callbacks
               /\ gamesClassList' = gamesClassList
               /\ games' = games
         /\ r \in DOMAIN gamesClassList =>
               /\ callbacks' = Append(callbacks, RemoveValue(gamesClassList[r], r))
               /\ IF user = Nobody \/ gamesClassList[r] = Stray
                  THEN gamesClassList' = gamesClassList /\ games' = games
                  ELSE /\ gamesClassList' = RemoveAt(gamesClassList, r)
                       /\ games' = [games EXCEPT ![user] = @ \ {gamesClassList[r]}]
<1> DEFINE g == RemoveGame(Now, rows[r].id)
<1>1. /\ StateType(Now, numNewDiv)
      /\ Now.callbacks = callbacks
      /\ Now.loads = loads
      /\ Now.rows = rows
      /\ Now.list = gamesClassList
      /\ Now.games = games
  BY NowIs
<1>2. /\ r \in DOMAIN rows /\ rows[r].listeners > 0
      /\ Becomes(RemoveGameTimes(Now, rows[r].id, rows[r].listeners))
  BY DEF DeleteGame
<1>3. /\ user \in Users \cup {Nobody} /\ numNewDiv \in Nat
      /\ rows[r].listeners \in Nat
  <2>1. rows[r] \in RowSet(numNewDiv)
    BY <1>2, LabelsType
  <2> QED
    BY <2>1 DEF PageTyped, TypeOK, RowSet
<1>4. Becomes(g)
  BY <1>1, <1>2, <1>3, RemoveOnce
<1>5. /\ StateType(g, numNewDiv)
      /\ g.rows = RemoveAt(rows, r)
      /\ g.loads = loads
      /\ r \notin DOMAIN gamesClassList => /\ g.callbacks = callbacks
                                           /\ g.list = gamesClassList
                                           /\ g.games = games
      /\ r \in DOMAIN gamesClassList =>
            /\ g.callbacks = Append(callbacks, RemoveValue(gamesClassList[r], r))
            /\ IF user = Nobody \/ gamesClassList[r] = Stray
               THEN g.list = gamesClassList /\ g.games = games
               ELSE /\ g.list = RemoveAt(gamesClassList, r)
                    /\ g.games = [games EXCEPT ![user] = @ \ {gamesClassList[r]}]
  <2>1. r \in DOMAIN Now.rows
    BY <1>1, <1>2
  <2>2. StateType(g, numNewDiv) /\ RowRemoved(Now, r, g)
    <3>1. /\ StateType(RemoveGame(Now, Now.rows[r].id), numNewDiv)
          /\ RowRemoved(Now, r, RemoveGame(Now, Now.rows[r].id))
      BY <1>1, <1>3, <2>1, RemoveGameIs
    <3> QED
      BY <1>1, <3>1
  <2> HIDE DEF g
  <2> QED
    BY <1>1, <2>2 DEF RowRemoved
<1> HIDE DEF g
<1>6. PageTyped'
  <2>1. numNewDiv' = numNewDiv
    BY DEF DeleteGame
  <2>2. /\ patient' \in BOOLEAN /\ open' \in BOOLEAN /\ opening' \in BOOLEAN
        /\ user' \in Users \cup {Nobody} /\ signIns' \in 0 .. MaxSignIns
        /\ now' \in Seconds /\ lastSelectedGame' \in [Users -> Keys \cup {NoGame}]
    BY DEF PageTyped, TypeOK, DeleteGame, Click
  <2> QED
    BY <1>3, <1>4, <1>5, <2>1, <2>2, BecomesTyped
<1>7. rows' = RemoveAt(rows, r)
  BY <1>4, <1>5 DEF Becomes
<1>8. Labels' = RemoveAt(Labels, r)
  <2>0. /\ Len(rows) \in Nat /\ DOMAIN rows = 1 .. Len(rows) /\ rows \in Seq(RowSet(numNewDiv))
        /\ Labels \in Seq(Keys) /\ Len(Labels) = Len(rows) /\ DOMAIN Labels = 1 .. Len(rows)
        /\ \A n \in 1 .. Len(rows) : Labels[n] = rows[n].label
    BY LabelsType
  <2> DEFINE At(n) == IF n < r THEN n ELSE n + 1
  <2>1. /\ DOMAIN rows' = 1 .. Len(rows) - 1
        /\ \A n \in 1 .. Len(rows) - 1 : rows'[n] = rows[At(n)]
    BY <1>2, <1>7, <2>0, RemoveAtIs
  <2>2. /\ RemoveAt(Labels, r) \in Seq(Keys) /\ Len(RemoveAt(Labels, r)) = Len(rows) - 1
        /\ \A n \in 1 .. Len(rows) - 1 : RemoveAt(Labels, r)[n] = Labels[At(n)]
    <3>1. r \in DOMAIN Labels
      BY <1>2, <2>0
    <3> QED
      BY <2>0, <3>1, RemoveAtIs
  <2>3. \A n \in 1 .. Len(rows) - 1 : At(n) \in 1 .. Len(rows)
    BY <1>2, <2>0
  <2> HIDE DEF At
  <2>4. Labels' = [n \in 1 .. Len(rows) - 1 |-> rows'[n].label]
    BY <2>1 DEF Labels
  <2>5. \A n \in 1 .. Len(rows) - 1 : rows'[n].label = RemoveAt(Labels, r)[n]
    BY <2>0, <2>1, <2>2, <2>3
  <2>6. RemoveAt(Labels, r) = [n \in 1 .. Len(rows) - 1 |-> RemoveAt(Labels, r)[n]]
    BY <2>2, SeqAsFunction
  <2> QED
    BY <2>4, <2>5, <2>6
<1>9. \A n \in 1 .. Len(rows') : rows'[n].id # rows[r].id
  <2>1. rows \in Seq(RowSet(numNewDiv)) /\ IdsGrow(rows)
    BY <1>1, LabelsType DEF StateType
  <2> QED
    BY <1>2, <1>7, <2>1, IdsStayApart
<1> QED
  BY <1>2, <1>4, <1>5, <1>6, <1>7, <1>8, <1>9 DEF Becomes

(* A user becomes known: the rows stay, and a request is made. *)
LEMMA SignInIs ==
  ASSUME PageTyped, NEW u \in Users, SignIn(u)
  PROVE  /\ PageTyped'
         /\ callbacks' = Append(callbacks, Load)
         /\ Labels' = Labels
         /\ Len(rows') = Len(rows)
         /\ loads'[u] > loads[u]
         /\ \A v \in Users \ {u} : loads'[v] = loads[v]
         /\ (\A n \in DOMAIN callbacks : callbacks[n].does # "remove")
               => gamesClassList' = gamesClassList
         /\ (\A n \in DOMAIN callbacks : callbacks[n].does = "set")
               => loads'[u] = loads[u] + 1
<1> DEFINE cs == Append(callbacks, Load)
           st == [Now EXCEPT !.callbacks = cs]
           res == RunAll(st, cs, u)
<1>1. /\ StateType(Now, numNewDiv)
      /\ Now.rows = rows /\ Now.list = gamesClassList /\ Now.loads = loads
  BY NowIs
<1>2. cs \in Seq(CallbackSet)
  <2>1. Load \in CallbackSet
    BY DEF Load, CallbackSet
  <2> QED
    BY <2>1, AppendProperties DEF PageTyped
<1>3. /\ st.callbacks = cs /\ st.rows = rows /\ st.list = gamesClassList
      /\ st.loads = loads
  BY DEF Now
<1>4. StateType(st, numNewDiv)
  <2>1. st \in StateSet(numNewDiv)
    <3> HIDE DEF cs
    <3> QED
      BY <1>1, <1>2 DEF StateType, StateSet
  <2> QED
    BY <1>1, <1>3, <2>1 DEF StateType
<1> HIDE DEF st
<1>5. /\ StateType(res, numNewDiv)
      /\ Keeps(st, res, u)
      /\ res.loads[u] > st.loads[u]
      /\ (\A n \in DOMAIN callbacks : callbacks[n].does # "remove") => res.list = st.list
      /\ (\A n \in DOMAIN callbacks : callbacks[n].does = "set")
            => res.loads[u] = st.loads[u] + 1
  BY <1>4, RunAllKeeps DEF PageTyped
<1> HIDE DEF res
<1>6. Becomes(res) /\ user' = u /\ numNewDiv' = numNewDiv
  BY DEF SignIn, res, st
<1>7. PageTyped'
  <2>1. numNewDiv \in Nat /\ signIns' \in 0 .. MaxSignIns
    BY GameSelectorAssumption DEF PageTyped, TypeOK, SignIn
  <2>2. /\ patient' \in BOOLEAN /\ open' \in BOOLEAN /\ opening' \in BOOLEAN
        /\ user' \in Users \cup {Nobody}
        /\ now' \in Seconds /\ lastSelectedGame' \in [Users -> Keys \cup {NoGame}]
    BY DEF PageTyped, TypeOK, SignIn
  <2> QED
    BY <1>5, <1>6, <2>1, <2>2, BecomesTyped
<1>8. /\ Len(rows') = Len(rows)
      /\ \A n \in 1 .. Len(rows) : rows'[n].label = rows[n].label
  BY <1>3, <1>5, <1>6 DEF Keeps, Becomes
<1>9. DOMAIN rows' = 1 .. Len(rows) /\ DOMAIN rows = 1 .. Len(rows)
  <2>1. rows' \in Seq(RowSet(numNewDiv))
    BY <1>5, <1>6, FieldTypes DEF StateType, Becomes
  <2> QED
    BY <1>8, <2>1, LabelsType
<1>10. Labels' = Labels
  BY <1>8, <1>9 DEF Labels
<1> QED
  BY <1>3, <1>5, <1>6, <1>7, <1>8, <1>10 DEF Keeps, Becomes

(* One list after another. *)
LEMMA ConcatIs ==
  ASSUME NEW E, NEW s \in Seq(E), NEW t \in Seq(E)
  PROVE  /\ s \o t \in Seq(E)
         /\ Len(s \o t) = Len(s) + Len(t)
         /\ DOMAIN (s \o t) = 1 .. Len(s) + Len(t)
         /\ \A n \in 1 .. Len(s) : (s \o t)[n] = s[n]
         /\ \A n \in 1 .. Len(t) : (s \o t)[Len(s) + n] = t[n]
<1>1. s \o t \in Seq(E) /\ Len(s \o t) = Len(s) + Len(t)
  BY ConcatProperties
<1>2. \A i \in 1 .. Len(s) + Len(t) :
        (s \o t)[i] = IF i <= Len(s) THEN s[i] ELSE t[i - Len(s)]
  BY ConcatProperties
<1>3. Len(s) \in Nat /\ Len(t) \in Nat
  OBVIOUS
<1>4. ASSUME NEW n \in 1 .. Len(s)
      PROVE  (s \o t)[n] = s[n]
  <2>1. n \in 1 .. Len(s) + Len(t) /\ n <= Len(s)
    BY <1>3
  <2> QED
    BY <1>2, <2>1
<1>5. ASSUME NEW n \in 1 .. Len(t)
      PROVE  (s \o t)[Len(s) + n] = t[n]
  <2>1. /\ Len(s) + n \in 1 .. Len(s) + Len(t)
        /\ ~ (Len(s) + n <= Len(s))
        /\ (Len(s) + n) - Len(s) = n
    BY <1>3
  <2> QED
    BY <1>2, <2>1
<1> QED
  BY <1>1, <1>4, <1>5

(* The games as a list. *)
LEMMA GamesInOrder ==
  ASSUME NEW S \in SUBSET Keys
  PROVE  /\ InKeyOrder(S) \in Seq(Keys)
         /\ Range(InKeyOrder(S)) = S
         /\ IsInjective(InKeyOrder(S))
<1>1. IsFiniteSet(S) /\ S \subseteq Nat /\ Cardinality(S) \in Nat
  <2>1. MaxSeconds \in Nat
    BY GameSelectorAssumption
  <2>2. Keys \subseteq 0 .. MaxSeconds + 1
    BY <2>1 DEF Keys, Seconds, Stray
  <2>3. S \in SUBSET (0 .. MaxSeconds + 1) /\ IsFiniteSet(0 .. MaxSeconds + 1)
    BY <2>1, <2>2, FS_Interval
  <2>4. IsFiniteSet(S)
    BY <2>3, FS_Subset
  <2> QED
    BY <2>1, <2>3, <2>4, FS_CardinalityType
<1> DEFINE s == InKeyOrder(S)
<1>2. InOrder(s, S)
  BY <1>1, InKeyOrderIs
<1> HIDE DEF s
<1>3. s \in [1 .. Cardinality(S) -> S] /\ DOMAIN s = 1 .. Cardinality(S)
  BY <1>2 DEF InOrder
<1>4. s \in Seq(Keys)
  <2> DEFINE c == Cardinality(S)
  <2>1. c \in Nat /\ s \in [1 .. c -> Keys]
    BY <1>1, <1>3
  <2> HIDE DEF c
  <2> QED
    BY <2>1
<1>5. Range(s) = S
  BY <1>2, <1>3 DEF InOrder, Range
<1>6. IsInjective(s)
  <2> SUFFICES ASSUME NEW a \in DOMAIN s, NEW b \in DOMAIN s, a # b PROVE s[a] # s[b]
    BY DEF IsInjective
  <2>1. a \in Int /\ b \in Int /\ s[a] \in Int /\ s[b] \in Int
    <3>1. \A n \in DOMAIN s : s[n] \in S
      BY <1>3
    <3>2. s[a] \in Nat /\ s[b] \in Nat
      BY <1>1, <3>1
    <3>3. a \in Int /\ b \in Int
      BY <1>1, <1>3
    <3> QED
      BY <3>2, <3>3
  <2>2. a < b \/ b < a
    BY <2>1
  <2>3. s[a] < s[b] \/ s[b] < s[a]
    BY <1>2, <2>2 DEF InOrder
  <2> QED
    BY <2>1, <2>3
<1> QED
  BY <1>4, <1>5, <1>6 DEF s

(* The games arrive. *)
LEMMA GamesArriveIs ==
  ASSUME PageTyped, NEW u \in Users, GamesArrive(u)
  PROVE  /\ PageTyped'
         /\ Labels' = Labels \o InKeyOrder(games[u])
         /\ gamesClassList' = gamesClassList \o InKeyOrder(games[u])
         /\ Len(rows') = Len(rows) + Len(InKeyOrder(games[u]))
         /\ \A r \in DOMAIN rows' : rows'[r].listeners > 0
<1> DEFINE new == InKeyOrder(games[u])
           k == Len(new)
           m == numNewDiv + k
           fresh == [n \in DOMAIN new |-> Row(numNewDiv + n - 1, new[n])]
           all == rows \o fresh
<1>0. /\ numNewDiv \in Nat /\ games[u] \in SUBSET Keys
      /\ loads \in [Users -> Nat]
      /\ rows \in Seq(RowSet(numNewDiv)) /\ gamesClassList \in Seq(Keys)
      /\ callbacks \in Seq(CallbackSet)
      /\ Len(rows) \in Nat /\ DOMAIN rows = 1 .. Len(rows)
      /\ Labels \in Seq(Keys) /\ Len(Labels) = Len(rows)
      /\ \A r \in 1 .. Len(rows) : Labels[r] = rows[r].label
  BY LabelsType DEF PageTyped, TypeOK
<1>1. new \in Seq(Keys)
  BY <1>0, GamesInOrder
<1>2. /\ rows' = [r \in DOMAIN all |-> Listen(all[r])]
      /\ gamesClassList' = gamesClassList \o new
      /\ numNewDiv' = m
  BY DEF GamesArrive
<1> HIDE DEF new
<1>3. k \in Nat /\ DOMAIN new = 1 .. k /\ \A n \in 1 .. k : new[n] \in Keys
  BY <1>1
<1> HIDE DEF k
<1>4. m \in Nat
  BY <1>0, <1>3
<1>5. \A n \in 1 .. k : /\ fresh[n] \in RowSet(m)
                        /\ fresh[n].id = numNewDiv + n - 1
                        /\ fresh[n].label = new[n]
  <2> SUFFICES ASSUME NEW n \in 1 .. k
               PROVE  /\ fresh[n] \in RowSet(m)
                      /\ fresh[n].id = numNewDiv + n - 1
                      /\ fresh[n].label = new[n]
    OBVIOUS
  <2>1. fresh[n] = Row(numNewDiv + n - 1, new[n])
    BY <1>3
  <2>2. numNewDiv + n - 1 \in 0 .. m - 1 /\ new[n] \in Keys
    BY <1>0, <1>3
  <2> HIDE DEF fresh, m
  <2> QED
    BY <2>1, <2>2 DEF Row, RowSet
<1>6. fresh \in Seq(RowSet(m)) /\ Len(fresh) = k
  <2>1. fresh \in [1 .. k -> RowSet(m)]
    BY <1>3, <1>5
  <2> HIDE DEF fresh, m
  <2> QED
    BY <1>3, <2>1
<1>7. rows \in Seq(RowSet(m))
  <2>1. RowSet(numNewDiv) \subseteq RowSet(m)
    BY <1>0, <1>3 DEF RowSet
  <2> HIDE DEF m
  <2> QED
    BY <1>0, <2>1, SeqMonotonic
<1> HIDE DEF fresh, m
<1>8. /\ all \in Seq(RowSet(m)) /\ Len(all) = Len(rows) + k
      /\ DOMAIN all = 1 .. Len(rows) + k
      /\ \A r \in 1 .. Len(rows) : all[r] = rows[r]
      /\ \A n \in 1 .. k : all[Len(rows) + n] = fresh[n]
  <2>1. /\ all \in Seq(RowSet(m)) /\ Len(all) = Len(rows) + Len(fresh)
        /\ DOMAIN all = 1 .. Len(rows) + Len(fresh)
        /\ \A r \in 1 .. Len(rows) : all[r] = rows[r]
        /\ \A n \in 1 .. Len(fresh) : all[Len(rows) + n] = fresh[n]
    <3>1. fresh \in Seq(RowSet(m))
      BY <1>6
    <3> QED
      BY <1>7, <3>1, ConcatIs
  <2>2. Len(fresh) = k
    BY <1>6
  <2> HIDE DEF all
  <2> QED
    BY <2>1, <2>2
<1> HIDE DEF all
<1>9. \A r \in 1 .. Len(rows) + k :
        /\ all[r] \in RowSet(m)
        /\ rows'[r] = Listen(all[r])
        /\ rows'[r] \in RowSet(m)
        /\ rows'[r].id = all[r].id
        /\ rows'[r].label = all[r].label
        /\ rows'[r].listeners = all[r].listeners + 1
  <2> SUFFICES ASSUME NEW r \in 1 .. Len(rows) + k
               PROVE  /\ all[r] \in RowSet(m)
                      /\ rows'[r] = Listen(all[r])
                      /\ rows'[r] \in RowSet(m)
                      /\ rows'[r].id = all[r].id
                      /\ rows'[r].label = all[r].label
                      /\ rows'[r].listeners = all[r].listeners + 1
    OBVIOUS
  <2>1. all[r] \in RowSet(m)
    BY <1>8
  <2>2. rows'[r] = Listen(all[r])
    BY <1>2, <1>8
  <2> QED
    BY <2>1, <2>2, ListenIs
<1>10. rows' \in Seq(RowSet(m)) /\ Len(rows') = Len(rows) + k /\ DOMAIN rows' = 1 .. Len(rows) + k
  <2>1. rows' \in [1 .. Len(rows) + k -> RowSet(m)]
    BY <1>2, <1>8, <1>9
  <2>2. Len(rows) + k \in Nat
    BY <1>0, <1>3
  <2> QED
    BY <2>1, <2>2
<1>11. \A r \in DOMAIN rows' : rows'[r].listeners > 0
  <2> SUFFICES ASSUME NEW r \in 1 .. Len(rows) + k PROVE rows'[r].listeners > 0
    BY <1>10
  <2>1. all[r].listeners \in Nat
    BY <1>9 DEF RowSet
  <2> QED
    BY <1>9, <2>1
<1>12. ASSUME NEW r \in 1 .. Len(rows) + k, NEW s \in 1 .. Len(rows) + k, r < s
       PROVE  rows'[r].id < rows'[s].id
  <2>1. all[r].id < all[s].id
    <3>0. \A n \in 1 .. Len(rows) : rows[n].id \in 0 .. numNewDiv - 1
      <4>1. \A n \in 1 .. Len(rows) : rows[n] \in RowSet(numNewDiv)
        BY <1>0
      <4> QED
        BY <4>1 DEF RowSet
    <3>1. CASE s \in 1 .. Len(rows)
      <4>1. r \in 1 .. Len(rows)
        BY <1>0, <1>3, <1>12, <3>1
      <4>2. IdsGrow(rows)
        BY NowIs DEF StateType
      <4>3. rows[r].id < rows[s].id
        BY <1>0, <1>12, <3>1, <4>1, <4>2 DEF IdsGrow
      <4> QED
        BY <1>8, <3>1, <4>1, <4>3
    <3>2. CASE s \notin 1 .. Len(rows)
      <4>1. s - Len(rows) \in 1 .. k /\ Len(rows) + (s - Len(rows)) = s
        BY <1>0, <1>3, <3>2
      <4>2. all[s].id = numNewDiv + (s - Len(rows)) - 1
        BY <1>5, <1>8, <4>1
      <4>3. CASE r \in 1 .. Len(rows)
        <5>1. all[r].id \in 0 .. numNewDiv - 1
          BY <1>8, <3>0, <4>3
        <5>2. all[s].id \in Int /\ all[s].id >= numNewDiv
          BY <1>0, <1>3, <4>1, <4>2
        <5> QED
          BY <1>0, <5>1, <5>2
      <4>4. CASE r \notin 1 .. Len(rows)
        <5>1. r - Len(rows) \in 1 .. k /\ Len(rows) + (r - Len(rows)) = r
          BY <1>0, <1>3, <4>4
        <5>2. all[r].id = numNewDiv + (r - Len(rows)) - 1
          BY <1>5, <1>8, <5>1
        <5> QED
          BY <1>0, <1>3, <1>12, <4>2, <5>2
      <4> QED
        BY <4>3, <4>4
    <3> QED
      BY <3>1, <3>2
  <2> QED
    BY <1>9, <2>1
<1>13. gamesClassList' \in Seq(Keys)
  BY <1>0, <1>1, <1>2, ConcatProperties
<1>14. PageTyped'
  <2>1. loads' \in [Users -> Nat]
    <3>1. loads[u] \in Nat /\ loads[u] > 0 /\ loads' = [loads EXCEPT ![u] = @ - 1]
      BY <1>0 DEF GamesArrive
    <3>2. loads[u] - 1 \in Nat
      BY <3>1
    <3> QED
      BY <1>0, <3>1, <3>2
  <2>2. \A r, s \in DOMAIN rows' : r < s => rows'[r].id < rows'[s].id
    BY <1>10, <1>12
  <2>3. /\ patient' \in BOOLEAN /\ open' \in BOOLEAN /\ opening' \in BOOLEAN
        /\ user' \in Users \cup {Nobody} /\ signIns' \in 0 .. MaxSignIns
        /\ now' \in Seconds /\ games' \in [Users -> SUBSET Keys]
        /\ lastSelectedGame' \in [Users -> Keys \cup {NoGame}]
        /\ callbacks' \in Seq(CallbackSet)
    BY DEF PageTyped, TypeOK, GamesArrive, database
  <2> QED
    BY <1>2, <1>4, <1>10, <1>13, <2>1, <2>2, <2>3 DEF PageTyped, TypeOK, RowSet
<1>15. Labels' = Labels \o new
  <2>1. /\ Labels \o new \in Seq(Keys) /\ Len(Labels \o new) = Len(rows) + k
        /\ \A r \in 1 .. Len(rows) : (Labels \o new)[r] = Labels[r]
        /\ \A n \in 1 .. k : (Labels \o new)[Len(rows) + n] = new[n]
    <3>1. Labels \in Seq(Keys)
      BY <1>0
    <3>2. /\ Labels \o new \in Seq(Keys)
          /\ Len(Labels \o new) = Len(Labels) + Len(new)
          /\ \A r \in 1 .. Len(Labels) : (Labels \o new)[r] = Labels[r]
          /\ \A n \in 1 .. Len(new) : (Labels \o new)[Len(Labels) + n] = new[n]
      BY <1>1, <3>1, ConcatIs
    <3>3. Len(Labels) = Len(rows) /\ Len(new) = k
      BY <1>0 DEF k
    <3> QED
      BY <3>2, <3>3
  <2>2. Labels' = [r \in 1 .. Len(rows) + k |-> rows'[r].label]
    BY <1>10 DEF Labels
  <2>3. ASSUME NEW r \in 1 .. Len(rows) + k
        PROVE  rows'[r].label = (Labels \o new)[r]
    <3>1. CASE r \in 1 .. Len(rows)
      <4>1. rows'[r].label = all[r].label
        BY <1>9
      <4>2. all[r] = rows[r]
        BY <1>8, <3>1
      <4>3. (Labels \o new)[r] = Labels[r]
        BY <2>1, <3>1
      <4>4. Labels[r] = rows[r].label
        BY <1>0, <3>1
      <4> QED
        BY <4>1, <4>2, <4>3, <4>4
    <3>2. CASE r \notin 1 .. Len(rows)
      <4>1. r - Len(rows) \in 1 .. k /\ Len(rows) + (r - Len(rows)) = r
        BY <1>0, <1>3, <3>2
      <4>2. all[r] = fresh[r - Len(rows)]
        BY <1>8, <4>1
      <4>3. (Labels \o new)[r] = new[r - Len(rows)]
        BY <2>1, <4>1
      <4> QED
        BY <1>5, <1>9, <4>1, <4>2, <4>3
    <3> QED
      BY <3>1, <3>2
  <2>4. Labels \o new = [r \in 1 .. Len(rows) + k |-> (Labels \o new)[r]]
    BY <2>1, SeqAsFunction
  <2> QED
    BY <2>2, <2>3, <2>4
<1> QED
  BY <1>2, <1>10, <1>11, <1>14, <1>15 DEF new, k

----------------------------------------------------------------------------
(* The labels on the page, as lists. *)

AtMostOnce(s, x) == \A m, n \in DOMAIN s : s[m] = x /\ s[n] = x => m = n

LEMMA AppendIs ==
  ASSUME NEW E, NEW s \in Seq(E), NEW e \in E
  PROVE  /\ Append(s, e) \in Seq(E)
         /\ Len(Append(s, e)) = Len(s) + 1
         /\ Len(s) \in Nat
         /\ DOMAIN s = 1 .. Len(s)
         /\ DOMAIN Append(s, e) = 1 .. Len(s) + 1
         /\ Len(s) + 1 \in DOMAIN Append(s, e)
         /\ \A n \in DOMAIN s : n \in DOMAIN Append(s, e) /\ Append(s, e)[n] = s[n]
         /\ Append(s, e)[Len(s) + 1] = e
         /\ \A n \in DOMAIN Append(s, e) : n \in DOMAIN s \/ n = Len(s) + 1
<1>1. Len(s) \in Nat /\ DOMAIN s = 1 .. Len(s)
  OBVIOUS
<1>2. Append(s, e) \in Seq(E) /\ Len(Append(s, e)) = Len(s) + 1
  BY AppendProperties
<1>3. DOMAIN Append(s, e) = 1 .. Len(s) + 1
  BY <1>2
<1>4. \A n \in 1 .. Len(s) : Append(s, e)[n] = s[n]
  BY AppendProperties
<1>5. Append(s, e)[Len(s) + 1] = e
  BY AppendProperties
<1>6. /\ Len(s) + 1 \in 1 .. Len(s) + 1
      /\ \A n \in 1 .. Len(s) : n \in 1 .. Len(s) + 1
      /\ \A n \in 1 .. Len(s) + 1 : n \in 1 .. Len(s) \/ n = Len(s) + 1
  BY <1>1
<1> QED
  BY <1>1, <1>2, <1>3, <1>4, <1>5, <1>6

LEMMA AppendRange ==
  ASSUME NEW E, NEW s \in Seq(E), NEW e \in E
  PROVE  /\ Range(Append(s, e)) = Range(s) \cup {e}
         /\ IsInjective(s) /\ e \notin Range(s) => IsInjective(Append(s, e))
         /\ \A x : AtMostOnce(s, x) /\ e # x => AtMostOnce(Append(s, e), x)
<1> DEFINE t == Append(s, e)
<1>1. /\ Len(s) + 1 \in DOMAIN t /\ t[Len(s) + 1] = e
      /\ \A n \in DOMAIN s : n \in DOMAIN t /\ t[n] = s[n]
      /\ \A n \in DOMAIN t : n \in DOMAIN s \/ n = Len(s) + 1
  BY AppendIs
<1> HIDE DEF t
<1>2. Range(t) = Range(s) \cup {e}
  BY <1>1 DEF Range
<1>3. ASSUME IsInjective(s), e \notin Range(s)
      PROVE  IsInjective(t)
  BY <1>1, <1>3 DEF IsInjective, Range
<1>4. ASSUME NEW x, AtMostOnce(s, x), e # x
      PROVE  AtMostOnce(t, x)
  BY <1>1, <1>4 DEF AtMostOnce
<1> QED
  BY <1>2, <1>3, <1>4 DEF t

LEMMA ConcatRange ==
  ASSUME NEW E, NEW s \in Seq(E), NEW t \in Seq(E)
  PROVE  /\ Range(s \o t) = Range(s) \cup Range(t)
         /\ \A x : x \notin Range(s) /\ IsInjective(t) => AtMostOnce(s \o t, x)
<1> DEFINE a == Len(s)
           b == Len(t)
           c == s \o t
<1>1. /\ a \in Nat /\ b \in Nat
      /\ DOMAIN s = 1 .. a /\ DOMAIN t = 1 .. b
  OBVIOUS
<1>2. /\ DOMAIN c = 1 .. a + b
      /\ \A n \in 1 .. a : c[n] = s[n]
      /\ \A n \in 1 .. b : c[a + n] = t[n]
  BY ConcatIs
<1> HIDE DEF a, b, c
<1>3. /\ \A n \in 1 .. a : n \in 1 .. a + b
      /\ \A n \in 1 .. b : a + n \in 1 .. a + b
  BY <1>1
<1>4. ASSUME NEW n \in 1 .. a + b, n \notin 1 .. a
      PROVE  n - a \in 1 .. b /\ a + (n - a) = n
  BY <1>1, <1>4
<1>5. Range(c) = Range(s) \cup Range(t)
  <2>1. \A n \in 1 .. a : s[n] \in Range(c)
    BY <1>2, <1>3 DEF Range
  <2>2. \A n \in 1 .. b : t[n] \in Range(c)
    <3> SUFFICES ASSUME NEW n \in 1 .. b PROVE t[n] \in Range(c)
      OBVIOUS
    <3>1. a + n \in DOMAIN c /\ c[a + n] = t[n]
      BY <1>2, <1>3
    <3> QED
      BY <3>1 DEF Range
  <2>3. \A n \in 1 .. a + b : c[n] \in Range(s) \cup Range(t)
    <3> SUFFICES ASSUME NEW n \in 1 .. a + b PROVE c[n] \in Range(s) \cup Range(t)
      OBVIOUS
    <3>1. CASE n \in 1 .. a
      BY <1>1, <1>2, <3>1 DEF Range
    <3>2. CASE n \notin 1 .. a
      <4>1. n - a \in DOMAIN t /\ c[n] = t[n - a]
        BY <1>1, <1>2, <1>4, <3>2
      <4> QED
        BY <4>1 DEF Range
    <3> QED
      BY <3>1, <3>2
  <2>4. Range(s) \subseteq Range(c)
    BY <1>1, <2>1 DEF Range
  <2>5. Range(t) \subseteq Range(c)
    BY <1>1, <2>2 DEF Range
  <2>6. Range(c) \subseteq Range(s) \cup Range(t)
    <3> DEFINE both == Range(s) \cup Range(t)
    <3>1. \A n \in DOMAIN c : c[n] \in both
      BY <1>2, <2>3
    <3> HIDE DEF both
    <3>2. Range(c) \subseteq both
      BY <3>1 DEF Range
    <3> QED
      BY <3>2 DEF both
  <2> QED
    BY <2>4, <2>5, <2>6
<1>6. ASSUME NEW x, x \notin Range(s), IsInjective(t)
      PROVE  AtMostOnce(c, x)
  <2>1. ASSUME NEW n \in 1 .. a + b, c[n] = x
        PROVE  n - a \in 1 .. b /\ t[n - a] = x /\ a + (n - a) = n
    <3>1. n \notin 1 .. a
      BY <1>1, <1>2, <1>6, <2>1 DEF Range
    <3> QED
      BY <1>2, <1>4, <2>1, <3>1
  <2> SUFFICES ASSUME NEW m \in 1 .. a + b, NEW n \in 1 .. a + b, c[m] = x, c[n] = x
               PROVE  m = n
    BY <1>2 DEF AtMostOnce
  <2>2. m - a = n - a
    BY <1>1, <1>6, <2>1 DEF IsInjective
  <2> QED
    BY <2>1, <2>2
<1> QED
  BY <1>5, <1>6 DEF c

LEMMA RemoveAtRange ==
  ASSUME NEW E, NEW s \in Seq(E), NEW r \in DOMAIN s
  PROVE  /\ Range(RemoveAt(s, r)) \subseteq Range(s)
         /\ Range(s) \ {s[r]} \subseteq Range(RemoveAt(s, r))
         /\ AtMostOnce(s, s[r]) => s[r] \notin Range(RemoveAt(s, r))
         /\ IsInjective(s) => IsInjective(RemoveAt(s, r))
         /\ \A x : AtMostOnce(s, x) => AtMostOnce(RemoveAt(s, r), x)
<1> DEFINE c == Len(s)
           t == RemoveAt(s, r)
           At(n) == IF n < r THEN n ELSE n + 1
<1>1. c \in Nat /\ DOMAIN s = 1 .. c /\ r \in 1 .. c
  OBVIOUS
<1>2. DOMAIN t = 1 .. c - 1 /\ \A n \in 1 .. c - 1 : t[n] = s[At(n)]
  BY RemoveAtIs
<1> HIDE DEF c, t
<1>3. ASSUME NEW n \in 1 .. c - 1
      PROVE  At(n) \in 1 .. c /\ At(n) # r
  BY <1>1
<1>4. ASSUME NEW m \in 1 .. c - 1, NEW n \in 1 .. c - 1, At(m) = At(n)
      PROVE  m = n
  BY <1>1, <1>4
<1>5. ASSUME NEW k \in 1 .. c, k # r
      PROVE  \E n \in 1 .. c - 1 : At(n) = k
  <2>1. CASE k < r
    <3>1. k \in 1 .. c - 1
      BY <1>1, <2>1
    <3> QED
      BY <2>1, <3>1
  <2>2. CASE ~ (k < r)
    <3>1. k - 1 \in 1 .. c - 1 /\ ~ (k - 1 < r) /\ (k - 1) + 1 = k
      BY <1>1, <1>5, <2>2
    <3> QED
      BY <3>1
  <2> QED
    BY <2>1, <2>2
<1> HIDE DEF At
<1>6. Range(t) \subseteq Range(s)
  BY <1>1, <1>2, <1>3 DEF Range
<1>7. Range(s) \ {s[r]} \subseteq Range(t)
  <2> SUFFICES ASSUME NEW k \in 1 .. c, s[k] # s[r] PROVE s[k] \in Range(t)
    BY <1>1 DEF Range
  <2>1. PICK n \in 1 .. c - 1 : At(n) = k
    BY <1>5
  <2>2. t[n] = s[k]
    BY <1>2, <2>1
  <2> QED
    BY <1>2, <2>2 DEF Range
<1>8. ASSUME AtMostOnce(s, s[r])
      PROVE  s[r] \notin Range(t)
  <2> SUFFICES ASSUME NEW n \in 1 .. c - 1, t[n] = s[r] PROVE FALSE
    BY <1>2 DEF Range
  <2>1. s[At(n)] = s[r] /\ At(n) \in 1 .. c /\ At(n) # r
    BY <1>2, <1>3
  <2> QED
    BY <1>1, <1>8, <2>1 DEF AtMostOnce
<1>9. ASSUME IsInjective(s)
      PROVE  IsInjective(t)
  <2> SUFFICES ASSUME NEW m \in 1 .. c - 1, NEW n \in 1 .. c - 1, t[m] = t[n] PROVE m = n
    BY <1>2 DEF IsInjective
  <2>1. s[At(m)] = s[At(n)]
    BY <1>2
  <2>2. At(m) = At(n)
    BY <1>1, <1>3, <1>9, <2>1 DEF IsInjective
  <2> QED
    BY <1>4, <2>2
<1>10. ASSUME NEW x, AtMostOnce(s, x)
       PROVE  AtMostOnce(t, x)
  <2> SUFFICES ASSUME NEW m \in 1 .. c - 1, NEW n \in 1 .. c - 1, t[m] = x, t[n] = x
               PROVE  m = n
    BY <1>2 DEF AtMostOnce
  <2>1. s[At(m)] = x /\ s[At(n)] = x
    BY <1>2
  <2>2. At(m) = At(n)
    BY <1>1, <1>3, <1>10, <2>1 DEF AtMostOnce
  <2> QED
    BY <1>4, <2>2
<1> QED
  BY <1>6, <1>7, <1>8, <1>9, <1>10 DEF t

----------------------------------------------------------------------------
(* Types. *)

(* Another page, or the page loaded again, knows nothing. *)
LEMMA GoneIs ==
  ASSUME PageTyped, Gone
  PROVE  PageTyped' /\ NoUserYet' /\ Len(rows') = Len(gamesClassList') /\ user' = Nobody
<1>1. /\ rows' = <<>> /\ gamesClassList' = <<>> /\ callbacks' = <<>>
      /\ loads' = [u \in Users |-> 0] /\ numNewDiv' = 0
      /\ opening' = FALSE /\ open' = FALSE /\ user' = Nobody
  BY DEF Gone
<1>2. /\ rows' \in Seq([id : 0 .. numNewDiv' - 1, label : Keys, listeners : Nat])
      /\ gamesClassList' \in Seq(Keys)
      /\ callbacks' \in Seq(CallbackSet)
  BY <1>1, EmptySeq
<1>3. DOMAIN rows' = {} /\ DOMAIN gamesClassList' = {} /\ DOMAIN callbacks' = {}
  BY <1>1, EmptySeq
<1>4. \A r, s \in DOMAIN rows' : r < s => rows'[r].id < rows'[s].id
  BY <1>3
<1>5. /\ patient' \in BOOLEAN /\ signIns' \in 0 .. MaxSignIns /\ now' \in Seconds
      /\ games' \in [Users -> SUBSET Keys]
      /\ lastSelectedGame' \in [Users -> Keys \cup {NoGame}]
  BY DEF Gone, PageTyped, TypeOK, database
<1>6. loads' \in [Users -> Nat] /\ numNewDiv' \in Nat
  BY <1>1
<1>7. PageTyped'
  BY <1>1, <1>2, <1>4, <1>5, <1>6 DEF PageTyped, TypeOK
<1>8. Labels' = gamesClassList'
  <2>1. Labels' = [r \in {} |-> rows'[r].label]
    BY <1>3 DEF Labels
  <2>2. gamesClassList' = [r \in 1 .. 0 |-> rows'[r].label] /\ 1 .. 0 = {}
    BY <1>1
  <2> QED
    BY <2>1, <2>2
<1>9. NoUserYet'
  BY <1>1, <1>3, <1>8 DEF NoUserYet, Range
<1> QED
  BY <1>1, <1>7, <1>9

LEMMA InitTypes ==
  ASSUME Init
  PROVE  PageTyped /\ NoUserYet /\ Len(rows) = Len(gamesClassList) /\ user = Nobody
<1>1. /\ rows = <<>> /\ gamesClassList = <<>> /\ callbacks = <<>>
      /\ loads = [u \in Users |-> 0] /\ numNewDiv = 0
      /\ opening = FALSE /\ open = TRUE /\ user = Nobody
  BY DEF Init
<1>2. /\ rows \in Seq([id : 0 .. numNewDiv - 1, label : Keys, listeners : Nat])
      /\ gamesClassList \in Seq(Keys)
      /\ callbacks \in Seq(CallbackSet)
  BY <1>1, EmptySeq
<1>3. DOMAIN rows = {} /\ DOMAIN gamesClassList = {} /\ DOMAIN callbacks = {}
  BY <1>1, EmptySeq
<1>4. \A r, s \in DOMAIN rows : r < s => rows[r].id < rows[s].id
  BY <1>3
<1>5. /\ patient \in BOOLEAN /\ signIns \in 0 .. MaxSignIns /\ now \in Seconds
      /\ games \in [Users -> SUBSET Keys]
      /\ lastSelectedGame \in [Users -> Keys \cup {NoGame}]
  BY GameSelectorAssumption DEF Init, Seconds
<1>6. loads \in [Users -> Nat] /\ numNewDiv \in Nat
  BY <1>1
<1>7. PageTyped
  BY <1>1, <1>2, <1>4, <1>5, <1>6 DEF PageTyped, TypeOK
<1>8. Labels = gamesClassList
  <2>1. Labels = [r \in {} |-> rows[r].label]
    BY <1>3 DEF Labels
  <2>2. gamesClassList = [r \in 1 .. 0 |-> rows[r].label] /\ 1 .. 0 = {}
    BY <1>1
  <2> QED
    BY <2>1, <2>2
<1>9. NoUserYet
  BY <1>1, <1>3, <1>8 DEF NoUserYet, Range
<1> QED
  BY <1>1, <1>7, <1>9

LEMMA SelectAGameIs ==
  ASSUME PageTyped, NEW r, SelectAGame(r)
  PROVE  /\ PageTyped'
         /\ r \in DOMAIN Labels /\ user \in Users
         /\ lastSelectedGame'[user] = Labels[r]
<1>1. /\ r \in DOMAIN rows /\ user \in Users
      /\ lastSelectedGame' = [lastSelectedGame EXCEPT ![user] = rows[r].label]
      /\ lastSelectedGame \in [Users -> Keys \cup {NoGame}]
  BY DEF SelectAGame, PageTyped, TypeOK
<1>2. r \in DOMAIN Labels /\ Labels[r] = rows[r].label /\ Labels[r] \in Keys
  BY <1>1, LabelsType, ElementOfSeq
<1>3. /\ lastSelectedGame' \in [Users -> Keys \cup {NoGame}]
      /\ lastSelectedGame'[user] = Labels[r]
  BY <1>1, <1>2
<1>4. UNCHANGED <<patient, open, user, signIns, callbacks, loads, numNewDiv, rows,
                  gamesClassList, now, games>> /\ opening' = TRUE
  BY DEF SelectAGame
<1>5. PageTyped'
  BY <1>3, <1>4 DEF PageTyped, TypeOK
<1> QED
  BY <1>1, <1>2, <1>3, <1>5

LEMMA GamesRefusedIs ==
  ASSUME PageTyped, NEW u \in Users, GamesRefused(u)
  PROVE  /\ PageTyped'
         /\ loads[u] > 0 /\ u # user
         /\ \A v \in Users \ {u} : loads'[v] = loads[v]
<1>1. /\ loads \in [Users -> Nat] /\ loads[u] > 0 /\ u # user
      /\ loads' = [loads EXCEPT ![u] = @ - 1]
  BY DEF GamesRefused, PageTyped, TypeOK
<1>2. loads[u] \in Nat /\ loads[u] - 1 \in Nat
  BY <1>1
<1>3. loads' \in [Users -> Nat] /\ \A v \in Users \ {u} : loads'[v] = loads[v]
  BY <1>1, <1>2
<1>4. UNCHANGED <<patient, open, user, signIns, callbacks, numNewDiv, rows,
                  gamesClassList, opening, now, database>>
  BY DEF GamesRefused
<1>5. PageTyped'
  BY <1>3, <1>4 DEF PageTyped, TypeOK, database
<1> QED
  BY <1>1, <1>3, <1>5

(* Steps that leave what the page knows and shows alone. *)
OtherStep ==
    Return \/ Tick \/ UNCHANGED vars

LEMMA OtherStepIs ==
  ASSUME PageTyped, OtherStep
  PROVE  /\ PageTyped'
         /\ UNCHANGED <<patient, user, callbacks, loads, rows, gamesClassList, opening,
                        games, lastSelectedGame>>
<1>1. UNCHANGED <<patient, user, signIns, page, database>>
  BY DEF OtherStep, Return, Tick, vars
<1>2. open' \in BOOLEAN
  BY DEF OtherStep, Return, Tick, vars, PageTyped, TypeOK
<1>3. now' \in Seconds
  <2>1. now \in Seconds
    BY DEF PageTyped, TypeOK
  <2>2. CASE Tick
    BY <2>1, <2>2, GameSelectorAssumption DEF Tick, Seconds
  <2>3. CASE Return \/ UNCHANGED vars
    BY <2>1, <2>3 DEF Return, vars
  <2> QED
    BY <2>2, <2>3 DEF OtherStep
<1>4. PageTyped'
  BY <1>1, <1>2, <1>3 DEF PageTyped, TypeOK, page, database
<1> QED
  BY <1>1, <1>4 DEF page, database

(* What a step may be. *)
LEMMA StepIs ==
  ASSUME [Next]_vars
  PROVE  \/ AddGame
         \/ \E r \in DOMAIN rows : DeleteGame(r) \/ SelectAGame(r)
         \/ \E u \in Users : SignIn(u) \/ GamesArrive(u) \/ GamesRefused(u)
         \/ Gone
         \/ OtherStep
BY DEF Next, UserStep, Leave, Open, OtherStep

LEMMA TypesInit == Init => PageTyped
BY InitTypes

LEMMA TypesStep ==
  ASSUME PageTyped, [Next]_vars
  PROVE  PageTyped'
<1>1. CASE AddGame
  BY <1>1, AddGameIs
<1>2. ASSUME NEW r \in DOMAIN rows, DeleteGame(r) PROVE PageTyped'
  BY <1>2, DeleteGameIs
<1>3. ASSUME NEW r \in DOMAIN rows, SelectAGame(r) PROVE PageTyped'
  BY <1>3, SelectAGameIs
<1>4. ASSUME NEW u \in Users, SignIn(u) PROVE PageTyped'
  BY <1>4, SignInIs
<1>5. ASSUME NEW u \in Users, GamesArrive(u) PROVE PageTyped'
  BY <1>5, GamesArriveIs
<1>6. ASSUME NEW u \in Users, GamesRefused(u) PROVE PageTyped'
  BY <1>6, GamesRefusedIs
<1>7. CASE Gone
  BY <1>7, GoneIs
<1>8. CASE OtherStep
  BY <1>8, OtherStepIs
<1> QED
  BY <1>1, <1>2, <1>3, <1>4, <1>5, <1>6, <1>7, <1>8, StepIs

(* The page, its callbacks and the database keep their types: ids stay     *)
(* below the next one and grow from row to row, whatever is added, loaded  *)
(* and deleted, and every label is the key of a child.                     *)
THEOREM SelectorTypes == Spec => []TypeOK
<1>1. PageTyped => TypeOK
  BY DEF PageTyped
<1> QED
  BY <1>1, TypesInit, TypesStep, PTL DEF Spec

----------------------------------------------------------------------------
(* The invariant is kept by every step. *)

LEMMA InvParts ==
  IInv <=> /\ PageTyped
           /\ user = Nobody => NoUserYet
           /\ RowsListen
           /\ AllAdded
           /\ OneInStep
BY DEF IInv, PageTyped

LEMMA StrayNoSecond ==
  /\ Stray \notin Seconds
  /\ Stray \in Keys
  /\ \A l \in Seconds : l # Stray /\ l \in Keys
<1>1. MaxSeconds \in Nat
  BY GameSelectorAssumption
<1> QED
  BY <1>1 DEF Stray, Seconds, Keys

(* What a callback registered later says of those before it. *)
LEMMA CallbacksGrow ==
  ASSUME callbacks \in Seq(CallbackSet), NEW c \in CallbackSet,
         callbacks' = Append(callbacks, c)
  PROVE  /\ OneUser' => OneUser
         /\ NothingRemoved' => NothingRemoved /\ c.does # "remove"
         /\ (\E n \in DOMAIN callbacks : callbacks[n] = Load)
               => \E n \in DOMAIN callbacks' : callbacks'[n] = Load
         /\ c = Load => \E n \in DOMAIN callbacks' : callbacks'[n] = Load
         /\ c = Load /\ OneUser' => \A n \in DOMAIN callbacks : callbacks[n] # Load
         /\ \A n \in DOMAIN callbacks' : \/ n \in DOMAIN callbacks /\ callbacks'[n] = callbacks[n]
                                         \/ callbacks'[n] = c
<1> DEFINE k == Len(callbacks) + 1
<1>1. /\ k \in DOMAIN callbacks' /\ callbacks'[k] = c
      /\ \A n \in DOMAIN callbacks : n \in DOMAIN callbacks' /\ callbacks'[n] = callbacks[n]
      /\ \A n \in DOMAIN callbacks' : n \in DOMAIN callbacks \/ n = k
  BY AppendIs
<1>2. k \notin DOMAIN callbacks
  <2>1. DOMAIN callbacks = 1 .. Len(callbacks) /\ Len(callbacks) \in Nat
    BY AppendIs
  <2> QED
    BY <2>1
<1> HIDE DEF k
<1> QED
  BY <1>1, <1>2 DEF OneUser, NothingRemoved

(* A game is added. *)
LEMMA AddGameKeeps ==
  ASSUME IInv, AddGame
  PROVE  IInv'
<1>1. /\ PageTyped /\ RowsListen /\ AllAdded /\ OneInStep
      /\ user = Nobody => NoUserYet
  BY InvParts
<1>2. /\ PageTyped'
      /\ callbacks' = Append(callbacks, SetValue(now))
      /\ loads' = loads
      /\ gamesClassList' = Append(gamesClassList, now)
      /\ Labels' = Append(Labels, now)
      /\ Len(rows') = Len(rows) + 1
      /\ user = Nobody => rows'[Len(rows) + 1].listeners = 0
      /\ user # Nobody => rows'[Len(rows) + 1].listeners = 1
      /\ \A r \in 1 .. Len(rows) : rows'[r] = rows[r]
      /\ games' = IF user = Nobody THEN games ELSE [games EXCEPT ![user] = @ \cup {now}]
  BY <1>1, AddGameIs
<1>3. /\ user' = user /\ patient' = patient /\ opening' = opening
      /\ lastSelectedGame' = lastSelectedGame
      /\ patient => Ready /\ ~opening /\ now \notin games[user]
  BY DEF AddGame, Click
<1>4. /\ rows \in Seq(RowSet(numNewDiv)) /\ Labels \in Seq(Keys) /\ gamesClassList \in Seq(Keys)
      /\ Len(rows) \in Nat /\ DOMAIN rows = 1 .. Len(rows)
      /\ callbacks \in Seq(CallbackSet)
      /\ games \in [Users -> SUBSET Keys]
      /\ user \in Users \cup {Nobody}
  BY <1>1, LabelsType DEF PageTyped, TypeOK
<1>5. now \in Keys /\ now # Stray
  BY <1>1, StrayNoSecond DEF PageTyped, TypeOK
<1>6. \A r \in DOMAIN rows' : (r \in DOMAIN rows /\ rows'[r] = rows[r]) \/ r = Len(rows) + 1
  <2>1. DOMAIN rows' = 1 .. Len(rows')
    BY <1>2, LabelsType DEF PageTyped, TypeOK
  <2>2. \A r \in 1 .. Len(rows) + 1 : r \in 1 .. Len(rows) \/ r = Len(rows) + 1
    BY <1>4
  <2> QED
    BY <1>2, <1>4, <2>1, <2>2
<1>7. SetValue(now) \in CallbackSet /\ SetValue(now).does = "set" /\ SetValue(now) # Load
  <2>1. now \in Seconds
    BY <1>1 DEF PageTyped, TypeOK
  <2>2. SetValue(now) \in CallbackSet /\ SetValue(now).does = "set"
    BY <2>1 DEF SetValue, CallbackSet
  <2>3. Load.does = "load"
    BY DEF Load
  <2> QED
    BY <2>2, <2>3
<1>8. /\ Range(Labels') = Range(Labels) \cup {now}
      /\ Range(gamesClassList') = Range(gamesClassList) \cup {now}
      /\ IsInjective(Labels) /\ now \notin Range(Labels) => IsInjective(Labels')
      /\ \A x : AtMostOnce(gamesClassList, x) /\ now # x => AtMostOnce(gamesClassList', x)
  BY <1>2, <1>4, <1>5, AppendRange
<1>9. /\ OneUser' => OneUser
      /\ NothingRemoved' => NothingRemoved
      /\ (\E n \in DOMAIN callbacks : callbacks[n] = Load)
            => \E n \in DOMAIN callbacks' : callbacks'[n] = Load
      /\ \A n \in DOMAIN callbacks' : \/ n \in DOMAIN callbacks /\ callbacks'[n] = callbacks[n]
                                      \/ callbacks'[n] = SetValue(now)
  BY <1>2, <1>4, <1>7, CallbacksGrow
<1>10. user # Nobody => games'[user] = games[user] \cup {now}
  BY <1>2, <1>4
<1>11. ASSUME user' = Nobody PROVE NoUserYet'
  <2>1. user = Nobody /\ NoUserYet /\ ~patient
    BY <1>1, <1>3, <1>11 DEF Ready
  <2>2. \A n \in DOMAIN callbacks' : callbacks'[n].does = "set"
    BY <1>7, <1>9, <2>1 DEF NoUserYet
  <2>3. \A r \in DOMAIN rows' : rows'[r].listeners = 0
    BY <1>2, <1>6, <2>1 DEF NoUserYet
  <2>4. Labels' = gamesClassList'
    BY <1>2, <2>1 DEF NoUserYet
  <2>5. Stray \notin Range(gamesClassList')
    BY <1>5, <1>8, <2>1 DEF NoUserYet
  <2> QED
    BY <1>2, <1>3, <2>1, <2>2, <2>3, <2>4, <2>5 DEF NoUserYet
<1>12. RowsListen'
  <2> SUFFICES ASSUME user' # Nobody, loads'[user'] = 0, NEW r \in DOMAIN rows'
               PROVE  rows'[r].listeners > 0
    BY DEF RowsListen
  <2>1. user # Nobody /\ loads[user] = 0
    BY <1>2, <1>3
  <2>2. CASE r \in DOMAIN rows /\ rows'[r] = rows[r]
    BY <1>1, <2>1, <2>2 DEF RowsListen
  <2>3. CASE r = Len(rows) + 1
    BY <1>2, <2>1, <2>3
  <2> QED
    BY <1>6, <2>2, <2>3
<1>13. AllAdded'
  <2> SUFFICES ASSUME NothingRemoved'
               PROVE  /\ Len(rows') = Len(gamesClassList')
                      /\ user' # Nobody /\ loads'[user'] = 0 => games'[user'] \subseteq Range(Labels')
    BY DEF AllAdded
  <2>1. /\ Len(rows) = Len(gamesClassList)
        /\ user # Nobody /\ loads[user] = 0 => games[user] \subseteq Range(Labels)
    BY <1>1, <1>9 DEF AllAdded
  <2>2. Len(gamesClassList') = Len(gamesClassList) + 1
    BY <1>2, <1>4, <1>5, AppendIs
  <2> QED
    BY <1>2, <1>3, <1>8, <1>10, <2>1, <2>2
<1>14. OneInStep'
  <2> SUFFICES ASSUME user' # Nobody, OneUser'
               PROVE  SoleUser' /\ (StrayRowGone' \/ (RowsAndList' /\ WaitingUser'))
    BY DEF OneInStep
  <2>1. user # Nobody /\ SoleUser /\ (StrayRowGone \/ (RowsAndList /\ WaitingUser))
    BY <1>1, <1>3, <1>9 DEF OneInStep
  <2>2. SoleUser'
    BY <1>2, <1>3, <1>9, <2>1 DEF SoleUser
  <2>3. CASE StrayRowGone
    <3>1. StrayRowGone'
      BY <1>2, <1>3, <1>5, <1>8, <2>3 DEF StrayRowGone
    <3> QED
      BY <2>2, <3>1
  <2>4. CASE RowsAndList /\ WaitingUser
    <3>1. Labels' = gamesClassList'
      BY <1>2, <2>4 DEF RowsAndList
    <3>2. AtMostOnce(gamesClassList', Stray)
      BY <1>5, <1>8, <2>4 DEF RowsAndList, AtMostOnce
    <3>3. RowsAndList'
      BY <1>2, <1>3, <1>5, <1>8, <1>10, <2>1, <2>4, <3>1, <3>2 DEF RowsAndList, AtMostOnce
    <3>4. WaitingUser'
      <4> SUFFICES ASSUME patient'
                   PROVE  /\ loads'[user'] = 1 => rows' = <<>>
                          /\ loads'[user'] = 0 => IsInjective(Labels') /\ Range(Labels') = games'[user']
        BY DEF WaitingUser
      <4>1. patient /\ loads[user] = 0 /\ now \notin games[user]
        BY <1>3, <1>4, <2>1 DEF Ready
      <4>2. IsInjective(Labels) /\ Range(Labels) = games[user]
        BY <2>4, <4>1 DEF WaitingUser
      <4> QED
        BY <1>2, <1>3, <1>8, <1>10, <2>1, <4>1, <4>2
    <3> QED
      BY <2>2, <3>3, <3>4
  <2> QED
    BY <2>1, <2>3, <2>4
<1> QED
  BY <1>2, <1>11, <1>12, <1>13, <1>14 DEF IInv, PageTyped

(* A row is deleted. *)
LEMMA DeleteGameKeeps ==
  ASSUME IInv, NEW r, DeleteGame(r)
  PROVE  IInv'
<1>1. /\ PageTyped /\ RowsListen /\ AllAdded /\ OneInStep
      /\ user = Nobody => NoUserYet
  BY InvParts
<1>2. /\ PageTyped'
      /\ r \in DOMAIN rows
      /\ loads' = loads
      /\ rows' = RemoveAt(rows, r)
      /\ Labels' = RemoveAt(Labels, r)
      /\ r \notin DOMAIN gamesClassList =>
            /\ callbacks' = callbacks
            /\ gamesClassList' = gamesClassList
            /\ games' = games
      /\ r \in DOMAIN gamesClassList =>
            /\ callbacks' = Append(callbacks, RemoveValue(gamesClassList[r], r))
            /\ IF user = Nobody \/ gamesClassList[r] = Stray
               THEN gamesClassList' = gamesClassList /\ games' = games
               ELSE /\ gamesClassList' = RemoveAt(gamesClassList, r)
                    /\ games' = [games EXCEPT ![user] = @ \ {gamesClassList[r]}]
  BY <1>1, DeleteGameIs
<1>3. /\ user' = user /\ patient' = patient /\ opening' = opening
      /\ lastSelectedGame' = lastSelectedGame
      /\ patient => Ready /\ ~opening
      /\ rows[r].listeners > 0
  BY DEF DeleteGame, Click
<1>4. /\ rows \in Seq(RowSet(numNewDiv)) /\ Labels \in Seq(Keys) /\ gamesClassList \in Seq(Keys)
      /\ Len(rows) \in Nat /\ DOMAIN rows = 1 .. Len(rows)
      /\ DOMAIN Labels = 1 .. Len(rows)
      /\ callbacks \in Seq(CallbackSet)
      /\ games \in [Users -> SUBSET Keys]
      /\ user \in Users \cup {Nobody}
  BY <1>1, LabelsType DEF PageTyped, TypeOK
<1>5. user # Nobody
  BY <1>1, <1>2, <1>3 DEF NoUserYet
<1>6. r \in DOMAIN gamesClassList =>
        /\ RemoveValue(gamesClassList[r], r) \in CallbackSet
        /\ RemoveValue(gamesClassList[r], r).does = "remove"
  <2> SUFFICES ASSUME r \in DOMAIN gamesClassList
               PROVE  /\ RemoveValue(gamesClassList[r], r) \in CallbackSet
                      /\ RemoveValue(gamesClassList[r], r).does = "remove"
    OBVIOUS
  <2>1. gamesClassList[r] \in Keys /\ r \in Nat
    BY <1>2, <1>4, ElementOfSeq
  <2> QED
    BY <2>1 DEF RemoveValue, CallbackSet
<1>7. /\ OneUser' => OneUser
      /\ r \in DOMAIN gamesClassList => ~NothingRemoved'
      /\ (\E n \in DOMAIN callbacks : callbacks[n] = Load)
            => \E n \in DOMAIN callbacks' : callbacks'[n] = Load
  <2>1. CASE r \in DOMAIN gamesClassList
    BY <1>2, <1>4, <1>6, <2>1, CallbacksGrow
  <2>2. CASE r \notin DOMAIN gamesClassList
    BY <1>2, <2>2 DEF OneUser
  <2> QED
    BY <2>1, <2>2
<1>8. RowsListen'
  <2> SUFFICES ASSUME user' # Nobody, loads'[user'] = 0, NEW n \in DOMAIN rows'
               PROVE  rows'[n].listeners > 0
    BY DEF RowsListen
  <2>1. \A k \in DOMAIN rows : rows[k].listeners > 0
    BY <1>1, <1>2, <1>3 DEF RowsListen
  <2>2. n \in 1 .. Len(rows) - 1 /\ rows'[n] = rows[IF n < r THEN n ELSE n + 1]
    <3>1. r \in DOMAIN rows /\ rows \in Seq(RowSet(numNewDiv))
      BY <1>2, <1>4
    <3>2. /\ DOMAIN RemoveAt(rows, r) = 1 .. Len(rows) - 1
          /\ \A i \in 1 .. Len(rows) - 1 :
                RemoveAt(rows, r)[i] = rows[IF i < r THEN i ELSE i + 1]
      BY <3>1, RemoveAtIs
    <3> QED
      BY <1>2, <3>2
  <2>3. (IF n < r THEN n ELSE n + 1) \in DOMAIN rows
    BY <1>2, <1>4, <2>2
  <2> QED
    BY <2>1, <2>2, <2>3
<1>9. AllAdded'
  <2> SUFFICES ASSUME NothingRemoved' PROVE FALSE
    BY DEF AllAdded
  <2>1. r \notin DOMAIN gamesClassList
    BY <1>7
  <2>2. Len(rows) = Len(gamesClassList)
    BY <1>1, <1>2, <2>1 DEF AllAdded, NothingRemoved
  <2> QED
    BY <1>2, <1>4, <2>1, <2>2
<1>10. /\ Range(Labels') \subseteq Range(Labels)
       /\ Range(Labels) \ {Labels[r]} \subseteq Range(Labels')
       /\ AtMostOnce(Labels, Labels[r]) => Labels[r] \notin Range(Labels')
       /\ IsInjective(Labels) => IsInjective(Labels')
       /\ \A x : AtMostOnce(Labels, x) => AtMostOnce(Labels', x)
  BY <1>2, <1>4, RemoveAtRange
<1>11. OneInStep'
  <2> SUFFICES ASSUME user' # Nobody, OneUser'
               PROVE  SoleUser' /\ (StrayRowGone' \/ (RowsAndList' /\ WaitingUser'))
    BY DEF OneInStep
  <2>1. SoleUser /\ (StrayRowGone \/ (RowsAndList /\ WaitingUser))
    BY <1>1, <1>5, <1>7 DEF OneInStep
  <2>2. SoleUser'
    BY <1>2, <1>3, <1>7, <2>1 DEF SoleUser
  <2>3. CASE StrayRowGone
    <3>1. Stray \in Range(gamesClassList')
      <4>1. Stray \in Range(gamesClassList)
        BY <2>3 DEF StrayRowGone
      <4>2. CASE gamesClassList' = gamesClassList
        BY <4>1, <4>2
      <4>3. CASE gamesClassList' # gamesClassList
        <5>1. /\ r \in DOMAIN gamesClassList
              /\ gamesClassList[r] # Stray
              /\ gamesClassList' = RemoveAt(gamesClassList, r)
          BY <1>2, <4>3
        <5>2. Range(gamesClassList) \ {gamesClassList[r]} \subseteq Range(gamesClassList')
          BY <1>4, <5>1, RemoveAtRange
        <5> QED
          BY <4>1, <5>1, <5>2
      <4> QED
        BY <4>2, <4>3
    <3>2. StrayRowGone'
      BY <1>2, <1>3, <1>10, <2>3, <3>1 DEF StrayRowGone
    <3> QED
      BY <2>2, <3>2
  <2>4. CASE RowsAndList /\ WaitingUser
    <3>1. /\ Labels = gamesClassList /\ r \in DOMAIN Labels /\ r \in DOMAIN gamesClassList
          /\ AtMostOnce(Labels, Stray)
      BY <1>2, <1>4, <2>4 DEF RowsAndList, AtMostOnce
    <3>2. CASE Labels[r] = Stray
      <4>1. Stray \in Range(gamesClassList) /\ gamesClassList' = gamesClassList
        BY <1>2, <3>1, <3>2 DEF Range
      <4>2. loads[user] = 0
        BY <2>1, <2>4, <4>1 DEF RowsAndList, SoleUser
      <4>3. Stray \notin Range(Labels')
        BY <1>10, <3>1, <3>2
      <4>4. StrayRowGone'
        BY <1>2, <1>3, <4>1, <4>2, <4>3 DEF StrayRowGone
      <4> QED
        BY <2>2, <4>4
    <3>3. CASE Labels[r] # Stray
      <4>1. /\ gamesClassList' = Labels'
            /\ games' = [games EXCEPT ![user] = @ \ {Labels[r]}]
        BY <1>2, <1>5, <3>1, <3>3
      <4>2. games'[user] = games[user] \ {Labels[r]}
        BY <1>4, <1>5, <4>1
      <4>3. AtMostOnce(gamesClassList', Stray)
        BY <1>10, <3>1, <4>1
      <4>4. RowsAndList'
        BY <1>2, <1>3, <1>10, <2>4, <4>1, <4>2, <4>3 DEF RowsAndList, AtMostOnce
      <4>5. WaitingUser'
        <5> SUFFICES ASSUME patient'
                     PROVE  /\ loads'[user'] = 1 => rows' = <<>>
                            /\ loads'[user'] = 0 => IsInjective(Labels') /\ Range(Labels') = games'[user']
          BY DEF WaitingUser
        <5>1. loads[user] = 0
          BY <1>3, <1>4, <1>5 DEF Ready
        <5>2. IsInjective(Labels) /\ Range(Labels) = games[user]
          BY <1>3, <2>4, <5>1 DEF WaitingUser
        <5>3. AtMostOnce(Labels, Labels[r])
          BY <5>2 DEF AtMostOnce, IsInjective
        <5> QED
          BY <1>2, <1>3, <1>10, <4>2, <5>1, <5>2, <5>3
      <4> QED
        BY <2>2, <4>4, <4>5
    <3> QED
      BY <3>2, <3>3
  <2> QED
    BY <2>1, <2>3, <2>4
<1>12. user' # Nobody
  BY <1>3, <1>5
<1> QED
  BY <1>2, <1>8, <1>9, <1>11, <1>12 DEF IInv, PageTyped

(* A game is selected. *)
LEMMA SelectAGameKeeps ==
  ASSUME IInv, NEW r, SelectAGame(r)
  PROVE  IInv'
<1>1. /\ PageTyped /\ RowsListen /\ AllAdded /\ OneInStep
  BY InvParts
<1>2. /\ PageTyped'
      /\ r \in DOMAIN Labels /\ user \in Users
      /\ lastSelectedGame'[user] = Labels[r]
  BY <1>1, SelectAGameIs
<1>3. /\ UNCHANGED <<patient, user, callbacks, loads, rows, gamesClassList, games>>
      /\ patient => Ready
  BY DEF SelectAGame
<1>4. Labels' = Labels
  BY <1>3 DEF Labels
<1>5. user' # Nobody
  BY <1>2, <1>3, GameSelectorAssumption
<1>6. RowsListen'
  BY <1>1, <1>3 DEF RowsListen
<1>7. AllAdded'
  BY <1>1, <1>3, <1>4 DEF AllAdded, NothingRemoved
<1>8. OneInStep'
  <2> SUFFICES ASSUME OneUser'
               PROVE  SoleUser' /\ (StrayRowGone' \/ (RowsAndList' /\ WaitingUser'))
    BY DEF OneInStep
  <2>1. SoleUser /\ (StrayRowGone \/ (RowsAndList /\ WaitingUser))
    BY <1>1, <1>3, <1>5 DEF OneInStep, OneUser
  <2>2. SoleUser'
    BY <1>3, <2>1 DEF SoleUser
  <2>3. StrayRowGone => StrayRowGone'
    BY <1>3, <1>4 DEF StrayRowGone
  <2>4. ASSUME RowsAndList, WaitingUser
        PROVE  RowsAndList' /\ WaitingUser'
    <3>1. RowsAndList'
      BY <1>3, <1>4, <2>4 DEF RowsAndList
    <3>2. WaitingUser'
      BY <1>3, <1>4, <2>4 DEF WaitingUser
    <3> QED
      BY <3>1, <3>2
  <2> QED
    BY <2>1, <2>2, <2>3, <2>4
<1> QED
  BY <1>2, <1>5, <1>6, <1>7, <1>8 DEF IInv, PageTyped

(* The page learns of a user. *)
LEMMA SignInKeeps ==
  ASSUME IInv, NEW u \in Users, SignIn(u)
  PROVE  IInv'
<1>1. /\ PageTyped /\ AllAdded /\ OneInStep
      /\ user = Nobody => NoUserYet
  BY InvParts
<1>2. /\ PageTyped'
      /\ callbacks' = Append(callbacks, Load)
      /\ Labels' = Labels
      /\ Len(rows') = Len(rows)
      /\ loads'[u] > loads[u]
      /\ \A v \in Users \ {u} : loads'[v] = loads[v]
      /\ (\A n \in DOMAIN callbacks : callbacks[n].does # "remove")
            => gamesClassList' = gamesClassList
      /\ (\A n \in DOMAIN callbacks : callbacks[n].does = "set")
            => loads'[u] = loads[u] + 1
  BY <1>1, SignInIs
<1>3. user' = u /\ patient' = patient /\ opening' = opening /\ u # Nobody
  BY GameSelectorAssumption DEF SignIn
<1>4. callbacks \in Seq(CallbackSet) /\ Load \in CallbackSet /\ Load.does # "remove"
  BY <1>1 DEF PageTyped, Load, CallbackSet
<1>5. /\ NothingRemoved' => NothingRemoved
      /\ \E n \in DOMAIN callbacks' : callbacks'[n] = Load
      /\ OneUser' => OneUser /\ \A n \in DOMAIN callbacks : callbacks[n] # Load
  BY <1>2, <1>4, CallbacksGrow
<1>6. loads'[u] > 0
  <2>1. loads[u] \in Nat /\ loads'[u] \in Nat
    BY <1>1, <1>2 DEF PageTyped, TypeOK
  <2> QED
    BY <1>2, <2>1
<1>7. RowsListen'
  BY <1>3, <1>6 DEF RowsListen
<1>8. AllAdded'
  <2> SUFFICES ASSUME NothingRemoved'
               PROVE  Len(rows') = Len(gamesClassList') /\ loads'[u] # 0
    BY <1>3 DEF AllAdded
  <2>1. Len(rows) = Len(gamesClassList) /\ gamesClassList' = gamesClassList
    BY <1>1, <1>2, <1>5 DEF AllAdded, NothingRemoved
  <2> QED
    BY <1>2, <1>6, <2>1
<1>9. OneInStep'
  <2> SUFFICES ASSUME OneUser'
               PROVE  SoleUser' /\ RowsAndList' /\ WaitingUser'
    BY DEF OneInStep
  <2>1. user = Nobody
    <3> SUFFICES ASSUME user # Nobody PROVE FALSE
      OBVIOUS
    <3>1. SoleUser
      BY <1>1, <1>5 DEF OneInStep
    <3> QED
      BY <1>5, <3>1 DEF SoleUser
  <2>2. NoUserYet
    BY <1>1, <2>1
  <2>3. loads'[u] = 1 /\ \A v \in Users \ {u} : loads'[v] = 0
    BY <1>2, <2>2 DEF NoUserYet
  <2>4. gamesClassList' = gamesClassList
    BY <1>2, <2>2 DEF NoUserYet
  <2>5. SoleUser'
    BY <1>3, <1>5, <2>3 DEF SoleUser
  <2>6. RowsAndList'
    BY <1>2, <1>3, <2>2, <2>3, <2>4 DEF RowsAndList, NoUserYet, Range
  <2>7. WaitingUser'
    <3>1. patient => rows' = <<>>
      <4>1. rows' \in Seq(RowSet(numNewDiv'))
        BY <1>2 DEF PageTyped, TypeOK, RowSet
      <4>2. patient => Len(rows') = 0
        BY <1>2, <2>2 DEF NoUserYet
      <4> QED
        BY <4>1, <4>2, EmptySeq
    <3> QED
      BY <1>3, <2>2, <2>3, <3>1 DEF WaitingUser, NoUserYet
  <2> QED
    BY <2>5, <2>6, <2>7
<1> QED
  BY <1>2, <1>3, <1>7, <1>8, <1>9 DEF IInv, PageTyped

(* The games of a user arrive. *)
LEMMA GamesArriveKeeps ==
  ASSUME IInv, NEW u \in Users, GamesArrive(u)
  PROVE  IInv'
<1> DEFINE new == InKeyOrder(games[u])
<1>1. /\ PageTyped /\ RowsListen /\ AllAdded /\ OneInStep
      /\ user = Nobody => NoUserYet
  BY InvParts
<1>2. /\ PageTyped'
      /\ Labels' = Labels \o new
      /\ gamesClassList' = gamesClassList \o new
      /\ Len(rows') = Len(rows) + Len(new)
      /\ \A r \in DOMAIN rows' : rows'[r].listeners > 0
  BY <1>1, GamesArriveIs
<1>3. /\ loads \in [Users -> Nat] /\ loads[u] > 0 /\ loads' = [loads EXCEPT ![u] = @ - 1]
      /\ UNCHANGED <<user, patient, opening, callbacks, games, lastSelectedGame>>
  BY <1>1 DEF GamesArrive, PageTyped, TypeOK, database
<1>4. /\ Labels \in Seq(Keys) /\ gamesClassList \in Seq(Keys)
      /\ games[u] \in SUBSET Keys
      /\ user \in Users \cup {Nobody}
  BY <1>1, LabelsType DEF PageTyped, TypeOK
<1>5. /\ new \in Seq(Keys)
      /\ Range(new) = games[u]
      /\ IsInjective(new)
  BY <1>4, GamesInOrder
<1> HIDE DEF new
<1>6. Range(Labels') = Range(Labels) \cup games[u]
  BY <1>2, <1>4, <1>5, ConcatRange
<1>7. \A v \in Users \ {u} : loads'[v] = loads[v]
  BY <1>3
<1>8. loads[u] \in Nat /\ loads'[u] = loads[u] - 1
  BY <1>3
<1>9. user \in Users /\ user # Nobody
  <2>1. user # Nobody
    BY <1>1, <1>3 DEF NoUserYet
  <2> QED
    BY <1>4, <2>1
<1>10. RowsListen'
  BY <1>2 DEF RowsListen
<1>11. AllAdded'
  <2> SUFFICES ASSUME NothingRemoved'
               PROVE  /\ Len(rows') = Len(gamesClassList')
                      /\ loads'[user] = 0 => games[user] \subseteq Range(Labels')
    BY <1>3 DEF AllAdded
  <2>1. /\ Len(rows) = Len(gamesClassList)
        /\ loads[user] = 0 => games[user] \subseteq Range(Labels)
    BY <1>1, <1>3, <1>9 DEF AllAdded, NothingRemoved
  <2>2. Len(gamesClassList') = Len(gamesClassList) + Len(new)
    BY <1>2, <1>4, <1>5, ConcatIs
  <2>3. loads'[user] = 0 => games[user] \subseteq Range(Labels')
    BY <1>6, <1>7, <1>9, <2>1
  <2> QED
    BY <1>2, <2>1, <2>2, <2>3
<1>12. OneInStep'
  <2> SUFFICES ASSUME OneUser'
               PROVE  SoleUser' /\ RowsAndList' /\ WaitingUser'
    BY DEF OneInStep
  <2>1. SoleUser /\ (StrayRowGone \/ (RowsAndList /\ WaitingUser))
    BY <1>1, <1>3, <1>9 DEF OneInStep, OneUser
  <2>2. u = user
    BY <1>3, <2>1 DEF SoleUser
  <2>3. loads[user] = 1 /\ loads'[user] = 0
    <3>1. loads[user] \in {0, 1} /\ loads[user] > 0
      BY <1>3, <2>1, <2>2 DEF SoleUser
    <3>2. loads[user] = 1
      BY <3>1
    <3> QED
      BY <1>8, <2>2, <3>2
  <2>4. RowsAndList /\ WaitingUser
    BY <2>1, <2>3 DEF StrayRowGone
  <2>5. SoleUser'
    BY <1>3, <1>7, <2>1, <2>2, <2>3 DEF SoleUser
  <2>6. RowsAndList'
    <3>1. Labels' = gamesClassList'
      BY <1>2, <2>4 DEF RowsAndList
    <3>2. Stray \notin Range(gamesClassList)
      BY <2>3, <2>4 DEF RowsAndList
    <3>3. AtMostOnce(gamesClassList', Stray)
      BY <1>2, <1>4, <1>5, <3>2, ConcatRange
    <3> QED
      BY <1>3, <1>6, <2>2, <2>3, <3>1, <3>3 DEF RowsAndList, AtMostOnce
  <2>7. WaitingUser'
    <3>1. ASSUME patient
          PROVE  IsInjective(Labels') /\ Range(Labels') = games[user]
      <4>1. rows = <<>>
        BY <2>3, <2>4, <3>1 DEF WaitingUser
      <4>2. Labels = <<>>
        <5>1. Len(Labels) = 0
          BY <1>1, <4>1, LabelsType
        <5> QED
          BY <1>4, <5>1, EmptySeq
      <4>3. Labels' = new
        BY <1>2, <1>5, <4>2, ConcatEmptySeq
      <4> QED
        BY <1>5, <2>2, <4>3
    <3> QED
      BY <1>3, <2>3, <2>4, <3>1 DEF WaitingUser
  <2> QED
    BY <2>5, <2>6, <2>7
<1>13. user' # Nobody
  BY <1>3, <1>9
<1> QED
  BY <1>2, <1>10, <1>11, <1>12, <1>13 DEF IInv, PageTyped

(* The games of another user are refused. *)
LEMMA GamesRefusedKeeps ==
  ASSUME IInv, NEW u \in Users, GamesRefused(u)
  PROVE  IInv'
<1>1. /\ PageTyped /\ RowsListen /\ AllAdded /\ OneInStep
      /\ user = Nobody => NoUserYet
  BY InvParts
<1>2. /\ PageTyped'
      /\ loads[u] > 0 /\ u # user
      /\ \A v \in Users \ {u} : loads'[v] = loads[v]
  BY <1>1, GamesRefusedIs
<1>3. UNCHANGED <<patient, user, callbacks, rows, gamesClassList, opening, games,
                  lastSelectedGame>>
  BY DEF GamesRefused, database
<1>4. Labels' = Labels
  BY <1>3 DEF Labels
<1>5. user \in Users \ {u} /\ user # Nobody
  <2>1. user # Nobody
    BY <1>1, <1>2 DEF NoUserYet
  <2> QED
    BY <1>1, <1>2, <2>1 DEF PageTyped, TypeOK
<1>6. loads'[user'] = loads[user]
  BY <1>2, <1>3, <1>5
<1>7. RowsListen'
  BY <1>1, <1>3, <1>6 DEF RowsListen
<1>8. AllAdded'
  BY <1>1, <1>3, <1>4, <1>6 DEF AllAdded, NothingRemoved
<1>9. OneInStep'
  <2> SUFFICES ASSUME OneUser' PROVE FALSE
    BY DEF OneInStep
  <2>1. SoleUser
    BY <1>1, <1>3, <1>5 DEF OneInStep, OneUser
  <2> QED
    BY <1>2, <2>1 DEF SoleUser
<1>10. user' # Nobody
  BY <1>3, <1>5
<1> QED
  BY <1>2, <1>7, <1>8, <1>9, <1>10 DEF IInv, PageTyped

(* A page on which nobody is known. *)
LEMMA FreshPageInv ==
  ASSUME PageTyped, NoUserYet, Len(rows) = Len(gamesClassList), user = Nobody
  PROVE  IInv
BY DEF IInv, PageTyped, RowsListen, AllAdded, OneInStep

LEMMA GoneKeeps ==
  ASSUME PageTyped, Gone
  PROVE  IInv'
<1>1. PageTyped' /\ NoUserYet' /\ Len(rows') = Len(gamesClassList') /\ user' = Nobody
  BY GoneIs
<1> QED
  BY <1>1 DEF IInv, PageTyped, RowsListen, AllAdded, OneInStep

LEMMA OtherStepKeeps ==
  ASSUME IInv, OtherStep
  PROVE  IInv'
<1>1. /\ PageTyped /\ RowsListen /\ AllAdded /\ OneInStep
      /\ user = Nobody => NoUserYet
  BY InvParts
<1>2. /\ PageTyped'
      /\ UNCHANGED <<patient, user, callbacks, loads, rows, gamesClassList, opening,
                     games, lastSelectedGame>>
  BY <1>1, OtherStepIs
<1>3. Labels' = Labels
  BY <1>2 DEF Labels
<1>4. NoUserYet => NoUserYet'
  BY <1>2, <1>3 DEF NoUserYet
<1>5. RowsListen' /\ AllAdded'
  BY <1>1, <1>2, <1>3 DEF RowsListen, AllAdded, NothingRemoved
<1>6. /\ SoleUser => SoleUser'
      /\ StrayRowGone => StrayRowGone'
      /\ RowsAndList => RowsAndList'
      /\ WaitingUser => WaitingUser'
  BY <1>2, <1>3 DEF SoleUser, StrayRowGone, RowsAndList, WaitingUser
<1>7. OneInStep'
  BY <1>1, <1>2, <1>6 DEF OneInStep, OneUser
<1> QED
  BY <1>1, <1>2, <1>4, <1>5, <1>7 DEF IInv, PageTyped

LEMMA InvInit == Init => IInv
BY InitTypes, FreshPageInv

LEMMA InvStep ==
  ASSUME IInv, [Next]_vars
  PROVE  IInv'
<1>1. PageTyped
  BY InvParts
<1>2. CASE AddGame
  BY <1>2, AddGameKeeps
<1>3. ASSUME NEW r \in DOMAIN rows, DeleteGame(r) PROVE IInv'
  BY <1>3, DeleteGameKeeps
<1>4. ASSUME NEW r \in DOMAIN rows, SelectAGame(r) PROVE IInv'
  BY <1>4, SelectAGameKeeps
<1>5. ASSUME NEW u \in Users, SignIn(u) PROVE IInv'
  BY <1>5, SignInKeeps
<1>6. ASSUME NEW u \in Users, GamesArrive(u) PROVE IInv'
  BY <1>6, GamesArriveKeeps
<1>7. ASSUME NEW u \in Users, GamesRefused(u) PROVE IInv'
  BY <1>7, GamesRefusedKeeps
<1>8. CASE Gone
  BY <1>1, <1>8, GoneKeeps
<1>9. CASE OtherStep
  BY <1>9, OtherStepKeeps
<1> QED
  BY <1>2, <1>3, <1>4, <1>5, <1>6, <1>7, <1>8, <1>9, StepIs

LEMMA InvAlways == Spec => []IInv
BY InvInit, InvStep, PTL DEF Spec

----------------------------------------------------------------------------
(* What it means for the user. *)

(* Rows and list are out of step only once the row without a label has     *)
(* been deleted.                                                           *)
LEMMA InStepIs ==
  ASSUME IInv, user # Nobody, OneUser, InStep
  PROVE  SoleUser /\ RowsAndList /\ WaitingUser
<1>1. SoleUser /\ (StrayRowGone \/ (RowsAndList /\ WaitingUser))
  BY InvParts DEF OneInStep
<1> QED
  BY <1>1 DEF InStep, StrayRowGone

LEMMA ReadyLoads ==
  ASSUME IInv, Ready
  PROVE  user # Nobody /\ loads[user] = 0
BY InvParts DEF PageTyped, TypeOK, Ready

(* Every game of the user has a row once the page is loaded, also one      *)
(* added before its callback could run or one of two made in the same      *)
(* second: as long as one user was known and the row without a label is    *)
(* there, or nothing was deleted.                                          *)
THEOREM SelectorShowsEveryGame == Spec => []EveryGameShown
<1>1. IInv => EveryGameShown
  <2> SUFFICES ASSUME IInv, Ready, (OneUser /\ InStep) \/ NothingRemoved
               PROVE  games[user] \subseteq Range(Labels)
    BY DEF EveryGameShown
  <2>1. user # Nobody /\ loads[user] = 0
    BY ReadyLoads
  <2>2. CASE OneUser /\ InStep
    BY <2>1, <2>2, InStepIs DEF RowsAndList
  <2>3. CASE NothingRemoved
    BY <2>1, <2>3, InvParts DEF AllAdded
  <2> QED
    BY <2>2, <2>3
<1> QED
  BY <1>1, InvAlways, PTL

(* Every row of a loaded page reacts to clicks, also one whose own         *)
(* callback gave the listeners to another row.                             *)
THEOREM SelectorRowsWork == Spec => []EveryRowWorks
<1>1. IInv => EveryRowWorks
  BY ReadyLoads, InvParts DEF EveryRowWorks, RowsListen
<1> QED
  BY <1>1, InvAlways, PTL

(* To a user who waits for the page, a row stands for each game and each   *)
(* game has one row, until the row without a label is deleted or another   *)
(* user signs in.                                                          *)
THEOREM SelectorShowsTheGames == Spec => []RowsAreTheGames
<1>1. IInv => RowsAreTheGames
  BY ReadyLoads, InStepIs DEF RowsAreTheGames, WaitingUser
<1> QED
  BY <1>1, InvAlways, PTL

(* One click, from a state of the invariant. *)
LEMMA RightGameDeleted ==
  ASSUME IInv, OneUser, InStep, NEW r \in DOMAIN rows, rows[r].label # Stray, DeleteGame(r)
  PROVE  /\ games' = [games EXCEPT ![user] = @ \ {rows[r].label}]
         /\ Len(rows') = Len(rows) - 1
         /\ \A s \in DOMAIN rows' : rows'[s].id # rows[r].id
<1>1. PageTyped /\ (user = Nobody => NoUserYet)
  BY InvParts
<1>2. /\ rows' = RemoveAt(rows, r)
      /\ \A n \in 1 .. Len(rows') : rows'[n].id # rows[r].id
      /\ r \in DOMAIN gamesClassList =>
            IF user = Nobody \/ gamesClassList[r] = Stray
            THEN gamesClassList' = gamesClassList /\ games' = games
            ELSE /\ gamesClassList' = RemoveAt(gamesClassList, r)
                 /\ games' = [games EXCEPT ![user] = @ \ {gamesClassList[r]}]
  BY <1>1, DeleteGameIs
<1>3. user # Nobody
  BY <1>1 DEF DeleteGame, NoUserYet
<1>4. Labels = gamesClassList
  BY <1>3, InStepIs DEF RowsAndList
<1>5. r \in DOMAIN Labels /\ Labels[r] = rows[r].label
  BY DEF Labels
<1>6. games' = [games EXCEPT ![user] = @ \ {rows[r].label}]
  BY <1>2, <1>3, <1>4, <1>5
<1>7. Len(rows') = Len(rows) - 1 /\ DOMAIN rows' = 1 .. Len(rows')
  <2>1. rows \in Seq(RowSet(numNewDiv)) /\ rows' \in Seq(RowSet(numNewDiv))
    BY <1>1, <1>2, LabelsType, RemoveAtIs
  <2> QED
    BY <1>2, <2>1, RemoveAtIs
<1> QED
  BY <1>2, <1>6, <1>7

(* A click on a trash can deletes the game its row shows and no other, and *)
(* the row, however many listeners the can has and whatever was added and  *)
(* deleted before: the row is found by its id and the game by its place.   *)
THEOREM SelectorDeletesTheRow == Spec => ClickDeletesItsRow
<1>1. IInv /\ [Next]_vars =>
        [\A r \in DOMAIN rows :
           OneUser /\ InStep /\ rows[r].label # Stray /\ DeleteGame(r) =>
             /\ games' = [games EXCEPT ![user] = @ \ {rows[r].label}]
             /\ Len(rows') = Len(rows) - 1
             /\ \A s \in DOMAIN rows' : rows'[s].id # rows[r].id]_vars
  BY RightGameDeleted
<1> QED
  BY <1>1, InvAlways, PTL DEF Spec, ClickDeletesItsRow
=============================================================================
