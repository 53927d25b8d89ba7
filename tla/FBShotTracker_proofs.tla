------------------------ MODULE FBShotTracker_proofs ------------------------
(***************************************************************************)
(* Theorems about the recording tabs, for every number of tabs, every set  *)
(* of positions and outcomes, every game and a user as hasty as may be.    *)
(***************************************************************************)
EXTENDS FBShotTracker, Pucks_proofs

(* A handler that leaves a list of pucks and dispatches writes keeps the   *)
(* state typed.                                                            *)
LEMMA EditType ==
  ASSUME TypeOK, NEW v \in Tabs, NEW s \in PuckLists, NEW ws \in Seq(Writes),
         Edit(v, s, ws), currpos' \in [Tabs -> Positions \cup {Origin}]
  PROVE  TypeOK'
<1>1. pucks' \in [Tabs -> PuckLists]
  BY DEF TypeOK, Edit
<1>2. sharedQueue' \in Seq(Writes \cup Observes)
  <2>1. ws \in Seq(Writes \cup Observes)
    BY SeqMonotonic
  <2> QED
    BY <2>1, ConcatProperties DEF TypeOK, Edit
<1> QED
  BY <1>1, <1>2 DEF TypeOK, Edit, firebase

(* The events of a round are events. *)
LEMMA RoundType ==
  ASSUME TypeOK, NEW d \in Node
  PROVE  Round(d) \in Seq([view : Tabs, snap : Node])
<1>1. Len(observers) \in Nat /\ \A i \in 1 .. Len(observers) : observers[i] \in Tabs
  BY DEF TypeOK
<1>2. \A i \in 1 .. Len(observers) : Event(observers[i], d) \in [view : Tabs, snap : Node]
  BY <1>1 DEF Event
<1> QED
  BY <1>1, <1>2 DEF Round

(* The app's end leaves the types as they are. *)
LEMMA EndsType ==
  ASSUME TypeOK, Ends
  PROVE  TypeOK'
<1>1. <<>> \in PuckLists
  BY PucksAssumption DEF PuckLists
<1>2. pucks' \in [Tabs -> PuckLists] /\ currpos' \in [Tabs -> Positions \cup {Origin}]
  BY <1>1 DEF Ends
<1>3. data' \in Node /\ running' \in BOOLEAN /\ synced' \in BOOLEAN /\ loaded' \subseteq Tabs
  BY DEF TypeOK, Ends
<1>4. /\ observers' \in Seq(Tabs)
      /\ sharedQueue' \in Seq(Writes \cup Observes)
      /\ mainQueue' \in Seq([view : Tabs, snap : Node])
  BY DEF Ends
<1> QED
  BY <1>2, <1>3, <1>4 DEF TypeOK

LEMMA TypeInit == Init => TypeOK
<1> SUFFICES ASSUME Init PROVE TypeOK
  OBVIOUS
<1>1. <<>> \in PuckLists
  BY PucksAssumption DEF PuckLists
<1>2. data \in Node
  BY NodeOfType, FBShotTrackerAssumption DEF Init
<1> QED
  BY <1>1, <1>2 DEF Init, Fresh, TypeOK

LEMMA UserType ==
  ASSUME TypeOK, NEW v \in Tabs, UserStep(v)
  PROVE  TypeOK'
<1> DEFINE n == Len(pucks[v])
<1>1. pucks[v] \in PuckLists /\ n \in Nat /\ n <= MaxPucks /\ MaxPucks \in Nat
  BY PucksAssumption DEF TypeOK, PuckLists
<1>2. \A i \in 1 .. n : pucks[v][i] \in PuckModel
  BY <1>1 DEF PuckLists
<1>3. currpos[v] \in ButtonZone => currpos[v] \in Positions
  BY FBShotTrackerAssumption DEF TypeOK
<1>4. ASSUME NEW pos \in Positions, NEW type \in ShotTypes, NEW newSeq \in BOOLEAN,
             MakeNewShotEntity(v, pos, type, newSeq),
             currpos' \in [Tabs -> Positions \cup {Origin}]
      PROVE  TypeOK'
  <2> DEFINE p == Puck(pos, type, v, newSeq)
  <2>1. p \in PuckModel
    BY PuckType DEF Tabs
  <2>2. n < MaxPucks /\ Edit(v, Append(pucks[v], p), <<SetValue(n, p)>>)
    BY <1>4 DEF MakeNewShotEntity
  <2>3. Append(pucks[v], p) \in PuckLists
    BY <1>1, <2>1, <2>2, PuckListsAppend
  <2>4. SetValue(n, p) \in Writes
    BY <1>1, <2>1, <2>2 DEF SetValue, Writes, Keys
  <2>5. <<SetValue(n, p)>> \in Seq(Writes)
    BY <2>4
  <2> QED
    BY <1>4, <2>2, <2>3, <2>5, EditType
<1>5. CASE ViewDidLoad(v)
  <2>1. Observe(v) \in Observes
    BY DEF Observe, Observes
  <2> QED
    BY <1>5, <2>1 DEF ViewDidLoad, TypeOK, firebase
<1>6. ASSUME NEW pos \in Positions, TouchOutside(v, pos)
      PROVE  TypeOK'
  BY <1>6 DEF TouchOutside, TypeOK, firebase, queues
<1>7. ASSUME NEW pos \in Positions, TouchPass(v, pos)
      PROVE  TypeOK'
  <2>1. currpos' \in [Tabs -> Positions \cup {Origin}]
    BY <1>7 DEF TouchPass, TypeOK
  <2> QED
    BY <1>4, <1>7, <2>1 DEF TouchPass, ShotTypes, Continuing
<1>8. ASSUME NEW pos \in Positions, TouchSkate(v, pos)
      PROVE  TypeOK'
  <2> DEFINE s == [pucks[v] EXCEPT ![n].shotType = "Skate"]
  <2>1. currpos' \in [Tabs -> Positions \cup {Origin}]
    BY <1>8 DEF TouchSkate, TypeOK
  <2>2. n \in 1 .. n
    BY <1>1, <1>8 DEF TouchSkate, NearLast, PuckLists
  <2>3. [pucks[v][n] EXCEPT !.shotType = "Skate"] \in PuckModel
    BY <1>2, <2>2 DEF PuckModel, ShotTypes, Continuing
  <2>4. s = [pucks[v] EXCEPT ![n] = [pucks[v][n] EXCEPT !.shotType = "Skate"]]
    OBVIOUS
  <2>5. s \in PuckLists
    BY <1>1, <2>2, <2>3, <2>4, ExceptSeq DEF PuckLists
  <2>6. UpdateChildValues(n - 1, "Skate") \in Writes
    BY <1>1, <2>2 DEF UpdateChildValues, Writes, Keys, ShotTypes, Continuing
  <2>7. <<UpdateChildValues(n - 1, "Skate")>> \in Seq(Writes)
    BY <2>6
  <2> QED
    BY <1>8, <2>1, <2>5, <2>7, EditType DEF TouchSkate
<1>9. ASSUME NEW outcome \in Outcomes, ShotButton(v, outcome)
      PROVE  TypeOK'
  <2>1. currpos' \in [Tabs -> Positions \cup {Origin}]
    BY <1>9 DEF ShotButton, TypeOK
  <2> QED
    BY <1>3, <1>4, <1>9, <2>1 DEF ShotButton, ShotTypes
<1>10. CASE SameSequence(v)
  <2> DEFINE net   == Puck(Crease, "Same Sequence", v, FALSE)
             again == Puck(currpos[v], "Same Sequence", v, FALSE)
             s     == SubSeq(pucks[v], 1, n - 1) \o <<net, again>>
             ws    == <<RemoveValue(n - 1), SetValue(n - 1, net), SetValue(n, again)>>
  <2>1. n \in 1 .. MaxPucks - 1 /\ currpos[v] \in Positions /\ Edit(v, s, ws) /\ currpos' = currpos
    BY <1>3, <1>10 DEF SameSequence
  <2>2. net \in PuckModel /\ again \in PuckModel
    BY <2>1, PuckType, FBShotTrackerAssumption DEF ShotTypes, Continuing, Tabs
  <2> HIDE DEF net, again
  <2>0. n - 1 \in 0 .. n /\ n - 1 \in Nat /\ n + 1 <= MaxPucks /\ n + 1 \in Nat
    <3> HIDE DEF n
    <3> QED
      BY <1>1, <2>1
  <2>3. /\ SubSeq(pucks[v], 1, n - 1) \in Seq(PuckModel)
        /\ Len(SubSeq(pucks[v], 1, n - 1)) = n - 1
    BY <1>1, <2>0, PuckListsSub DEF PuckLists
  <2>4. s \in Seq(PuckModel) /\ Len(s) = n + 1
    <3>1. <<net, again>> \in Seq(PuckModel) /\ Len(<<net, again>>) = 2
      BY <2>2
    <3>2. s \in Seq(PuckModel) /\ Len(s) = (n - 1) + 2
      BY <2>3, <3>1, ConcatProperties
    <3> QED
      BY <1>1, <3>2
  <2>5. s \in PuckLists
    BY <2>0, <2>4 DEF PuckLists
  <2>6. n - 1 \in Keys /\ n \in Keys
    <3> HIDE DEF n
    <3> QED
      BY <1>1, <2>1 DEF Keys
  <2>7. RemoveValue(n - 1) \in Writes /\ SetValue(n - 1, net) \in Writes /\ SetValue(n, again) \in Writes
    BY <2>2, <2>6 DEF RemoveValue, SetValue, Writes
  <2>8. ws \in Seq(Writes)
    <3> DEFINE a == RemoveValue(n - 1)
               b == SetValue(n - 1, net)
               c == SetValue(n, again)
    <3>1. a \in Writes /\ b \in Writes /\ c \in Writes
      BY <2>7
    <3> HIDE DEF a, b, c
    <3>2. <<a, b, c>> \in Seq(Writes)
      BY <3>1
    <3> QED
      BY <3>2 DEF a, b, c
  <2> HIDE DEF s, ws
  <2> QED
    BY <2>1, <2>5, <2>8, EditType DEF TypeOK
<1>11. CASE SameSequenceTraps(v)
  BY <1>11, EndsType DEF SameSequenceTraps
<1>12. CASE UndoShot(v)
  <2>1. n > 0 /\ Edit(v, SubSeq(pucks[v], 1, n - 1), <<RemoveValue(n - 1)>>) /\ currpos' = currpos
    BY <1>12 DEF UndoShot
  <2>2. SubSeq(pucks[v], 1, n - 1) \in PuckLists
    BY <1>1, <2>1, PuckListsSub
  <2>3. RemoveValue(n - 1) \in Writes
    BY <1>1, <2>1 DEF RemoveValue, Writes, Keys
  <2>4. <<RemoveValue(n - 1)>> \in Seq(Writes)
    BY <2>3
  <2> QED
    BY <2>1, <2>2, <2>4, EditType DEF TypeOK
<1>13. CASE DeadSequence(v)
  <2>1. PICK keep \in 1 .. n :
           /\ Edit(v, SubSeq(pucks[v], 1, keep), [i \in 1 .. n - keep |-> RemoveValue(n - i)])
           /\ currpos' = currpos
    BY <1>13 DEF DeadSequence
  <2>2. SubSeq(pucks[v], 1, keep) \in PuckLists
    BY <1>1, <2>1, PuckListsSub
  <2>3. \A i \in 1 .. n - keep : RemoveValue(n - i) \in Writes
    BY <1>1, <2>1 DEF RemoveValue, Writes, Keys
  <2>4. n - keep \in Nat
    BY <1>1, <2>1
  <2>5. [i \in 1 .. n - keep |-> RemoveValue(n - i)] \in Seq(Writes)
    BY <2>3, <2>4
  <2> QED
    BY <2>1, <2>2, <2>5, EditType DEF TypeOK
<1> QED
  BY <1>5, <1>6, <1>7, <1>8, <1>9, <1>10, <1>11, <1>12, <1>13 DEF UserStep

LEMMA QueueType ==
  ASSUME TypeOK, QueueStep \/ ServerAnswers \/ Terminate \/ Relaunch
  PROVE  TypeOK'
<1>1. CASE RunObserve
  <2>1. Head(sharedQueue) \in Writes \cup Observes /\ Tail(sharedQueue) \in Seq(Writes \cup Observes)
    BY <1>1, HeadTailProperties DEF RunObserve, TypeOK
  <2>2. Head(sharedQueue).view \in Tabs
    BY <1>1, <2>1 DEF RunObserve, Writes, Observes
  <2>3. Event(Head(sharedQueue).view, data) \in [view : Tabs, snap : Node]
    BY <2>2 DEF Event, TypeOK
  <2> DEFINE v == Head(sharedQueue).view
             e == Event(v, data)
  <2>4. observers' = Append(observers, v) /\ observers' \in Seq(Tabs)
    BY <1>1, <2>2 DEF RunObserve, TypeOK
  <2>5. mainQueue' \in Seq([view : Tabs, snap : Node])
    <3>1. mainQueue' = Append(mainQueue, e) \/ mainQueue' = mainQueue
      BY <1>1 DEF RunObserve
    <3>2. e \in [view : Tabs, snap : Node] /\ mainQueue \in Seq([view : Tabs, snap : Node])
      BY <2>3 DEF TypeOK
    <3> HIDE DEF e
    <3>3. Append(mainQueue, e) \in Seq([view : Tabs, snap : Node])
      <4> DEFINE S == [view : Tabs, snap : Node]
      <4>1. e \in S /\ mainQueue \in Seq(S)
        BY <3>2
      <4> HIDE DEF S
      <4>2. Append(mainQueue, e) \in Seq(S)
        BY <4>1
      <4> QED
        BY <4>2 DEF S
    <3> QED
      BY <3>1, <3>2, <3>3
  <2> QED
    BY <1>1, <2>1, <2>4, <2>5 DEF RunObserve, TypeOK, local
<1>2. CASE RunWrite
  <2>1. Head(sharedQueue) \in Writes \cup Observes /\ Tail(sharedQueue) \in Seq(Writes \cup Observes)
    BY <1>2, HeadTailProperties DEF RunWrite, TypeOK
  <2>2. Head(sharedQueue) \in Writes
    BY <1>2, <2>1 DEF RunWrite, Observes
  <2>3. data' \in Node
    BY <1>2, <2>2, ApplyType DEF RunWrite, TypeOK
  <2>4. mainQueue' \in Seq([view : Tabs, snap : Node])
    BY <1>2, <2>3, RoundType, ConcatProperties DEF RunWrite, TypeOK
  <2> QED
    BY <1>2, <2>1, <2>3, <2>4 DEF RunWrite, TypeOK, local
<1>3. CASE DeliverEvent
  <2>1. /\ Head(mainQueue) \in [view : Tabs, snap : Node]
        /\ Tail(mainQueue) \in Seq([view : Tabs, snap : Node])
    BY <1>3, HeadTailProperties DEF DeliverEvent, TypeOK
  <2>2. Children(Head(mainQueue).snap) \in PuckLists
    BY <1>3, <2>1, ChildrenType DEF DeliverEvent
  <2>3. pucks' \in [Tabs -> PuckLists]
    BY <1>3, <2>1, <2>2 DEF DeliverEvent, TypeOK
  <2> QED
    BY <1>3, <2>1, <2>3 DEF DeliverEvent, TypeOK, firebase
<1>4. CASE CallbackTraps
  BY <1>4, EndsType DEF CallbackTraps
<1>5. CASE ServerAnswers
  <2>1. Round(data) \in Seq([view : Tabs, snap : Node])
    BY RoundType DEF TypeOK
  <2>2. mainQueue' \in Seq([view : Tabs, snap : Node])
    BY <1>5, <2>1, ConcatProperties DEF ServerAnswers, TypeOK
  <2> QED
    BY <1>5, <2>2 DEF ServerAnswers, TypeOK, local
<1>6. CASE Terminate
  BY <1>6, EndsType DEF Terminate
<1>7. CASE Relaunch
  BY <1>7 DEF Relaunch, TypeOK, local, queues
<1> QED
  BY <1>1, <1>2, <1>3, <1>4, <1>5, <1>6, <1>7 DEF QueueStep

LEMMA TypeStutter ==
  ASSUME TypeOK, UNCHANGED vars
  PROVE  TypeOK'
BY DEF TypeOK, vars, local, firebase, queues

(* The variables keep their types: every key a handler computes from a     *)
(* list is a key of the node, and every list a callback builds is a list   *)
(* of whole pucks.                                                         *)
THEOREM TypeCorrect == Spec => []TypeOK
<1>1. TypeOK /\ [Next]_vars => TypeOK'
  BY UserType, QueueType, TypeStutter DEF Next
<1> QED
  BY <1>1, TypeInit, PTL DEF Spec

----------------------------------------------------------------------------
(* The tabs agree with the game: NoTabLeftBehind is an inductive invariant *)
(* of the recording tabs, whatever the user, the server and the system do. *)
(*                                                                         *)
(* Agreement alone is not inductive: it says nothing while work is queued. *)
(* NoTabLeftBehind tells for every tab what work is still going to bring   *)
(* it up to date: an event that is on its way, or a write that is going to *)
(* change the node and so to raise one.                                    *)

Write(w) == w.op # "observe"

(* More work at the end of the shared queue does not make it ineffective. *)
LEMMA EffectiveStays ==
  ASSUME TypeOK, NEW ws \in Seq(Writes \cup Observes),
         sharedQueue' = sharedQueue \o ws, data' = data, Effective
  PROVE  Effective'
<1>1. PICK i \in DOMAIN sharedQueue :
         sharedQueue[i].op # "observe" /\ Apply(data, sharedQueue[i]) # data
  BY DEF Effective
<1>2. i \in DOMAIN sharedQueue' /\ sharedQueue'[i] = sharedQueue[i]
  BY ConcatProperties DEF TypeOK
<1> QED
  BY <1>1, <1>2 DEF Effective

LEMMA EffectiveAdded ==
  ASSUME TypeOK, NEW ws \in Seq(Writes), NEW i \in 1 .. Len(ws),
         sharedQueue' = sharedQueue \o ws, data' = data,
         Apply(data, ws[i]) # data
  PROVE  Effective'
<1> DEFINE k == Len(sharedQueue) + i
<1>1. ws \in Seq(Writes \cup Observes)
  BY SeqMonotonic
<1>2. k \in DOMAIN sharedQueue' /\ sharedQueue'[k] = ws[i]
  BY <1>1, ConcatProperties DEF TypeOK
<1>3. ws[i].op # "observe"
  <2>1. ws[i] \in Writes
    OBVIOUS
  <2> QED
    BY <2>1 DEF Writes
<1> QED
  BY <1>2, <1>3 DEF Effective

(* Events do not change while the queue, the node and v's list do not. *)
LEMMA SameEvents ==
  ASSUME NEW u, mainQueue' = mainQueue, data' = data
  PROVE  (HasEvent(u)' <=> HasEvent(u)) /\ (LastEventFresh(u)' <=> LastEventFresh(u))
BY DEF HasEvent, LastEventFresh

LEMMA SameShows ==
  ASSUME NEW u, data' = data, pucks'[u] = pucks[u]
  PROVE  Shows(u)' <=> Shows(u)
BY DEF Shows, WellFormed, Whole, Contiguous, Present, Children

(* A handler keeps the tabs on track if, from a list that is the node's,   *)
(* it dispatches a write that changes the node or leaves the list alone.   *)
LEMMA EditKeeps ==
  ASSUME TypeOK, NoTabLeftBehind, NEW v \in Tabs, NEW s, NEW ws \in Seq(Writes),
         Edit(v, s, ws),
         WellFormed(data) /\ pucks[v] = Children(data) =>
            s = pucks[v] \/ \E i \in 1 .. Len(ws) : Apply(data, ws[i]) # data
  PROVE  NoTabLeftBehind'
<1> SUFFICES ASSUME running', synced', NEW u \in Observed'
             PROVE  LastEventFresh(u)' /\ (HasEvent(u)' \/ Effective' \/ Shows(u)')
  BY DEF NoTabLeftBehind
<1>1. /\ running /\ synced /\ u \in Observed
      /\ mainQueue' = mainQueue /\ data' = data
      /\ pucks' = [pucks EXCEPT ![v] = s]
      /\ sharedQueue' = sharedQueue \o ws
  BY DEF Edit, firebase, Observed
<1>2. LastEventFresh(u) /\ (HasEvent(u) \/ Effective \/ Shows(u))
  BY <1>1 DEF NoTabLeftBehind
<1>3. LastEventFresh(u)' /\ (HasEvent(u) => HasEvent(u)')
  BY <1>1, <1>2, SameEvents
<1>4. Effective => Effective'
  <2>1. ws \in Seq(Writes \cup Observes)
    BY SeqMonotonic
  <2> QED
    BY <1>1, <2>1, EffectiveStays
<1>5. CASE Shows(u)
  <2>1. CASE u # v
    <3>1. pucks'[u] = pucks[u]
      BY <1>1, <2>1 DEF TypeOK
    <3> QED
      BY <1>1, <1>3, <1>5, <3>1, SameShows
  <2>2. CASE u = v
    <3>1. CASE Present(data) = {} \/ ~WellFormed(data)
      BY <1>1, <1>3, <3>1 DEF Shows, WellFormed, Whole, Contiguous, Present
    <3>2. CASE WellFormed(data) /\ pucks[v] = Children(data)
      <4>1. CASE s = pucks[v]
        <5>1. pucks'[u] = pucks[u]
          BY <1>1, <2>2, <4>1 DEF TypeOK
        <5> QED
          BY <1>1, <1>3, <1>5, <5>1, SameShows
      <4>2. CASE \E i \in 1 .. Len(ws) : Apply(data, ws[i]) # data
        BY <1>1, <1>3, <4>2, EffectiveAdded
      <4> QED
        BY <3>2, <4>1, <4>2
    <3> QED
      BY <1>5, <2>2, <3>1, <3>2 DEF Shows
  <2> QED
    BY <2>1, <2>2
<1> QED
  BY <1>2, <1>3, <1>4, <1>5

(* The parts of the inductive invariant. *)
DownIsClean == ~running => observers = <<>>

IInv == TypeOK /\ NoTabLeftBehind /\ DownIsClean

LEMMA MakeNewKeeps ==
  ASSUME TypeOK, NoTabLeftBehind, NEW v \in Tabs, NEW pos \in Positions,
         NEW type \in ShotTypes, NEW newSeq \in BOOLEAN,
         MakeNewShotEntity(v, pos, type, newSeq)
  PROVE  NoTabLeftBehind'
<1> DEFINE n == Len(pucks[v])
           p == Puck(pos, type, v, newSeq)
           s == Append(pucks[v], p)
           ws == <<SetValue(n, p)>>
<1>1. n < MaxPucks /\ Edit(v, s, ws)
  BY DEF MakeNewShotEntity
<1>2. n \in Keys
  BY <1>1, PucksAssumption DEF TypeOK, PuckLists, Keys
<1>3. p \in PuckModel
  BY PuckType DEF Tabs
<1>4. SetValue(n, p) \in Writes
  BY <1>2, <1>3 DEF SetValue, Writes
<1>5. ws \in Seq(Writes) /\ Len(ws) = 1 /\ ws[1] = SetValue(n, p)
  BY <1>4
<1>6. ASSUME WellFormed(data), pucks[v] = Children(data)
      PROVE  Apply(data, ws[1]) # data
  <2>1. n \notin Present(data)
    BY <1>6, ListOfNode DEF TypeOK
  <2> QED
    BY <1>2, <1>3, <1>5, <2>1, SetChanges DEF TypeOK
<1> HIDE DEF s, ws
<1> QED
  BY <1>1, <1>5, <1>6, EditKeeps

LEMMA UserKeeps ==
  ASSUME TypeOK, NoTabLeftBehind, NEW v \in Tabs, UserStep(v)
  PROVE  NoTabLeftBehind'
<1> DEFINE n == Len(pucks[v])
<1>1. pucks[v] \in Seq(PuckModel) /\ n \in Nat /\ n <= MaxPucks /\ MaxPucks \in Nat
  BY PucksAssumption DEF TypeOK, PuckLists
<1>2. ASSUME WellFormed(data), pucks[v] = Children(data), n > 0
      PROVE  /\ n - 1 \in Present(data)
             /\ data[n - 1] = pucks[v][n]
             /\ data[n - 1] \in PuckModel
  <2>1. n - 1 \in 0 .. n - 1 /\ n \in 1 .. n
    BY <1>1, <1>2
  <2> QED
    BY <1>2, <2>1, ListOfNode DEF TypeOK
<1>3. ASSUME WellFormed(data), pucks[v] = Children(data), n > 0
      PROVE  Apply(data, RemoveValue(n - 1)) # data
  BY <1>2, <1>3, RemoveChanges DEF TypeOK
<1>4. ASSUME n > 0
      PROVE  RemoveValue(n - 1) \in Writes
  BY <1>1, <1>4 DEF RemoveValue, Writes, Keys
<1>5. CASE ViewDidLoad(v)
  <2> SUFFICES ASSUME running', synced', NEW u \in Observed'
               PROVE  LastEventFresh(u)' /\ (HasEvent(u)' \/ Effective' \/ Shows(u)')
    BY DEF NoTabLeftBehind
  <2>1. /\ running /\ synced /\ u \in Observed /\ data' = data
        /\ mainQueue' = mainQueue /\ pucks' = pucks
    BY <1>5 DEF ViewDidLoad, firebase, Observed
  <2>2. Effective => Effective'
    <3>1. Observe(v) \in Observes
      BY DEF Observe, Observes
    <3>2. <<Observe(v)>> \in Seq(Writes \cup Observes)
      BY <3>1
    <3>3. sharedQueue' = sharedQueue \o <<Observe(v)>>
      <4>1. sharedQueue' = Append(sharedQueue, Observe(v))
        BY <1>5 DEF ViewDidLoad
      <4>2. Append(sharedQueue, Observe(v)) = sharedQueue \o <<Observe(v)>>
        BY <3>1, AppendIsConcat DEF TypeOK
      <4> QED
        BY <4>1, <4>2
    <3> QED
      BY <2>1, <3>2, <3>3, EffectiveStays
  <2> QED
    BY <2>1, <2>2, SameEvents, SameShows DEF NoTabLeftBehind
<1>6. ASSUME NEW pos \in Positions, TouchOutside(v, pos)
      PROVE  NoTabLeftBehind'
  <2> SUFFICES ASSUME running', synced', NEW u \in Observed'
               PROVE  LastEventFresh(u)' /\ (HasEvent(u)' \/ Effective' \/ Shows(u)')
    BY DEF NoTabLeftBehind
  <2>1. /\ running /\ synced /\ u \in Observed /\ data' = data
        /\ mainQueue' = mainQueue /\ pucks' = pucks /\ sharedQueue' = sharedQueue
    BY <1>6 DEF TouchOutside, firebase, queues, Observed
  <2>2. Effective => Effective'
    BY <2>1 DEF Effective
  <2> QED
    BY <2>1, <2>2, SameEvents, SameShows DEF NoTabLeftBehind
<1>7. ASSUME NEW pos \in Positions, TouchPass(v, pos)
      PROVE  NoTabLeftBehind'
  BY <1>7, MakeNewKeeps DEF TouchPass, ShotTypes, Continuing
<1>8. ASSUME NEW pos \in Positions, TouchSkate(v, pos)
      PROVE  NoTabLeftBehind'
  <2> DEFINE s == [pucks[v] EXCEPT ![n].shotType = "Skate"]
             ws == <<UpdateChildValues(n - 1, "Skate")>>
  <2>1. Edit(v, s, ws)
    BY <1>8 DEF TouchSkate
  <2>2. n > 0 /\ n \in 1 .. n
    BY <1>1, <1>8 DEF TouchSkate, NearLast
  <2>3. UpdateChildValues(n - 1, "Skate") \in Writes
    BY <1>1, <2>2 DEF UpdateChildValues, Writes, Keys, ShotTypes, Continuing
  <2>4. ws \in Seq(Writes) /\ Len(ws) = 1 /\ ws[1] = UpdateChildValues(n - 1, "Skate")
    BY <2>3
  <2>5. ASSUME WellFormed(data), pucks[v] = Children(data)
        PROVE  s = pucks[v] \/ Apply(data, ws[1]) # data
    <3>1. CASE pucks[v][n].shotType = "Skate"
      <4>1. pucks[v][n] \in PuckModel
        BY <1>1, <2>2
      <4>2. [pucks[v][n] EXCEPT !.shotType = "Skate"] = pucks[v][n]
        BY <3>1, <4>1 DEF PuckModel
      <4> QED
        BY <1>1, <4>2
    <3>2. CASE pucks[v][n].shotType # "Skate"
      BY <1>2, <2>2, <2>4, <2>5, <3>2, UpdateChanges DEF TypeOK
    <3> QED
      BY <3>1, <3>2
  <2> HIDE DEF s, ws
  <2> QED
    BY <2>1, <2>4, <2>5, EditKeeps
<1>9. ASSUME NEW outcome \in Outcomes, ShotButton(v, outcome)
      PROVE  NoTabLeftBehind'
  <2>1. currpos[v] \in Positions
    BY <1>9, FBShotTrackerAssumption DEF ShotButton
  <2> QED
    BY <1>9, <2>1, MakeNewKeeps DEF ShotButton, ShotTypes
<1>10. CASE SameSequence(v)
  <2> DEFINE net   == Puck(Crease, "Same Sequence", v, FALSE)
             again == Puck(currpos[v], "Same Sequence", v, FALSE)
             s     == SubSeq(pucks[v], 1, n - 1) \o <<net, again>>
             a     == RemoveValue(n - 1)
             b     == SetValue(n - 1, net)
             c     == SetValue(n, again)
             ws    == <<a, b, c>>
  <2>1. n \in 1 .. MaxPucks - 1 /\ currpos[v] \in Positions /\ Edit(v, s, ws)
    BY <1>10, FBShotTrackerAssumption DEF SameSequence
  <2>2. net \in PuckModel /\ again \in PuckModel
    BY <2>1, PuckType, FBShotTrackerAssumption DEF ShotTypes, Continuing, Tabs
  <2>3. n > 0 /\ n - 1 \in Keys /\ n \in Keys
    <3>1. n \in Nat /\ MaxPucks \in Nat /\ n \in 1 .. MaxPucks - 1
      BY <1>1, <2>1
    <3> HIDE DEF n
    <3> QED
      BY <3>1 DEF Keys
  <2>4. a \in Writes /\ b \in Writes /\ c \in Writes
    <3> HIDE DEF n, net, again
    <3> QED
      BY <2>2, <2>3 DEF RemoveValue, SetValue, Writes
  <2>5. ASSUME WellFormed(data), pucks[v] = Children(data)
        PROVE  Apply(data, a) # data
    BY <1>3, <2>3, <2>5
  <2> HIDE DEF s, a, b, c
  <2>6. ws \in Seq(Writes) /\ Len(ws) = 3 /\ ws[1] = a
    BY <2>4
  <2> HIDE DEF ws
  <2> QED
    BY <2>1, <2>5, <2>6, EditKeeps
<1>11. CASE SameSequenceTraps(v)
  BY <1>11 DEF SameSequenceTraps, Ends, NoTabLeftBehind
<1>12. CASE UndoShot(v)
  <2> DEFINE s == SubSeq(pucks[v], 1, n - 1)
             ws == <<RemoveValue(n - 1)>>
  <2>1. n > 0 /\ Edit(v, s, ws)
    BY <1>12 DEF UndoShot
  <2>2. ws \in Seq(Writes) /\ 1 \in 1 .. Len(ws) /\ ws[1] = RemoveValue(n - 1)
    BY <1>4, <2>1
  <2>3. ASSUME WellFormed(data), pucks[v] = Children(data)
        PROVE  \E i \in 1 .. Len(ws) : Apply(data, ws[i]) # data
    BY <1>3, <2>1, <2>2, <2>3
  <2>4. Edit(v, s, ws)
    BY <2>1
  <2> HIDE DEF s, ws
  <2> QED
    BY <2>2, <2>3, <2>4, EditKeeps
<1>13. CASE DeadSequence(v)
  <2>1. PICK keep \in 1 .. n :
           Edit(v, SubSeq(pucks[v], 1, keep), [i \in 1 .. n - keep |-> RemoveValue(n - i)])
    BY <1>13 DEF DeadSequence
  <2> DEFINE s == SubSeq(pucks[v], 1, keep)
             ws == [i \in 1 .. n - keep |-> RemoveValue(n - i)]
  <2>2. keep \in Nat /\ 1 <= keep /\ keep <= n /\ n - keep \in Nat
    BY <1>1, <2>1
  <2>3. \A i \in 1 .. n - keep : RemoveValue(n - i) \in Writes
    BY <1>1, <2>2 DEF RemoveValue, Writes, Keys
  <2>4. ws \in Seq(Writes) /\ Len(ws) = n - keep
    BY <2>2, <2>3
  <2>5. ASSUME WellFormed(data), pucks[v] = Children(data)
        PROVE  s = pucks[v] \/ \E i \in 1 .. Len(ws) : Apply(data, ws[i]) # data
    <3>1. CASE keep = n
      BY <1>1, <3>1, SubSeqFull
    <3>2. CASE keep # n
      <4>1. 1 \in 1 .. Len(ws) /\ ws[1] = RemoveValue(n - 1) /\ n > 0
        BY <1>1, <2>2, <2>4, <3>2
      <4> HIDE DEF ws
      <4> QED
        BY <1>3, <2>5, <4>1
    <3> QED
      BY <3>1, <3>2
  <2> HIDE DEF s, ws
  <2> QED
    BY <2>1, <2>4, <2>5, EditKeeps DEF s, ws
<1> QED
  BY <1>5, <1>6, <1>7, <1>8, <1>9, <1>10, <1>11, <1>12, <1>13 DEF UserStep

(* A round of events reaches every tab that observes the node. *)
LEMMA RoundReaches ==
  ASSUME TypeOK, NEW d \in Node, NEW u \in Observed
  PROVE  LET q == mainQueue \o Round(d) IN
         /\ \E i \in DOMAIN q : q[i].view = u
         /\ \A i \in DOMAIN q :
               (/\ q[i].view = u
                /\ \A j \in DOMAIN q : j > i => q[j].view # u)
               => q[i].snap = d
<1> DEFINE q == mainQueue \o Round(d)
           E == [view : Tabs, snap : Node]
           m == Len(mainQueue)
           n == Len(observers)
<1>1. m \in Nat /\ n \in Nat /\ mainQueue \in Seq(E) /\ Round(d) \in Seq(E) /\ Len(Round(d)) = n
  BY RoundType DEF TypeOK, Round
<1>2. /\ q \in Seq(E) /\ Len(q) = m + n
      /\ \A i \in 1 .. m + n : q[i] = IF i <= m THEN mainQueue[i] ELSE Round(d)[i - m]
  <2> DEFINE r == Round(d)
  <2>1. mainQueue \in Seq(E) /\ r \in Seq(E) /\ Len(r) = n /\ q = mainQueue \o r
    BY <1>1
  <2> HIDE DEF E, r
  <2>2. /\ mainQueue \o r \in Seq(E)
        /\ Len(mainQueue \o r) = Len(mainQueue) + Len(r)
        /\ \A i \in 1 .. Len(mainQueue) + Len(r) : (mainQueue \o r)[i] =
               IF i <= Len(mainQueue) THEN mainQueue[i] ELSE r[i - Len(mainQueue)]
    BY <2>1, ConcatProperties
  <2> QED
    BY <2>1, <2>2 DEF r
<1>3. DOMAIN q = 1 .. m + n
  BY <1>1, <1>2
<1>4. \A i \in 1 .. n : q[m + i] = Event(observers[i], d)
  <2> SUFFICES ASSUME NEW i \in 1 .. n PROVE q[m + i] = Event(observers[i], d)
    OBVIOUS
  <2>1. m + i \in 1 .. m + n /\ ~ (m + i <= m) /\ (m + i) - m = i
    BY <1>1
  <2>2. q[m + i] = Round(d)[i]
    <3> HIDE DEF m, n
    <3> QED
      BY <1>2, <2>1
  <2> QED
    BY <2>2 DEF Round
<1>5. PICK o \in 1 .. n : observers[o] = u
  BY DEF Observed, TypeOK
<1>6. m + o \in DOMAIN q /\ q[m + o].view = u
  <2>1. m + o \in 1 .. m + n
    BY <1>1
  <2>2. q[m + o] = Event(u, d)
    BY <1>4, <1>5
  <2>3. Event(u, d).view = u
    BY DEF Event
  <2> QED
    BY <1>3, <2>1, <2>2, <2>3
<1>7. ASSUME NEW i \in DOMAIN q, q[i].view = u,
             \A j \in DOMAIN q : j > i => q[j].view # u
      PROVE  q[i].snap = d
  <2>1. i \in 1 .. m + n /\ ~ (m + o > i)
    BY <1>3, <1>6, <1>7
  <2>2. i - m \in 1 .. n /\ m + (i - m) = i
    <3> HIDE DEF m, n
    <3> QED
      BY <1>1, <2>1
  <2>3. q[i] = Event(observers[i - m], d)
    <3> HIDE DEF m, n
    <3> QED
      BY <1>4, <2>2
  <2> QED
    BY <2>3 DEF Event
<1> QED
  BY <1>6, <1>7

(* The first piece of work leaves the shared queue without changing the    *)
(* node: what else was effective still is.                                 *)
LEMMA EffectiveTail ==
  ASSUME TypeOK, sharedQueue # <<>>, sharedQueue' = Tail(sharedQueue),
         data' = data, Effective,
         Head(sharedQueue).op = "observe" \/ Apply(data, Head(sharedQueue)) = data
  PROVE  Effective'
<1> DEFINE W == Writes \cup Observes
<1>1. sharedQueue \in Seq(W)
  BY DEF TypeOK
<1>2. PICK i \in 1 .. Len(sharedQueue) :
         sharedQueue[i].op # "observe" /\ Apply(data, sharedQueue[i]) # data
  BY <1>1 DEF Effective
<1>3. /\ Tail(sharedQueue) \in Seq(W)
      /\ Len(Tail(sharedQueue)) = Len(sharedQueue) - 1
      /\ \A j \in 1 .. Len(Tail(sharedQueue)) : Tail(sharedQueue)[j] = sharedQueue[j + 1]
  <2> HIDE DEF W
  <2> QED
    BY <1>1, HeadTailProperties
<1>4. i # 1
  BY <1>1, <1>2
<1>5. i - 1 \in 1 .. Len(Tail(sharedQueue)) /\ (i - 1) + 1 = i /\ Len(sharedQueue) \in Nat
  BY <1>1, <1>2, <1>3, <1>4
<1>6. i - 1 \in DOMAIN sharedQueue' /\ sharedQueue'[i - 1] = sharedQueue[i]
  BY <1>3, <1>5
<1> QED
  BY <1>2, <1>6 DEF Effective

LEMMA RunObserveKeeps ==
  ASSUME TypeOK, NoTabLeftBehind, RunObserve
  PROVE  NoTabLeftBehind'
<1> DEFINE v == Head(sharedQueue).view
           E == [view : Tabs, snap : Node]
           e == Event(v, data)
<1> SUFFICES ASSUME running', synced', NEW u \in Observed'
             PROVE  LastEventFresh(u)' /\ (HasEvent(u)' \/ Effective' \/ Shows(u)')
  BY DEF NoTabLeftBehind
<1>1. /\ running /\ synced /\ data' = data /\ pucks' = pucks
      /\ observers' = Append(observers, v)
      /\ mainQueue' = Append(mainQueue, e)
      /\ sharedQueue # <<>> /\ sharedQueue' = Tail(sharedQueue)
      /\ Head(sharedQueue).op = "observe"
  BY DEF RunObserve, local
<1>2. mainQueue \in Seq(E) /\ Len(mainQueue) \in Nat /\ observers \in Seq(Tabs)
  BY DEF TypeOK
<1>3. e.view = v /\ e.snap = data
  BY DEF Event
<1>4. /\ DOMAIN mainQueue' = 1 .. Len(mainQueue) + 1
      /\ \A i \in 1 .. Len(mainQueue) : mainQueue'[i] = mainQueue[i]
      /\ mainQueue'[Len(mainQueue) + 1] = e
  <2> HIDE DEF E, e
  <2> QED
    BY <1>1, <1>2
<1>5. DOMAIN mainQueue = 1 .. Len(mainQueue)
  BY <1>2
<1>6. CASE u = v
  <2>1. HasEvent(u)'
    BY <1>2, <1>3, <1>4, <1>6 DEF HasEvent
  <2>2. ASSUME NEW i \in DOMAIN mainQueue',
               \A j \in DOMAIN mainQueue' : j > i => mainQueue'[j].view # u
        PROVE  mainQueue'[i].snap = data
    <3>1. i = Len(mainQueue) + 1
      BY <1>2, <1>3, <1>4, <1>6, <2>2
    <3> QED
      BY <1>3, <1>4, <3>1
  <2>3. LastEventFresh(u)'
    BY <1>1, <2>2 DEF LastEventFresh
  <2> QED
    BY <2>1, <2>3
<1>7. CASE u # v
  <2>1. u \in Observed
    BY <1>1, <1>2, <1>7 DEF Observed
  <2>2. LastEventFresh(u) /\ (HasEvent(u) \/ Effective \/ Shows(u))
    BY <1>1, <2>1 DEF NoTabLeftBehind
  <2>3. HasEvent(u) => HasEvent(u)'
    BY <1>2, <1>4, <1>5 DEF HasEvent
  <2>4. ASSUME NEW i \in DOMAIN mainQueue', mainQueue'[i].view = u,
               \A j \in DOMAIN mainQueue' : j > i => mainQueue'[j].view # u
        PROVE  mainQueue'[i].snap = data
    <3>1. i \in 1 .. Len(mainQueue)
      BY <1>2, <1>3, <1>4, <1>7, <2>4
    <3>2. mainQueue[i].view = u /\ \A j \in DOMAIN mainQueue : j > i => mainQueue[j].view # u
      BY <1>2, <1>4, <1>5, <2>4, <3>1
    <3> QED
      BY <1>4, <1>5, <2>2, <3>1, <3>2 DEF LastEventFresh
  <2>5. LastEventFresh(u)'
    BY <1>1, <2>4 DEF LastEventFresh
  <2>6. Effective => Effective'
    BY <1>1, EffectiveTail
  <2> QED
    BY <1>1, <2>2, <2>3, <2>5, <2>6, SameShows
<1> QED
  BY <1>6, <1>7

LEMMA RoundIsHeard ==
  ASSUME TypeOK, NEW d \in Node, NEW u \in Observed,
         mainQueue' = mainQueue \o Round(d), data' = d
  PROVE  HasEvent(u)' /\ LastEventFresh(u)'
<1> DEFINE q == mainQueue \o Round(d)
<1>1. /\ \E i \in DOMAIN q : q[i].view = u
      /\ \A i \in DOMAIN q :
            (/\ q[i].view = u
             /\ \A j \in DOMAIN q : j > i => q[j].view # u)
            => q[i].snap = d
  BY RoundReaches
<1> HIDE DEF q
<1>2. mainQueue' = q
  BY DEF q
<1>3. \E i \in DOMAIN mainQueue' : mainQueue'[i].view = u
  BY <1>1, <1>2
<1>4. \A i \in DOMAIN mainQueue' :
         (/\ mainQueue'[i].view = u
          /\ \A j \in DOMAIN mainQueue' : j > i => mainQueue'[j].view # u)
         => mainQueue'[i].snap = d
  BY <1>1, <1>2
<1> QED
  BY <1>3, <1>4 DEF HasEvent, LastEventFresh

LEMMA RunWriteKeeps ==
  ASSUME TypeOK, NoTabLeftBehind, RunWrite
  PROVE  NoTabLeftBehind'
<1> SUFFICES ASSUME running', synced', NEW u \in Observed'
             PROVE  LastEventFresh(u)' /\ (HasEvent(u)' \/ Effective' \/ Shows(u)')
  BY DEF NoTabLeftBehind
<1>1. /\ running /\ synced /\ u \in Observed /\ pucks' = pucks
      /\ sharedQueue # <<>> /\ sharedQueue' = Tail(sharedQueue)
      /\ data' = Apply(data, Head(sharedQueue))
  BY DEF RunWrite, local, Observed
<1>2. CASE data' = data
  <2>1. mainQueue' = mainQueue
    BY <1>2 DEF RunWrite
  <2>2. Effective => Effective'
    BY <1>1, <1>2, EffectiveTail
  <2> QED
    BY <1>1, <1>2, <2>1, <2>2, SameEvents, SameShows DEF NoTabLeftBehind
<1>3. CASE data' # data
  <2>1. mainQueue' = mainQueue \o Round(data')
    BY <1>1, <1>3 DEF RunWrite
  <2>2. data' \in Node
    <3>1. Head(sharedQueue) \in Writes \cup Observes
      BY <1>1, HeadTailProperties DEF TypeOK
    <3>2. Head(sharedQueue) \in Writes
      BY <3>1 DEF RunWrite, Observes
    <3> QED
      BY <1>1, <3>2, ApplyType DEF TypeOK
  <2>3. PICK d \in Node : d = data'
    BY <2>2
  <2>4. mainQueue' = mainQueue \o Round(d)
    BY <2>1, <2>3
  <2> QED
    BY <1>1, <2>3, <2>4, RoundIsHeard
<1> QED
  BY <1>2, <1>3

LEMMA ServerAnswersKeeps ==
  ASSUME TypeOK, NoTabLeftBehind, ServerAnswers
  PROVE  NoTabLeftBehind'
<1> SUFFICES ASSUME running', synced', NEW u \in Observed'
             PROVE  LastEventFresh(u)' /\ HasEvent(u)'
  BY DEF NoTabLeftBehind
<1>1. u \in Observed /\ data' = data /\ mainQueue' = mainQueue \o Round(data)
  BY DEF ServerAnswers, Observed
<1>2. PICK d \in Node : d = data'
  BY <1>1 DEF TypeOK
<1>3. u \in Observed /\ mainQueue' = mainQueue \o Round(d)
  BY <1>1, <1>2
<1> QED
  BY <1>2, <1>3, RoundIsHeard

LEMMA DeliverEventKeeps ==
  ASSUME TypeOK, NoTabLeftBehind, DeliverEvent
  PROVE  NoTabLeftBehind'
<1> DEFINE E == [view : Tabs, snap : Node]
           e == Head(mainQueue)
           n == Len(Tail(mainQueue))
<1> SUFFICES ASSUME running', synced', NEW u \in Observed'
             PROVE  LastEventFresh(u)' /\ (HasEvent(u)' \/ Effective' \/ Shows(u)')
  BY DEF NoTabLeftBehind
<1>1. /\ running /\ synced /\ u \in Observed /\ data' = data
      /\ sharedQueue' = sharedQueue
      /\ mainQueue # <<>> /\ mainQueue' = Tail(mainQueue) /\ Whole(e.snap)
      /\ pucks' = IF Present(e.snap) = {} THEN pucks
                  ELSE [pucks EXCEPT ![e.view] = Children(e.snap)]
  BY DEF DeliverEvent, firebase, Observed
<1>2. LastEventFresh(u) /\ (HasEvent(u) \/ Effective \/ Shows(u))
  BY <1>1 DEF NoTabLeftBehind
<1>3. mainQueue \in Seq(E) /\ Len(mainQueue) \in Nat /\ DOMAIN mainQueue = 1 .. Len(mainQueue)
  BY DEF TypeOK
<1>4. /\ n = Len(mainQueue) - 1 /\ n \in Nat
      /\ DOMAIN mainQueue' = 1 .. n
      /\ \A i \in 1 .. n : mainQueue'[i] = mainQueue[i + 1]
      /\ e = mainQueue[1] /\ e \in E
  <2> HIDE DEF E
  <2> QED
    BY <1>1, <1>3, HeadTailProperties
<1>5. \A i \in 1 .. n : i + 1 \in DOMAIN mainQueue
  BY <1>3, <1>4
<1>6. LastEventFresh(u)'
  <2> SUFFICES ASSUME NEW i \in 1 .. n, mainQueue'[i].view = u,
                      \A j \in 1 .. n : j > i => mainQueue'[j].view # u
               PROVE  mainQueue'[i].snap = data
    BY <1>1, <1>4 DEF LastEventFresh
  <2>1. i + 1 \in DOMAIN mainQueue /\ mainQueue[i + 1].view = u
    BY <1>4, <1>5
  <2>2. ASSUME NEW j \in DOMAIN mainQueue, j > i + 1
        PROVE  mainQueue[j].view # u
    <3>1. j - 1 \in 1 .. n /\ j - 1 > i /\ (j - 1) + 1 = j
      <4> HIDE DEF n
      <4> QED
        BY <1>3, <1>4, <2>2
    <3> QED
      BY <1>4, <3>1
  <2>3. mainQueue[i + 1].snap = data
    BY <1>2, <2>1, <2>2 DEF LastEventFresh
  <2> QED
    BY <1>4, <2>3
<1>7. CASE HasEvent(u)
  <2>1. PICK i \in DOMAIN mainQueue : mainQueue[i].view = u
    BY <1>7 DEF HasEvent
  <2>2. CASE \E j \in 1 .. n : mainQueue[j + 1].view = u
    BY <1>4, <1>6, <2>2 DEF HasEvent
  <2>3. CASE \A j \in 1 .. n : mainQueue[j + 1].view # u
    (* The event delivered is u's last one: it is the node itself. *)
    <3>1. ASSUME NEW j \in DOMAIN mainQueue, j > 1
          PROVE  mainQueue[j].view # u
      <4>1. j - 1 \in 1 .. n /\ (j - 1) + 1 = j
        <5> HIDE DEF n
        <5> QED
          BY <1>3, <1>4, <3>1
      <4> QED
        BY <2>3, <4>1
    <3>2. i = 1
      BY <1>3, <2>1, <3>1
    <3>3. e.view = u /\ e.snap = data
      BY <1>2, <1>4, <2>1, <3>1, <3>2 DEF LastEventFresh
    <3>4. u \in Tabs
      BY <1>4, <3>3
    <3>5. CASE Present(data) = {}
      BY <1>1, <1>6, <3>5 DEF Shows, Present
    <3>6. CASE Present(data) # {}
      <4>1. pucks'[u] = Children(data)
        BY <1>1, <3>3, <3>4, <3>6 DEF TypeOK
      <4> QED
        BY <1>1, <1>6, <4>1 DEF Shows, Children, Present
    <3> QED
      BY <1>6, <3>5, <3>6
  <2> QED
    BY <1>6, <2>2, <2>3
<1>8. CASE ~HasEvent(u)
  <2>1. e.view # u
    BY <1>1, <1>3, <1>4, <1>8 DEF HasEvent
  <2>2. pucks'[u] = pucks[u]
    BY <1>1, <2>1 DEF TypeOK
  <2>3. Shows(u) => Shows(u)'
    BY <1>1, <2>2, SameShows
  <2>4. Effective => Effective'
    BY <1>1 DEF Effective
  <2> QED
    BY <1>2, <1>6, <1>8, <2>3, <2>4
<1> QED
  BY <1>7, <1>8

LEMMA InvInit == Init => IInv
<1> SUFFICES ASSUME Init PROVE IInv
  OBVIOUS
<1>1. Observed = {}
  BY DEF Init, Fresh, Observed
<1> QED
  BY <1>1, TypeInit DEF IInv, NoTabLeftBehind, DownIsClean, Init

LEMMA InvNext == IInv /\ [Next]_vars => IInv'
<1> SUFFICES ASSUME IInv, [Next]_vars PROVE IInv'
  OBVIOUS
<1>1. TypeOK /\ NoTabLeftBehind /\ DownIsClean
  BY DEF IInv
<1>2. TypeOK'
  BY <1>1, UserType, QueueType, TypeStutter DEF Next
<1>3. ASSUME NEW v \in Tabs, UserStep(v)
      PROVE  NoTabLeftBehind' /\ DownIsClean'
  <2>1. running' \/ observers' = <<>>
    BY <1>3 DEF UserStep, ViewDidLoad, TouchOutside, TouchPass, TouchSkate, ShotButton,
                SameSequence, SameSequenceTraps, UndoShot, DeadSequence, Tap,
                MakeNewShotEntity, Edit, Ends
  <2> QED
    BY <1>1, <1>3, <2>1, UserKeeps DEF DownIsClean
<1>4. ASSUME RunObserve
      PROVE  NoTabLeftBehind' /\ DownIsClean'
  BY <1>1, <1>4, RunObserveKeeps DEF RunObserve, DownIsClean
<1>5. ASSUME RunWrite
      PROVE  NoTabLeftBehind' /\ DownIsClean'
  BY <1>1, <1>5, RunWriteKeeps DEF RunWrite, DownIsClean
<1>6. ASSUME DeliverEvent
      PROVE  NoTabLeftBehind' /\ DownIsClean'
  BY <1>1, <1>6, DeliverEventKeeps DEF DeliverEvent, DownIsClean
<1>7. ASSUME CallbackTraps \/ Terminate
      PROVE  NoTabLeftBehind' /\ DownIsClean'
  BY <1>7 DEF CallbackTraps, Terminate, Ends, NoTabLeftBehind, DownIsClean
<1>8. ASSUME ServerAnswers
      PROVE  NoTabLeftBehind' /\ DownIsClean'
  BY <1>1, <1>8, ServerAnswersKeeps DEF ServerAnswers, DownIsClean
<1>9. ASSUME Relaunch
      PROVE  NoTabLeftBehind' /\ DownIsClean'
  <2>1. observers' = <<>> /\ running'
    BY <1>1, <1>9 DEF Relaunch, DownIsClean
  <2> QED
    BY <2>1 DEF NoTabLeftBehind, Observed, DownIsClean
<1>10. ASSUME UNCHANGED vars
       PROVE  NoTabLeftBehind' /\ DownIsClean'
  <2>1. NoTabLeftBehind'
    BY <1>1, <1>10 DEF vars, local, firebase, queues, NoTabLeftBehind, Observed,
        HasEvent, LastEventFresh, Effective, Shows, WellFormed, Whole, Contiguous,
        Present, Children
  <2> QED
    BY <1>1, <1>10, <2>1 DEF vars, firebase, DownIsClean
<1>11. NoTabLeftBehind' /\ DownIsClean'
  BY <1>3, <1>4, <1>5, <1>6, <1>7, <1>8, <1>9, <1>10 DEF Next, QueueStep
<1> QED
  BY <1>2, <1>11 DEF IInv

(* No interleaving of taps, of the two queues and of the server's first    *)
(* answer leaves a tab behind for good.                                    *)
THEOREM NoTabIsLeftBehind == Spec => []NoTabLeftBehind
<1>1. IInv => NoTabLeftBehind
  BY DEF IInv
<1> QED
  BY <1>1, InvInit, InvNext, PTL DEF Spec

(* When both queues are empty every tab lists what the game holds, unless  *)
(* the game is empty or torn.                                              *)
THEOREM TabsAgree == Spec => []Agreement
<1>1. IInv => Agreement
  <2> SUFFICES ASSUME IInv, running, Settled, NEW v \in Observed PROVE Shows(v)
    BY DEF Agreement
  <2>1. HasEvent(v) \/ Effective \/ Shows(v)
    BY DEF IInv, NoTabLeftBehind, Settled
  <2>2. DOMAIN mainQueue = {} /\ DOMAIN sharedQueue = {}
    BY DEF Settled
  <2> QED
    BY <2>1, <2>2 DEF HasEvent, Effective
<1> QED
  BY <1>1, InvInit, InvNext, PTL DEF Spec

----------------------------------------------------------------------------
(***************************************************************************)
(* What a patient user's taps make of a game: the writes that wait in the  *)
(* shared queue touch the game's end, one after the other, so that the     *)
(* game is a log (with one tab) or is torn while it is empty only (with    *)
(* more).                                                                  *)
(*                                                                         *)
(* The invariants relate the keys of the writes that wait to the size the  *)
(* game has when their turn comes (Path), and the tab's own list to the    *)
(* game (NoTabLeftBehind): a tab computes its keys from its list, and a    *)
(* patient user taps once the list is up to date.                          *)
(***************************************************************************)

----------------------------------------------------------------------------
(* A game that changes at its end only. *)

(* A size no node has: that of a torn game. *)
Torn == MaxPucks + 1

(* A write made to a game of k pucks touches its end and leaves a game of  *)
(* m pucks, or it tears an empty game.                                     *)
Leads(k, w, m) ==
    \/ w.op = "observe" /\ m = k
    \/ k = Torn /\ m = Torn
    \/ /\ k # Torn
       /\ \/ w.op = "set" /\ w.key = k /\ m = k + 1
          \/ w.op = "set" /\ k = 0 /\ w.key # 0 /\ m = Torn
          \/ w.op = "remove" /\ k > 0 /\ w.key = k - 1 /\ m = k - 1
          \/ w.op = "remove" /\ k = 0 /\ m = 0
          \/ w.op = "update" /\ k > 0 /\ w.key = k - 1 /\ w.shotType = "Skate" /\ m = k
          \/ w.op = "update" /\ k = 0 /\ m = Torn

(* What such a write w makes of a game x without gaps: the game y. *)
Records(x, w, y) ==
    \/ y = x
    \/ w.op = "set" /\ w.key = Size(x) /\ Size(x) < MaxPucks /\ Size(y) = Size(x) + 1
    \/ w.op = "remove" /\ Size(x) > 0 /\ w.key = Size(x) - 1 /\ Size(y) = Size(x) - 1
    \/ /\ w.op = "update" /\ Size(x) > 0 /\ w.key = Size(x) - 1
       /\ w.shotType = "Skate" /\ Size(y) = Size(x)

LEMMA LeadNode ==
  ASSUME NEW x \in Node, WellFormed(x), NEW w \in Writes, NEW m, Leads(Size(x), w, m)
  PROVE  LET y == Apply(x, w)
         IN  /\ y \in Node
             /\ \/ m = Torn /\ Size(x) = 0 /\ ~WellFormed(y)
                \/ m \in 0 .. MaxPucks /\ WellFormed(y) /\ Size(y) = m /\ Records(x, w, y)
<1> DEFINE y == Apply(x, w)
           c == Size(x)
           k == w.key
<1>1. /\ k \in Keys /\ y \in Node /\ y[k] = Renewed(x[k], w)
      /\ x[k] \in Child \cup {Absent}
      /\ \A j \in Keys : j # k => y[j] = x[j]
  BY ApplyPut
<1>2. /\ Present(x) = 0 .. c - 1 /\ c \in Nat /\ c <= MaxPucks /\ MaxPucks \in Nat
      /\ k \in Nat /\ k < MaxPucks
      /\ \A j \in Present(x) : x[j] \in PuckModel
      /\ c # Torn
  BY <1>1, SizeKeys, SizeType, PucksAssumption DEF WellFormed, Whole, Keys, Torn
<1>3. w.op \in {"set", "remove", "update"}
  BY DEF Writes
<1>4. Leads(c, w, m)
  OBVIOUS
<1> HIDE DEF y, c, k
<1>5. ASSUME NEW n \in 0 .. MaxPucks, Present(y) = 0 .. n - 1,
             y[k] = Absent \/ y[k] \in PuckModel
      PROVE  n \in Nat /\ WellFormed(y) /\ Size(y) = n
  <2>1. n \in Nat
    BY <1>2
  <2>2. Size(y) = n
    BY <1>5, <2>1, SizeOf
  <2>3. Contiguous(y)
    BY <1>5 DEF Contiguous
  <2>4. ASSUME NEW j \in Present(y)
        PROVE  y[j] \in PuckModel
    <3>1. j \in Keys /\ y[j] # Absent
      BY DEF Present
    <3>2. CASE j = k
      BY <1>5, <3>1, <3>2
    <3>3. CASE j # k
      <4>1. y[j] = x[j] /\ j \in Present(x)
        BY <1>1, <3>1, <3>3 DEF Present
      <4> QED
        BY <1>2, <4>1
    <3> QED
      BY <3>2, <3>3
  <2> QED
    BY <2>1, <2>2, <2>3, <2>4 DEF WellFormed, Whole
<1>6. CASE w.op = "set"
  <2>1. y[k] \in PuckModel /\ y[k] # Absent
    <3>1. w.puck \in PuckModel /\ y[k] = w.puck
      BY <1>1, <1>6 DEF Renewed, Writes
    <3> QED
      BY <3>1, AbsentAssumption DEF Child
  <2>2. Present(y) = Present(x) \cup {k}
    BY <1>1, <2>1 DEF Present
  <2>3. (k = c /\ m = c + 1) \/ (c = 0 /\ k # 0 /\ m = Torn)
    BY <1>2, <1>4, <1>6 DEF Leads, k
  <2>4. CASE k = c /\ m = c + 1
    <3>1. m \in 0 .. MaxPucks /\ Present(y) = 0 .. m - 1
      BY <1>2, <2>2, <2>4
    <3> QED
      BY <1>1, <1>2, <1>5, <1>6, <2>1, <2>4, <3>1 DEF Records, y, c, k
  <2>5. CASE c = 0 /\ k # 0 /\ m = Torn
    <3>1. Present(y) = {k}
      BY <1>2, <2>2, <2>5
    <3>2. ~Contiguous(y)
      <4> SUFFICES ASSUME NEW n \in 0 .. MaxPucks, Present(y) = 0 .. n - 1 PROVE FALSE
        BY DEF Contiguous
      <4>1. 0 \in 0 .. n - 1
        BY <1>2, <3>1
      <4> QED
        BY <2>5, <3>1, <4>1
    <3> QED
      BY <1>1, <2>5, <3>2 DEF WellFormed, y, c, k
  <2> QED
    BY <2>3, <2>4, <2>5
<1>7. CASE w.op = "remove"
  <2>1. y[k] = Absent
    BY <1>1, <1>7 DEF Renewed
  <2>2. Present(y) = Present(x) \ {k}
    BY <1>1, <2>1 DEF Present
  <2>3. (c > 0 /\ k = c - 1 /\ m = c - 1) \/ (c = 0 /\ m = 0)
    BY <1>2, <1>4, <1>7 DEF Leads, k
  <2>4. CASE c > 0 /\ k = c - 1 /\ m = c - 1
    <3>1. m \in 0 .. MaxPucks /\ Present(y) = 0 .. m - 1
      BY <1>2, <2>2, <2>4
    <3> QED
      BY <1>1, <1>2, <1>5, <1>7, <2>1, <2>4, <3>1 DEF Records, y, c, k
  <2>5. CASE c = 0 /\ m = 0
    <3>1. Present(x) = {} /\ m \in 0 .. MaxPucks
      BY <1>2, <2>5
    <3>2. \A j \in Keys : y[j] = x[j]
      BY <1>1, <2>1, <3>1 DEF Present
    <3>3. y = x
      BY <1>1, <3>2, NodesEqual
    <3> QED
      BY <1>1, <2>5, <3>1, <3>3 DEF Records, y, c, k
  <2> QED
    BY <2>3, <2>4, <2>5
<1>8. CASE w.op = "update"
  <2>1. y[k] = IF x[k] = Absent THEN [shotType |-> w.shotType]
                                ELSE [x[k] EXCEPT !.shotType = w.shotType]
    BY <1>1, <1>8 DEF Renewed
  <2>2. w.shotType \in ShotTypes
    BY <1>8 DEF Writes
  <2>3. (c > 0 /\ k = c - 1 /\ w.shotType = "Skate" /\ m = c) \/ (c = 0 /\ m = Torn)
    BY <1>2, <1>4, <1>8 DEF Leads, k
  <2>4. CASE c > 0 /\ k = c - 1 /\ w.shotType = "Skate" /\ m = c
    <3>1. k \in Present(x) /\ x[k] \in PuckModel /\ x[k] # Absent
      <4>1. k \in 0 .. c - 1
        BY <1>2, <2>4
      <4> QED
        BY <1>2, <4>1 DEF Present
    <3>2. y[k] \in PuckModel /\ y[k] # Absent
      <4>1. y[k] \in PuckModel
        BY <2>1, <2>2, <3>1 DEF PuckModel
      <4> QED
        BY <4>1, AbsentAssumption DEF Child
    <3>3. Present(y) = Present(x)
      BY <1>1, <3>1, <3>2 DEF Present
    <3>4. m \in 0 .. MaxPucks /\ Present(y) = 0 .. m - 1
      BY <1>2, <2>4, <3>3
    <3> QED
      BY <1>1, <1>2, <1>5, <1>8, <2>4, <3>2, <3>4 DEF Records, y, c, k
  <2>5. CASE c = 0 /\ m = Torn
    <3>1. x[k] = Absent
      BY <1>1, <1>2, <2>5 DEF Present
    <3>2. y[k] = [shotType |-> w.shotType]
      BY <2>1, <3>1
    <3>3. y[k] \in Child /\ y[k] \notin PuckModel
      <4>1. DOMAIN y[k] = {"shotType"}
        BY <3>2
      <4>2. \A p \in PuckModel : "pos" \in DOMAIN p
        BY DEF PuckModel
      <4> QED
        BY <2>2, <3>2, <4>1, <4>2 DEF Child, PartialChild
    <3>4. k \in Present(y)
      BY <1>1, <3>3, AbsentAssumption DEF Present
    <3> QED
      BY <1>1, <2>5, <3>3, <3>4 DEF WellFormed, Whole, y, c, k
  <2> QED
    BY <2>3, <2>4, <2>5
<1> QED
  BY <1>3, <1>6, <1>7, <1>8 DEF y, c, k

(* The list of a game without gaps. *)
LEMMA ListAt ==
  ASSUME NEW x \in Node, WellFormed(x)
  PROVE  /\ Children(x) \in Seq(PuckModel) /\ Len(Children(x)) = Size(x)
         /\ Children(x) = [i \in 1 .. Size(x) |-> x[i - 1]]
<1>1. Size(x) \in 0 .. MaxPucks /\ Size(x) \in Nat
  BY SizeType, PucksAssumption
<1>2. Children(x) = [i \in 1 .. Size(x) |-> x[i - 1]]
  BY <1>1, SizeKeys, ChildrenContiguous
<1>3. Children(x) \in Seq(PuckModel)
  BY ChildrenType DEF WellFormed, PuckLists
<1> QED
  BY <1>1, <1>2, <1>3

(* Seen as a list, the game changes as a log does. *)
LEMMA RecordsLog ==
  ASSUME NEW x \in Node, WellFormed(x), NEW w \in Writes,
         NEW y, y = Apply(x, w), WellFormed(y), Records(x, w, y)
  PROVE  LET s == Children(x)
             t == Children(y)
         IN  \/ t = s
             \/ \E p \in PuckModel : Len(s) < MaxPucks /\ t = Append(s, p)
             \/ s # <<>> /\ t = SubSeq(s, 1, Len(s) - 1)
             \/ s # <<>> /\ t = [s EXCEPT ![Len(s)].shotType = "Skate"]
<1> DEFINE s == Children(x)
           t == Children(y)
           c == Size(x)
           m == Size(y)
           k == w.key
<1>1. /\ k \in Keys /\ y \in Node /\ y[k] = Renewed(x[k], w)
      /\ \A j \in Keys : j # k => y[j] = x[j]
  BY ApplyPut
<1>2. /\ s \in Seq(PuckModel) /\ Len(s) = c /\ s = [i \in 1 .. c |-> x[i - 1]]
      /\ t \in Seq(PuckModel) /\ Len(t) = m /\ t = [i \in 1 .. m |-> y[i - 1]]
  BY <1>1, ListAt
<1>3. c \in Nat /\ m \in Nat /\ c <= MaxPucks /\ m <= MaxPucks /\ MaxPucks \in Nat
  BY SizeType, PucksAssumption
<1>4. \A i \in 1 .. MaxPucks : i - 1 \in Keys /\ (i - 1 # k => y[i - 1] = x[i - 1])
  BY <1>1, <1>3 DEF Keys
<1>5. \/ y = x
      \/ w.op = "set" /\ k = c /\ c < MaxPucks /\ m = c + 1
      \/ w.op = "remove" /\ c > 0 /\ k = c - 1 /\ m = c - 1
      \/ w.op = "update" /\ c > 0 /\ k = c - 1 /\ w.shotType = "Skate" /\ m = c
  BY DEF Records
<1>6. CASE y = x
  BY <1>6
<1>7. CASE w.op = "set" /\ k = c /\ c < MaxPucks /\ m = c + 1
  <2> DEFINE p == w.puck
  <2>1. p \in PuckModel /\ y[k] = p
    BY <1>1, <1>7 DEF Renewed, Writes
  <2> HIDE DEF s, t, c, m, k, p
  <2>0. s \in Seq(PuckModel) /\ Len(s) = c /\ \A i \in 1 .. c : s[i] = x[i - 1]
    BY <1>2
  <2>2. /\ Append(s, p) \in Seq(PuckModel) /\ Len(Append(s, p)) = c + 1
        /\ \A i \in 1 .. c : Append(s, p)[i] = s[i]
        /\ Append(s, p)[c + 1] = p
    BY <2>0, <2>1, AppendProperties
  <2>3. ASSUME NEW i \in 1 .. c + 1
        PROVE  t[i] = Append(s, p)[i]
    <3>1. i \in 1 .. m /\ t[i] = y[i - 1]
      BY <1>2, <1>7
    <3>2. CASE i = c + 1
      <4>1. i - 1 = k
        BY <1>3, <1>7, <3>2
      <4>2. Append(s, p)[i] = p
        BY <2>2, <3>2
      <4> QED
        BY <2>1, <3>1, <4>1, <4>2
    <3>3. CASE i # c + 1
      <4>1. i \in 1 .. c /\ i \in 1 .. MaxPucks /\ i - 1 # k
        BY <1>3, <1>7, <3>3
      <4>2. Append(s, p)[i] = s[i] /\ s[i] = x[i - 1]
        BY <2>0, <2>2, <4>1
      <4> QED
        BY <1>4, <3>1, <4>1, <4>2
    <3> QED
      BY <3>2, <3>3
  <2>4. t = Append(s, p)
    <3>1. Len(t) = Len(Append(s, p)) /\ Len(t) = c + 1
      BY <1>2, <1>7, <2>2
    <3> QED
      BY <1>2, <2>2, <2>3, <3>1, SeqEqual
  <2>5. Len(s) < MaxPucks
    BY <1>2, <1>7
  <2> QED
    BY <2>1, <2>4, <2>5 DEF s, t
<1>8. CASE w.op = "remove" /\ c > 0 /\ k = c - 1 /\ m = c - 1
  <2>1. s \in PuckLists /\ m \in 0 .. Len(s)
    <3> HIDE DEF s, t, c, m
    <3> QED
      BY <1>2, <1>3, <1>8 DEF PuckLists
  <2>2. /\ SubSeq(s, 1, m) \in Seq(PuckModel) /\ Len(SubSeq(s, 1, m)) = m
        /\ \A i \in 1 .. m : SubSeq(s, 1, m)[i] = s[i]
    BY <2>1, PuckListsSub DEF PuckLists
  <2> HIDE DEF s, t, c, m, k
  <2>3. ASSUME NEW i \in 1 .. m
        PROVE  t[i] = SubSeq(s, 1, m)[i]
    <3>1. i \in 1 .. c /\ i \in 1 .. MaxPucks /\ i - 1 # k
      BY <1>3, <1>8
    <3>2. t[i] = y[i - 1] /\ s[i] = x[i - 1]
      BY <1>2, <3>1
    <3> QED
      BY <1>4, <2>2, <3>1, <3>2
  <2>4. t = SubSeq(s, 1, m)
    BY <1>2, <2>2, <2>3, SeqEqual
  <2>5. m = Len(s) - 1
    BY <1>2, <1>8
  <2>6. Len(s) # 0
    BY <1>2, <1>3, <1>8
  <2>7. s = <<>> => Len(s) = 0
    OBVIOUS
  <2> QED
    BY <2>4, <2>5, <2>6, <2>7 DEF s, t
<1>9. CASE w.op = "update" /\ c > 0 /\ k = c - 1 /\ w.shotType = "Skate" /\ m = c
  <2> DEFINE q == [s EXCEPT ![Len(s)].shotType = "Skate"]
  <2>0. c \in 1 .. c /\ k \in 0 .. c - 1
    <3> HIDE DEF c, k
    <3> QED
      BY <1>3, <1>9
  <2>1. x[k] # Absent /\ x[k] = s[c] /\ s[c] \in PuckModel
    <3>1. k \in Present(x) /\ x[k] \in PuckModel
      BY <2>0, SizeKeys DEF WellFormed, Whole
    <3>2. s[c] = x[c - 1]
      BY <1>2, <2>0
    <3> QED
      BY <1>9, <3>1, <3>2 DEF Present
  <2>2. y[k] = [s[c] EXCEPT !.shotType = "Skate"]
    BY <1>1, <1>9, <2>1 DEF Renewed
  <2> HIDE DEF s, t, c, m, k
  <2>3. /\ DOMAIN q = 1 .. c
        /\ q[c] = [s[c] EXCEPT !.shotType = "Skate"]
        /\ \A i \in 1 .. c : i # c => q[i] = s[i]
    BY <1>2, <2>0
  <2>4. q = [i \in 1 .. c |-> q[i]]
    BY <2>3
  <2> HIDE DEF q
  <2>5. ASSUME NEW i \in 1 .. c
        PROVE  t[i] = q[i]
    <3>1. t[i] = y[i - 1] /\ s[i] = x[i - 1]
      BY <1>2, <1>9
    <3>2. CASE i = c
      BY <1>9, <2>2, <2>3, <3>1, <3>2
    <3>3. CASE i # c
      <4>1. i \in 1 .. MaxPucks /\ i - 1 # k
        BY <1>3, <1>9, <3>3
      <4> QED
        BY <1>4, <2>3, <3>1, <3>3, <4>1
    <3> QED
      BY <3>2, <3>3
  <2>6. t = [i \in 1 .. c |-> t[i]]
    BY <1>2, <1>9
  <2>7. t = q
    BY <2>4, <2>5, <2>6
  <2>8. s # <<>>
    <3>1. Len(s) # 0
      BY <1>2, <1>3, <1>9
    <3>2. s = <<>> => Len(s) = 0
      OBVIOUS
    <3> QED
      BY <3>1, <3>2
  <2> QED
    BY <2>7, <2>8 DEF s, t, q
<1> QED
  BY <1>5, <1>6, <1>7, <1>8, <1>9

(* No puck but the last one changes. *)
LEMMA RecordsLast ==
  ASSUME NEW x \in Node, WellFormed(x), NEW w \in Writes,
         NEW y, y = Apply(x, w), Records(x, w, y), NEW k \in Present(x)
  PROVE  \/ y[k] = x[k]
         \/ /\ k + 1 \notin Present(x)
            /\ y[k] \in {Absent, [x[k] EXCEPT !.shotType = "Skate"]}
<1>1. /\ w.key \in Keys /\ y[w.key] = Renewed(x[w.key], w)
      /\ \A j \in Keys : j # w.key => y[j] = x[j]
  BY ApplyPut
<1>2. Present(x) = 0 .. Size(x) - 1 /\ Size(x) \in Nat /\ k \in Keys /\ x[k] # Absent
  BY SizeKeys, SizeType DEF Present
<1>3. CASE w.key # k
  BY <1>1, <1>2, <1>3
<1>4. CASE w.key = k /\ y # x
  <2>1. w.key = Size(x) - 1 /\ (w.op = "remove" \/ (w.op = "update" /\ w.shotType = "Skate"))
    BY <1>2, <1>4 DEF Records
  <2>2. k + 1 \notin Present(x)
    BY <1>2, <1>4, <2>1
  <2> QED
    BY <1>1, <1>2, <1>4, <2>1, <2>2 DEF Renewed
<1> QED
  BY <1>3, <1>4

----------------------------------------------------------------------------
(* Writes that wait. *)

(* The writes ws, one after the other, lead from c pucks to f, by sizes    *)
(* in S.                                                                   *)
Path(ws, c, f, S) ==
    \E h \in [0 .. Len(ws) -> S] :
        /\ h[0] = c /\ h[Len(ws)] = f
        /\ \A i \in 1 .. Len(ws) : Leads(h[i - 1], ws[i], h[i])

LEMMA PathEmpty ==
  ASSUME NEW S, NEW c \in S, NEW f
  PROVE  Path(<<>>, c, f, S) <=> f = c
<1> DEFINE e == <<>>
           h == [i \in 0 .. 0 |-> c]
<1>1. Len(e) = 0
  OBVIOUS
<1> HIDE DEF e
<1>2. h \in [0 .. Len(e) -> S] /\ h[0] = c /\ h[Len(e)] = c
  BY <1>1
<1>3. Path(e, c, c, S)
  <2> HIDE DEF h
  <2> QED
    BY <1>1, <1>2 DEF Path
<1>4. Path(e, c, f, S) => f = c
  BY <1>1 DEF Path
<1> QED
  BY <1>3, <1>4 DEF e

LEMMA PathEnds ==
  ASSUME NEW E, NEW ws \in Seq(E), NEW S, NEW c, NEW f, Path(ws, c, f, S)
  PROVE  /\ c \in S /\ f \in S
         /\ Len(ws) = 1 => Leads(c, ws[1], f)
<1>1. PICK h \in [0 .. Len(ws) -> S] :
        /\ h[0] = c /\ h[Len(ws)] = f
        /\ \A i \in 1 .. Len(ws) : Leads(h[i - 1], ws[i], h[i])
  BY DEF Path
<1>2. Len(ws) \in Nat /\ 0 \in 0 .. Len(ws) /\ Len(ws) \in 0 .. Len(ws)
  OBVIOUS
<1>3. ASSUME Len(ws) = 1
      PROVE  Leads(c, ws[1], f)
  <2>1. 1 \in 1 .. Len(ws) /\ 1 - 1 = 0
    BY <1>3
  <2>2. Leads(h[1 - 1], ws[1], h[1])
    BY <1>1, <2>1
  <2> QED
    BY <1>1, <1>3, <2>1, <2>2
<1> QED
  BY <1>1, <1>2, <1>3

LEMMA PathTail ==
  ASSUME NEW E, NEW ws \in Seq(E), ws # <<>>, NEW S, NEW c, NEW f, Path(ws, c, f, S)
  PROVE  \E m \in S : Leads(c, Head(ws), m) /\ Path(Tail(ws), m, f, S)
<1> DEFINE r == Tail(ws)
           n == Len(ws)
<1>1. PICK h \in [0 .. n -> S] :
        /\ h[0] = c /\ h[n] = f
        /\ \A i \in 1 .. n : Leads(h[i - 1], ws[i], h[i])
  BY DEF Path
<1>2. /\ n \in Nat \ {0} /\ Head(ws) = ws[1] /\ Len(r) = n - 1
      /\ \A i \in 1 .. Len(r) : r[i] = ws[i + 1]
  BY FirstAndRest
<1> HIDE DEF r, n
<1> DEFINE g == [i \in 0 .. n - 1 |-> h[i + 1]]
<1>3. h[1] \in S /\ Leads(c, ws[1], h[1])
  <2>1. 1 \in 0 .. n /\ 1 \in 1 .. n /\ 1 - 1 = 0
    BY <1>2
  <2>2. Leads(h[1 - 1], ws[1], h[1])
    BY <1>1, <2>1
  <2> QED
    BY <1>1, <2>1, <2>2
<1>4. g \in [0 .. Len(r) -> S] /\ g[0] = h[1] /\ g[Len(r)] = f
  <2>1. \A i \in 0 .. n - 1 : i + 1 \in 0 .. n
    BY <1>2
  <2>2. n - 1 \in 0 .. n - 1 /\ 0 \in 0 .. n - 1 /\ (n - 1) + 1 = n
    BY <1>2
  <2> QED
    BY <1>1, <1>2, <2>1, <2>2
<1>5. ASSUME NEW i \in 1 .. Len(r)
      PROVE  Leads(g[i - 1], r[i], g[i])
  <2>1. i + 1 \in 1 .. n /\ (i + 1) - 1 = i /\ i - 1 \in 0 .. n - 1 /\ i \in 0 .. n - 1 /\ (i - 1) + 1 = i
    BY <1>2
  <2>2. Leads(h[(i + 1) - 1], ws[i + 1], h[i + 1])
    BY <1>1, <2>1
  <2>3. r[i] = ws[i + 1]
    BY <1>2
  <2>4. g[i - 1] = h[i] /\ g[i] = h[i + 1]
    BY <2>1
  <2> QED
    BY <2>1, <2>2, <2>3, <2>4
<1>6. Path(r, h[1], f, S)
  <2> HIDE DEF g
  <2> QED
    BY <1>4, <1>5 DEF Path
<1> QED
  BY <1>2, <1>3, <1>6 DEF r

LEMMA PathJoin ==
  ASSUME NEW E, NEW ws \in Seq(E), NEW w \in E, NEW S, NEW c, NEW f, Path(ws, c, f, S),
         NEW m \in S, Leads(f, w, m)
  PROVE  Path(Append(ws, w), c, m, S)
<1> DEFINE r == Append(ws, w)
           n == Len(ws)
<1>1. PICK h \in [0 .. n -> S] :
        /\ h[0] = c /\ h[n] = f
        /\ \A i \in 1 .. n : Leads(h[i - 1], ws[i], h[i])
  BY DEF Path
<1>2. /\ n \in Nat /\ Len(r) = n + 1 /\ r[n + 1] = w
      /\ \A i \in 1 .. n : r[i] = ws[i]
  BY AppendProperties
<1> HIDE DEF r, n
<1> DEFINE g == [i \in 0 .. n + 1 |-> IF i = n + 1 THEN m ELSE h[i]]
<1>3. g \in [0 .. Len(r) -> S] /\ g[0] = c /\ g[Len(r)] = m
  <2>1. \A i \in 0 .. n + 1 : i # n + 1 => i \in 0 .. n
    BY <1>2
  <2>2. n + 1 \in 0 .. n + 1 /\ 0 \in 0 .. n + 1 /\ 0 # n + 1
    BY <1>2
  <2> QED
    BY <1>1, <1>2, <2>1, <2>2
<1>4. ASSUME NEW i \in 1 .. Len(r)
      PROVE  Leads(g[i - 1], r[i], g[i])
  <2>1. CASE i = n + 1
    <3>1. g[i] = m /\ g[i - 1] = f /\ r[i] = w
      BY <1>1, <1>2, <2>1
    <3> HIDE DEF g
    <3> QED
      BY <3>1
  <2>2. CASE i # n + 1
    <3>1. i \in 1 .. n /\ i - 1 \in 0 .. n + 1 /\ i \in 0 .. n + 1 /\ i - 1 # n + 1
      BY <1>2, <2>2
    <3>2. g[i] = h[i] /\ g[i - 1] = h[i - 1] /\ r[i] = ws[i]
      BY <1>2, <2>2, <3>1
    <3> HIDE DEF g
    <3> QED
      BY <1>1, <3>1, <3>2
  <2> QED
    BY <2>1, <2>2
<1>5. Path(r, c, m, S)
  <2> HIDE DEF g
  <2> QED
    BY <1>3, <1>4 DEF Path
<1> QED
  BY <1>5 DEF r

LEMMA PathOne ==
  ASSUME NEW E, NEW w \in E, NEW S, NEW c \in S, NEW m \in S, Leads(c, w, m)
  PROVE  Path(<<w>>, c, m, S)
<1> DEFINE e == <<>>
<1>1. e \in Seq(E) /\ Append(e, w) = <<w>> /\ Path(e, c, c, S)
  BY PathEmpty
<1> HIDE DEF e
<1>2. Path(Append(e, w), c, m, S)
  BY <1>1, PathJoin
<1> QED
  BY <1>1, <1>2

LEMMA PathThree ==
  ASSUME NEW E, NEW u \in E, NEW v \in E, NEW w \in E, NEW S,
         NEW c \in S, NEW k \in S, NEW l \in S, NEW m \in S,
         Leads(c, u, k), Leads(k, v, l), Leads(l, w, m)
  PROVE  Path(<<u, v, w>>, c, m, S)
<1> DEFINE a == <<u>>
           b == <<u, v>>
<1>1. a \in Seq(E) /\ b \in Seq(E) /\ b = Append(a, v) /\ <<u, v, w>> = Append(b, w)
  OBVIOUS
<1>2. Path(a, c, k, S)
  BY PathOne
<1> HIDE DEF a, b
<1>3. Path(Append(a, v), c, l, S)
  BY <1>1, <1>2, PathJoin
<1>4. Path(Append(b, w), c, m, S)
  BY <1>1, <1>3, PathJoin
<1> QED
  BY <1>1, <1>4

(* What a handler of a tab that lists n pucks leaves behind: the list s    *)
(* and the writes ws.                                                      *)
Handler(n, s, ws) ==
    \/ \E p \in PuckModel : n < MaxPucks /\ ws = <<SetValue(n, p)>>
    \/ n > 0 /\ ws = <<UpdateChildValues(n - 1, "Skate")>>
    \/ /\ n \in 1 .. MaxPucks - 1
       /\ \E p \in PuckModel, q \in PuckModel :
             ws = <<RemoveValue(n - 1), SetValue(n - 1, p), SetValue(n, q)>>
    \/ n > 0 /\ Len(s) = n - 1 /\ ws = <<RemoveValue(n - 1)>>
    \/ \E keep \in 1 .. n : ws = [i \in 1 .. n - keep |-> RemoveValue(n - i)]

LEMMA RemoveLeads ==
  ASSUME NEW n \in 0 .. MaxPucks, n > 0
  PROVE  Leads(n, RemoveValue(n - 1), n - 1) /\ Leads(0, RemoveValue(n - 1), 0)
<1>1. n # Torn /\ 0 # Torn /\ n \in Nat /\ n > 0
  BY PucksAssumption DEF Torn
<1>2. RemoveValue(n - 1).op = "remove" /\ RemoveValue(n - 1).key = n - 1
  BY DEF RemoveValue
<1> QED
  BY <1>1, <1>2 DEF Leads

LEMMA SetLeads ==
  ASSUME NEW n \in 0 .. MaxPucks, NEW p
  PROVE  /\ Leads(n, SetValue(n, p), n + 1)
         /\ n # 0 => Leads(0, SetValue(n, p), Torn)
         /\ Leads(Torn, SetValue(n, p), Torn)
<1>1. n # Torn /\ 0 # Torn /\ n \in Nat
  BY PucksAssumption DEF Torn
<1>2. SetValue(n, p).op = "set" /\ SetValue(n, p).key = n
  BY DEF SetValue
<1> QED
  BY <1>1, <1>2 DEF Leads

LEMMA UpdateLeads ==
  ASSUME NEW n \in 0 .. MaxPucks, n > 0
  PROVE  /\ Leads(n, UpdateChildValues(n - 1, "Skate"), n)
         /\ Leads(0, UpdateChildValues(n - 1, "Skate"), Torn)
<1>1. n # Torn /\ 0 # Torn /\ n \in Nat
  BY PucksAssumption DEF Torn
<1>2. /\ UpdateChildValues(n - 1, "Skate").op = "update"
      /\ UpdateChildValues(n - 1, "Skate").key = n - 1
      /\ UpdateChildValues(n - 1, "Skate").shotType = "Skate"
  BY DEF UpdateChildValues
<1> QED
  BY <1>1, <1>2 DEF Leads

(* From a list that is the game's, or in an empty game if it may be torn,  *)
(* the writes of a handler lead somewhere; they leave an empty game only   *)
(* with an empty list.                                                     *)
LEMMA HandlerLeads ==
  ASSUME NEW s \in PuckLists, NEW ws, NEW n \in 0 .. MaxPucks,
         Handler(n, s, ws), NEW S, 0 .. MaxPucks \subseteq S,
         NEW c \in 0 .. MaxPucks, n = c \/ (c = 0 /\ Torn \in S)
  PROVE  \E f \in S : /\ Path(ws, c, f, S)
                      /\ n = c /\ f = 0 => Len(ws) <= 1 /\ s = <<>>
<1>1. n \in Nat /\ c \in Nat /\ MaxPucks \in Nat /\ 0 \in S /\ c \in S /\ n \in S /\ n <= MaxPucks
  BY PucksAssumption
<1>2. ASSUME NEW p \in PuckModel, n < MaxPucks, ws = <<SetValue(n, p)>>
      PROVE  \E f \in S : Path(ws, c, f, S) /\ (n = c => f # 0)
  <2> DEFINE w == SetValue(n, p)
  <2>1. w \in {w}
    OBVIOUS
  <2>2. CASE n = c
    <3>1. n + 1 \in S /\ n + 1 # 0
      <4>1. n + 1 \in 0 .. MaxPucks
        BY <1>1, <1>2
      <4> QED
        BY <1>1, <4>1
    <3>2. Leads(c, w, n + 1)
      BY <2>2, SetLeads
    <3> HIDE DEF w
    <3>3. Path(<<w>>, c, n + 1, S)
      BY <1>1, <2>1, <3>1, <3>2, PathOne
    <3> QED
      BY <1>2, <3>1, <3>3 DEF w
  <2>3. CASE n # c
    <3>1. c = 0 /\ n # 0 /\ Torn \in S
      BY <2>3
    <3>2. Leads(c, w, Torn)
      BY <3>1, SetLeads
    <3> HIDE DEF w
    <3>3. Path(<<w>>, c, Torn, S)
      BY <1>1, <2>1, <3>1, <3>2, PathOne
    <3> QED
      BY <1>2, <2>3, <3>1, <3>3 DEF w
  <2> QED
    BY <2>2, <2>3
<1>3. ASSUME n > 0, ws = <<UpdateChildValues(n - 1, "Skate")>>
      PROVE  \E f \in S : Path(ws, c, f, S) /\ (n = c => f # 0)
  <2> DEFINE w == UpdateChildValues(n - 1, "Skate")
  <2>1. w \in {w}
    OBVIOUS
  <2>2. CASE n = c
    <3>1. Leads(c, w, n)
      BY <1>3, <2>2, UpdateLeads
    <3> HIDE DEF w
    <3>2. Path(<<w>>, c, n, S)
      BY <1>1, <2>1, <3>1, PathOne
    <3>3. n # 0
      BY <1>1, <1>3
    <3> QED
      BY <1>1, <1>3, <3>2, <3>3 DEF w
  <2>3. CASE n # c
    <3>1. c = 0 /\ Torn \in S
      BY <2>3
    <3>2. Leads(c, w, Torn)
      BY <1>3, <3>1, UpdateLeads
    <3> HIDE DEF w
    <3>3. Path(<<w>>, c, Torn, S)
      BY <1>1, <2>1, <3>1, <3>2, PathOne
    <3> QED
      BY <1>3, <2>3, <3>1, <3>3 DEF w
  <2> QED
    BY <2>2, <2>3
<1>4. ASSUME NEW p \in PuckModel, NEW q \in PuckModel, n \in 1 .. MaxPucks - 1,
             ws = <<RemoveValue(n - 1), SetValue(n - 1, p), SetValue(n, q)>>
      PROVE  \E f \in S : Path(ws, c, f, S) /\ (n = c => f # 0)
  <2> DEFINE x == RemoveValue(n - 1)
             y == SetValue(n - 1, p)
             z == SetValue(n, q)
             E == {x, y, z}
  <2>1. /\ n > 0 /\ n - 1 \in 0 .. MaxPucks /\ n + 1 \in 0 .. MaxPucks
        /\ n - 1 \in S /\ n + 1 \in S /\ n + 1 # 0 /\ (n - 1) + 1 = n
    <3>1. n > 0 /\ n - 1 \in 0 .. MaxPucks /\ n + 1 \in 0 .. MaxPucks
      BY <1>1, <1>4
    <3> QED
      BY <1>1, <3>1
  <2>2. /\ Leads(n, x, n - 1) /\ Leads(0, x, 0)
        /\ Leads(n - 1, y, n)
        /\ n - 1 # 0 => Leads(0, y, Torn)
        /\ Leads(n, z, n + 1)
        /\ Leads(Torn, z, Torn)
    <3>1. Leads(n, x, n - 1) /\ Leads(0, x, 0)
      BY <2>1, RemoveLeads
    <3>2. Leads(n - 1, y, n) /\ (n - 1 # 0 => Leads(0, y, Torn))
      <4>1. Leads(n - 1, y, (n - 1) + 1) /\ (n - 1 # 0 => Leads(0, y, Torn))
        BY <2>1, SetLeads
      <4> QED
        BY <2>1, <4>1
    <3>3. Leads(n, z, n + 1) /\ Leads(Torn, z, Torn)
      BY SetLeads
    <3> QED
      BY <3>1, <3>2, <3>3
  <2>3. x \in E /\ y \in E /\ z \in E
    OBVIOUS
  <2> HIDE DEF x, y, z, E
  <2>4. CASE n = c
    <3>1. Path(<<x, y, z>>, c, n + 1, S)
      BY <1>1, <2>1, <2>2, <2>3, <2>4, PathThree
    <3> QED
      BY <1>4, <2>1, <3>1 DEF x, y, z
  <2>5. CASE n # c /\ n = 1
    <3>1. c = 0 /\ n - 1 = 0
      BY <2>5
    <3>2. Path(<<x, y, z>>, c, n + 1, S)
      BY <1>1, <2>1, <2>2, <2>3, <3>1, PathThree
    <3> QED
      BY <1>4, <2>1, <3>2 DEF x, y, z
  <2>6. CASE n # c /\ n # 1
    <3>1. c = 0 /\ n - 1 # 0 /\ Torn \in S
      BY <1>1, <2>6
    <3>2. Path(<<x, y, z>>, c, Torn, S)
      BY <1>1, <2>2, <2>3, <3>1, PathThree
    <3> QED
      BY <1>4, <2>6, <3>1, <3>2 DEF x, y, z
  <2> QED
    BY <2>4, <2>5, <2>6
<1>5. ASSUME n > 0, Len(s) = n - 1, ws = <<RemoveValue(n - 1)>>
      PROVE  \E f \in S : Path(ws, c, f, S) /\ (n = c /\ f = 0 => Len(ws) <= 1 /\ s = <<>>)
  <2> DEFINE w == RemoveValue(n - 1)
  <2>1. w \in {w} /\ Len(ws) <= 1
    <3>1. Len(ws) = 1
      BY <1>5
    <3> QED
      BY <3>1
  <2>2. Leads(n, w, n - 1) /\ Leads(0, w, 0)
    BY <1>5, RemoveLeads
  <2>3. CASE n = c
    <3>1. n - 1 \in S
      <4>1. n - 1 \in 0 .. MaxPucks
        BY <1>1, <1>5
      <4> QED
        BY <4>1
    <3> HIDE DEF w
    <3>2. Path(<<w>>, c, n - 1, S)
      BY <1>1, <2>1, <2>2, <2>3, <3>1, PathOne
    <3>3. n - 1 = 0 => s = <<>>
      BY <1>5, EmptySeq DEF PuckLists
    <3> QED
      BY <1>5, <2>1, <3>1, <3>2, <3>3 DEF w
  <2>4. CASE n # c
    <3>1. c = 0
      BY <2>4
    <3> HIDE DEF w
    <3>2. Path(<<w>>, c, 0, S)
      BY <1>1, <2>1, <2>2, <3>1, PathOne
    <3> QED
      BY <1>1, <1>5, <2>4, <3>2 DEF w
  <2> QED
    BY <2>3, <2>4
<1>6. ASSUME NEW keep \in 1 .. n, ws = [i \in 1 .. n - keep |-> RemoveValue(n - i)]
      PROVE  \E f \in S : Path(ws, c, f, S) /\ (n = c => f # 0)
  <2>1. keep \in Nat /\ keep > 0 /\ keep <= n /\ n - keep \in Nat /\ Len(ws) = n - keep
    BY <1>1, <1>6
  <2>2. ASSUME NEW i \in 1 .. Len(ws)
        PROVE  /\ Leads(n - (i - 1), ws[i], n - i)
               /\ Leads(0, ws[i], 0)
    <3> DEFINE k == n - (i - 1)
    <3>1. k \in 0 .. MaxPucks /\ k > 0 /\ k - 1 = n - i
      BY <1>1, <2>1
    <3>2. ws[i] = RemoveValue(k - 1)
      BY <1>6, <2>1, <3>1
    <3> HIDE DEF k
    <3>3. Leads(k, RemoveValue(k - 1), k - 1) /\ Leads(0, RemoveValue(k - 1), 0)
      BY <3>1, RemoveLeads
    <3> QED
      BY <3>1, <3>2, <3>3 DEF k
  <2>3. CASE n = c
    <3> DEFINE h == [i \in 0 .. Len(ws) |-> n - i]
    <3>1. \A i \in 0 .. Len(ws) : n - i \in 0 .. MaxPucks
      BY <1>1, <2>1
    <3>2. h \in [0 .. Len(ws) -> S]
      BY <3>1
    <3>3. h[0] = c /\ h[Len(ws)] = keep
      BY <1>1, <2>1, <2>3
    <3>4. \A i \in 1 .. Len(ws) : i \in 0 .. Len(ws) /\ i - 1 \in 0 .. Len(ws)
      BY <2>1
    <3>5. \A i \in 1 .. Len(ws) : Leads(h[i - 1], ws[i], h[i])
      BY <2>2, <3>4
    <3> HIDE DEF h
    <3>6. Path(ws, c, keep, S)
      BY <3>2, <3>3, <3>5 DEF Path
    <3>7. keep \in S /\ keep # 0
      <4>1. keep \in 0 .. MaxPucks
        BY <1>1, <2>1
      <4> QED
        BY <2>1, <4>1
    <3> QED
      BY <3>6, <3>7
  <2>4. CASE n # c
    <3> DEFINE h == [i \in 0 .. Len(ws) |-> 0]
    <3>1. h \in [0 .. Len(ws) -> S]
      BY <1>1
    <3>2. h[0] = c /\ h[Len(ws)] = 0
      BY <2>1, <2>4
    <3>3. \A i \in 1 .. Len(ws) : i \in 0 .. Len(ws) /\ i - 1 \in 0 .. Len(ws)
      BY <2>1
    <3>4. \A i \in 1 .. Len(ws) : Leads(h[i - 1], ws[i], h[i])
      BY <2>2, <3>3
    <3> HIDE DEF h
    <3>5. Path(ws, c, 0, S)
      BY <3>1, <3>2, <3>4 DEF Path
    <3> QED
      BY <1>1, <2>4, <3>5
  <2> QED
    BY <2>3, <2>4
<1> QED
  BY <1>2, <1>3, <1>4, <1>5, <1>6 DEF Handler

LEMMA HandlerWrites ==
  ASSUME NEW s, NEW ws, NEW n \in 0 .. MaxPucks, Handler(n, s, ws)
  PROVE  /\ ws \in Seq(Writes)
         /\ \A i \in DOMAIN ws : ws[i].op # "observe"
<1>1. n \in Nat /\ MaxPucks \in Nat /\ n <= MaxPucks
  BY PucksAssumption
<1>2. ws \in Seq(Writes)
  <2>1. ASSUME NEW k \in Keys, NEW p \in PuckModel
        PROVE  SetValue(k, p) \in Writes
    BY DEF SetValue, Writes
  <2>2. ASSUME NEW k \in Keys
        PROVE  RemoveValue(k) \in Writes /\ UpdateChildValues(k, "Skate") \in Writes
    BY DEF RemoveValue, UpdateChildValues, Writes, ShotTypes, Continuing
  <2>3. /\ n < MaxPucks => n \in Keys
        /\ n > 0 => n - 1 \in Keys
    BY <1>1 DEF Keys
  <2>4. ASSUME NEW p \in PuckModel, n < MaxPucks, ws = <<SetValue(n, p)>>
        PROVE  ws \in Seq(Writes)
    BY <2>1, <2>3, <2>4
  <2>5. ASSUME n > 0, ws = <<UpdateChildValues(n - 1, "Skate")>>
        PROVE  ws \in Seq(Writes)
    BY <2>2, <2>3, <2>5
  <2>6. ASSUME NEW p \in PuckModel, NEW q \in PuckModel, n \in 1 .. MaxPucks - 1,
               ws = <<RemoveValue(n - 1), SetValue(n - 1, p), SetValue(n, q)>>
        PROVE  ws \in Seq(Writes)
    <3> DEFINE x == RemoveValue(n - 1)
               y == SetValue(n - 1, p)
               z == SetValue(n, q)
    <3>1. n < MaxPucks /\ n > 0
      BY <1>1, <2>6
    <3>2. x \in Writes /\ y \in Writes /\ z \in Writes
      BY <2>1, <2>2, <2>3, <3>1
    <3> HIDE DEF x, y, z
    <3>3. <<x, y, z>> \in Seq(Writes)
      BY <3>2
    <3> QED
      BY <2>6, <3>3 DEF x, y, z
  <2>7. ASSUME n > 0, ws = <<RemoveValue(n - 1)>>
        PROVE  ws \in Seq(Writes)
    BY <2>2, <2>3, <2>7
  <2>8. ASSUME NEW keep \in 1 .. n, ws = [i \in 1 .. n - keep |-> RemoveValue(n - i)]
        PROVE  ws \in Seq(Writes)
    <3>1. n - keep \in Nat /\ \A i \in 1 .. n - keep : n - i \in Keys
      BY <1>1 DEF Keys
    <3>2. \A i \in 1 .. n - keep : RemoveValue(n - i) \in Writes
      BY <2>2, <3>1
    <3> QED
      BY <2>8, <3>1, <3>2
  <2> QED
    BY <2>4, <2>5, <2>6, <2>7, <2>8 DEF Handler
<1>3. \A w \in Writes : w.op # "observe"
  BY DEF Writes
<1>4. \A i \in DOMAIN ws : ws[i] \in Writes
  BY <1>2
<1> QED
  BY <1>2, <1>3, <1>4

(* What the user can do in a tab, as far as the game is concerned. *)
LEMMA TapEdits ==
  ASSUME TypeOK, NEW v \in Tabs, UserStep(v)
  PROVE  \/ ViewDidLoad(v)
         \/ UNCHANGED <<running, loaded, pucks, firebase, queues>>
         \/ running /\ Ends
         \/ Tap(v) /\ \E s, ws : Edit(v, s, ws) /\ Handler(Len(pucks[v]), s, ws)
<1> DEFINE n == Len(pucks[v])
<1>1. pucks[v] \in PuckLists /\ n \in Nat /\ n <= MaxPucks /\ MaxPucks \in Nat
  BY PucksAssumption DEF TypeOK, PuckLists
<1>2. ASSUME NEW pos \in Positions, NEW type \in ShotTypes, NEW newSeq \in BOOLEAN,
             MakeNewShotEntity(v, pos, type, newSeq)
      PROVE  \E s, ws : Edit(v, s, ws) /\ Handler(n, s, ws)
  <2> DEFINE p == Puck(pos, type, v, newSeq)
  <2>1. p \in PuckModel
    BY PuckType DEF Tabs
  <2> QED
    BY <1>2, <2>1 DEF MakeNewShotEntity, Handler
<1>3. ASSUME NEW pos \in Positions, TouchOutside(v, pos)
      PROVE  UNCHANGED <<running, loaded, pucks, firebase, queues>>
  BY <1>3 DEF TouchOutside
<1>4. ASSUME NEW pos \in Positions, TouchPass(v, pos)
      PROVE  Tap(v) /\ \E s, ws : Edit(v, s, ws) /\ Handler(n, s, ws)
  BY <1>2, <1>4 DEF TouchPass, ShotTypes, Continuing
<1>5. ASSUME NEW pos \in Positions, TouchSkate(v, pos)
      PROVE  Tap(v) /\ \E s, ws : Edit(v, s, ws) /\ Handler(n, s, ws)
  <2>1. Tap(v) /\ pucks[v] # <<>>
        /\ Edit(v, [pucks[v] EXCEPT ![n].shotType = "Skate"], <<UpdateChildValues(n - 1, "Skate")>>)
    BY <1>5 DEF TouchSkate, NearLast
  <2>2. n > 0
    BY <1>1, <2>1, EmptySeq DEF PuckLists
  <2> QED
    BY <2>1, <2>2 DEF Handler
<1>6. ASSUME NEW outcome \in Outcomes, ShotButton(v, outcome)
      PROVE  Tap(v) /\ \E s, ws : Edit(v, s, ws) /\ Handler(n, s, ws)
  BY <1>2, <1>6, FBShotTrackerAssumption DEF ShotButton, ShotTypes
<1>7. ASSUME SameSequence(v)
      PROVE  Tap(v) /\ \E s, ws : Edit(v, s, ws) /\ Handler(n, s, ws)
  <2> DEFINE net   == Puck(Crease, "Same Sequence", v, FALSE)
             again == Puck(currpos[v], "Same Sequence", v, FALSE)
             s == SubSeq(pucks[v], 1, n - 1) \o <<net, again>>
             ws == <<RemoveValue(n - 1), SetValue(n - 1, net), SetValue(n, again)>>
  <2>1. Tap(v) /\ n \in 1 .. MaxPucks - 1 /\ currpos[v] \in Positions /\ Edit(v, s, ws)
    BY <1>7, FBShotTrackerAssumption DEF SameSequence
  <2>2. net \in PuckModel /\ again \in PuckModel
    BY <2>1, PuckType, FBShotTrackerAssumption DEF ShotTypes, Continuing, Tabs
  <2> HIDE DEF net, again, s, n
  <2>3. Handler(n, s, ws)
    BY <2>1, <2>2 DEF Handler
  <2> QED
    BY <2>1, <2>3
<1>8. ASSUME SameSequenceTraps(v)
      PROVE  running /\ Ends
  BY <1>8 DEF SameSequenceTraps, Tap
<1>9. ASSUME UndoShot(v)
      PROVE  Tap(v) /\ \E s, ws : Edit(v, s, ws) /\ Handler(n, s, ws)
  <2> DEFINE s == SubSeq(pucks[v], 1, n - 1)
  <2>1. Tap(v) /\ n > 0 /\ Edit(v, s, <<RemoveValue(n - 1)>>)
    BY <1>9 DEF UndoShot
  <2>2. n - 1 \in 0 .. n
    BY <1>1, <2>1
  <2>3. Len(s) = n - 1
    BY <1>1, <2>2, PuckListsSub
  <2> HIDE DEF s
  <2> QED
    BY <2>1, <2>3 DEF Handler
<1>10. ASSUME DeadSequence(v)
       PROVE  Tap(v) /\ \E s, ws : Edit(v, s, ws) /\ Handler(n, s, ws)
  <2>1. Tap(v)
    BY <1>10 DEF DeadSequence
  <2>2. PICK keep \in 1 .. n :
           Edit(v, SubSeq(pucks[v], 1, keep), [i \in 1 .. n - keep |-> RemoveValue(n - i)])
    BY <1>10 DEF DeadSequence
  <2> QED
    BY <2>1, <2>2 DEF Handler
<1> QED
  BY <1>3, <1>4, <1>5, <1>6, <1>7, <1>8, <1>9, <1>10 DEF UserStep

----------------------------------------------------------------------------
(* A patient user. *)

(* Every tab the user has opened observes the node or is about to.         *)
LoadedObserve ==
    \A v \in loaded : \/ v \in Observed
                      \/ \E i \in DOMAIN sharedQueue : sharedQueue[i] = Observe(v)

LEMMA LoadedKeeps ==
  ASSUME TypeOK, LoadedObserve, [Next]_vars
  PROVE  LoadedObserve'
<1> DEFINE Waits(v) == \E i \in DOMAIN sharedQueue : sharedQueue[i] = Observe(v)
           E == Writes \cup Observes
<1>0. sharedQueue \in Seq(E) /\ observers \in Seq(Tabs)
  BY DEF TypeOK
<1>1. ASSUME NEW ws \in Seq(E), sharedQueue' = sharedQueue \o ws, NEW v, Waits(v)
      PROVE  Waits(v)'
  <2> HIDE DEF E
  <2>1. PICK i \in DOMAIN sharedQueue : sharedQueue[i] = Observe(v)
    BY <1>1
  <2>2. i \in DOMAIN sharedQueue' /\ sharedQueue'[i] = sharedQueue[i]
    BY <1>0, <1>1, ConcatProperties
  <2> QED
    BY <2>1, <2>2
<1>2. ASSUME loaded' = loaded, observers' = observers, sharedQueue' = sharedQueue
      PROVE  LoadedObserve'
  BY <1>2 DEF LoadedObserve, Observed
<1>3. ASSUME loaded' = {}
      PROVE  LoadedObserve'
  BY <1>3 DEF LoadedObserve
<1>4. ASSUME NEW u \in Tabs, UserStep(u)
      PROVE  LoadedObserve'
  <2>1. CASE ViewDidLoad(u)
    <3> DEFINE w == Observe(u)
               o == <<w>>
    <3>1. w \in E /\ o \in Seq(E) /\ Len(o) = 1 /\ o[1] = w
      BY DEF Observe, Observes
    <3>2. /\ loaded' = loaded \cup {u} /\ observers' = observers
          /\ sharedQueue' = Append(sharedQueue, w)
      BY <2>1 DEF ViewDidLoad, firebase
    <3> HIDE DEF E, w, o
    <3>3. sharedQueue' = sharedQueue \o o
      <4>1. Append(sharedQueue, w) = sharedQueue \o <<w>>
        BY <1>0, <3>1, AppendIsConcat
      <4> QED
        BY <3>2, <4>1 DEF o
    <3>4. Waits(u)'
      <4> DEFINE k == Len(sharedQueue) + 1
      <4>1. k \in DOMAIN sharedQueue' /\ sharedQueue'[k] = w
        BY <1>0, <3>1, <3>2, AppendProperties
      <4> QED
        BY <4>1 DEF w
    <3>5. \A v \in loaded : v \in Observed' \/ Waits(v)'
      <4> SUFFICES ASSUME NEW v \in loaded PROVE v \in Observed' \/ Waits(v)'
        OBVIOUS
      <4>1. v \in Observed => v \in Observed'
        BY <3>2 DEF Observed
      <4>2. v \in Observed \/ Waits(v)
        BY DEF LoadedObserve
      <4>3. Waits(v) => Waits(v)'
        <5> HIDE DEF Waits
        <5> QED
          BY <1>1, <3>1, <3>3
      <4> QED
        BY <4>1, <4>2, <4>3
    <3> QED
      BY <3>2, <3>4, <3>5 DEF LoadedObserve
  <2>2. CASE UNCHANGED <<running, loaded, pucks, firebase, queues>>
    BY <1>2, <2>2 DEF firebase, queues
  <2>3. CASE Ends
    BY <1>3, <2>3 DEF Ends
  <2>4. ASSUME NEW s, NEW ws, Edit(u, s, ws), Handler(Len(pucks[u]), s, ws)
        PROVE  LoadedObserve'
    <3>1. Len(pucks[u]) \in 0 .. MaxPucks
      BY PucksAssumption DEF TypeOK, PuckLists
    <3>2. ws \in Seq(E)
      BY <2>4, <3>1, HandlerWrites, SeqMonotonic
    <3>3. loaded' = loaded /\ observers' = observers /\ sharedQueue' = sharedQueue \o ws
      BY <2>4 DEF Edit, firebase
    <3>4. ASSUME NEW v \in loaded
          PROVE  v \in Observed' \/ Waits(v)'
      <4>1. v \in Observed => v \in Observed'
        BY <3>3 DEF Observed
      <4>2. v \in Observed \/ Waits(v)
        BY DEF LoadedObserve
      <4>3. Waits(v) => Waits(v)'
        <5> HIDE DEF Waits, E
        <5> QED
          BY <1>1, <3>2, <3>3
      <4> QED
        BY <4>1, <4>2, <4>3
    <3> QED
      BY <3>3, <3>4 DEF LoadedObserve
  <2> QED
    BY <1>4, <2>1, <2>2, <2>3, <2>4, TapEdits
<1>5. ASSUME RunObserve \/ RunWrite
      PROVE  LoadedObserve'
  <2> DEFINE h == Head(sharedQueue)
  <2>1. /\ sharedQueue # <<>> /\ sharedQueue' = Tail(sharedQueue) /\ loaded' = loaded
        /\ IF h.op = "observe" THEN observers' = Append(observers, h.view) ELSE observers' = observers
    BY <1>5 DEF RunObserve, RunWrite, local
  <2> DEFINE n == Len(sharedQueue)
             r == Tail(sharedQueue)
  <2>2. /\ n \in Nat \ {0} /\ h = sharedQueue[1] /\ h \in E /\ Len(r) = n - 1
        /\ \A i \in 1 .. Len(r) : r[i] = sharedQueue[i + 1]
    <3> HIDE DEF E
    <3> QED
      BY <1>0, <2>1, FirstAndRest
  <2>3. ASSUME NEW v \in Observed
        PROVE  v \in Observed'
    <3>1. PICK i \in DOMAIN observers : observers[i] = v
      BY DEF Observed
    <3>2. CASE h.op = "observe"
      <4>1. h.view \in Tabs
        BY <2>2, <3>2 DEF Writes, Observes
      <4>2. observers' = Append(observers, h.view)
        BY <2>1, <3>2
      <4> HIDE DEF h
      <4>3. i \in DOMAIN observers' /\ observers'[i] = v
        BY <1>0, <3>1, <4>1, <4>2, AppendProperties
      <4> QED
        BY <4>3 DEF Observed
    <3>3. CASE h.op # "observe"
      BY <2>1, <3>3 DEF Observed
    <3> QED
      BY <3>2, <3>3
  <2>4. ASSUME NEW v, NEW i \in DOMAIN sharedQueue, sharedQueue[i] = Observe(v)
        PROVE  v \in Observed' \/ Waits(v)'
    <3>1. i \in 1 .. n
      BY <1>0, <2>4
    <3>2. CASE i = 1
      <4>1. h = Observe(v) /\ h.op = "observe" /\ h.view = v
        BY <2>2, <2>4, <3>2 DEF Observe
      <4>2. v \in Tabs
        BY <2>2, <4>1 DEF Writes, Observes
      <4>3. observers' = Append(observers, v)
        BY <2>1, <4>1
      <4> DEFINE k == Len(observers) + 1
      <4>4. k \in DOMAIN observers' /\ observers'[k] = v
        BY <1>0, <4>2, <4>3, AppendProperties
      <4> QED
        BY <4>4 DEF Observed
    <3>3. CASE i # 1
      <4>1. i - 1 \in 1 .. Len(r) /\ (i - 1) + 1 = i
        BY <2>2, <3>1, <3>3
      <4>2. r[i - 1] = Observe(v)
        BY <2>2, <2>4, <4>1
      <4>3. sharedQueue' = r
        BY <2>1
      <4>4. DOMAIN r = 1 .. Len(r)
        <5> HIDE DEF E
        <5>1. r \in Seq(E)
          BY <1>0, <2>1, FirstAndRest
        <5> HIDE DEF r
        <5> QED
          BY <5>1
      <4> HIDE DEF r
      <4>5. i - 1 \in DOMAIN sharedQueue' /\ sharedQueue'[i - 1] = Observe(v)
        BY <4>1, <4>2, <4>3, <4>4
      <4> QED
        BY <4>5
    <3> QED
      BY <3>2, <3>3
  <2> QED
    BY <2>1, <2>3, <2>4 DEF LoadedObserve
<1>6. ASSUME DeliverEvent \/ ServerAnswers \/ Relaunch
      PROVE  LoadedObserve'
  BY <1>2, <1>6 DEF DeliverEvent, ServerAnswers, Relaunch, local, firebase, queues
<1>7. ASSUME CallbackTraps \/ Terminate
      PROVE  LoadedObserve'
  BY <1>3, <1>7 DEF CallbackTraps, Terminate, Ends
<1>8. ASSUME UNCHANGED vars
      PROVE  LoadedObserve'
  BY <1>2, <1>8 DEF vars, local, firebase, queues
<1> QED
  BY <1>4, <1>5, <1>6, <1>7, <1>8 DEF Next, QueueStep

(* When a patient user taps in a tab, it lists as many pucks as the game   *)
(* holds, or the game is empty.                                            *)
LEMMA TapAgrees ==
  ASSUME IInv, LoadedObserve, Patient, NEW v \in Tabs, Tap(v), WellFormed(data)
  PROVE  /\ Settled
         /\ Size(data) = 0 \/ Len(pucks[v]) = Size(data)
<1>1. Settled /\ running /\ v \in loaded
  BY DEF Tap
<1>2. DOMAIN mainQueue = {} /\ DOMAIN sharedQueue = {}
  BY <1>1 DEF Settled
<1>3. v \in Observed
  BY <1>1, <1>2 DEF LoadedObserve
<1>4. Shows(v)
  BY <1>1, <1>2, <1>3 DEF IInv, NoTabLeftBehind, HasEvent, Effective, Settled
<1>5. Present(data) = {} \/ pucks[v] = Children(data)
  BY <1>4 DEF Shows
<1> QED
  BY <1>1, <1>5, SizeType, ListAt DEF IInv, TypeOK

(* What is still to be written to a game without gaps touches its end      *)
(* only, unless it tears the game.                                         *)
QueueLeads ==
    WellFormed(data) =>
        \E f \in 0 .. Torn : Path(sharedQueue, Size(data), f, 0 .. Torn)

PInv == Patient /\ IInv /\ LoadedObserve /\ QueueLeads

(* The first piece of work in the queue. *)
LEMMA PathRun ==
  ASSUME TypeOK, NEW S, NEW c \in 0 .. MaxPucks, NEW f, Path(sharedQueue, c, f, S),
         sharedQueue # <<>>, sharedQueue' = Tail(sharedQueue)
  PROVE  \E m \in S : /\ Leads(c, Head(sharedQueue), m)
                      /\ Head(sharedQueue).op = "observe" => m = c
                      /\ Path(sharedQueue', m, f, S)
<1> DEFINE E == Writes \cup Observes
<1>1. sharedQueue \in Seq(E)
  BY DEF TypeOK
<1> HIDE DEF E
<1>2. PICK m \in S : Leads(c, Head(sharedQueue), m) /\ Path(Tail(sharedQueue), m, f, S)
  BY <1>1, PathTail
<1>3. c # Torn
  BY PucksAssumption DEF Torn
<1>4. Head(sharedQueue).op = "observe" => m = c
  BY <1>2, <1>3 DEF Leads
<1> QED
  BY <1>2, <1>4

(* The game changes by the first write in the queue only. *)
LEMMA DataChanges ==
  ASSUME TypeOK, [Next]_vars, data' # data
  PROVE  /\ RunWrite
         /\ Head(sharedQueue) \in Writes
         /\ data' = Apply(data, Head(sharedQueue))
<1>1. RunWrite
  <2>1. ASSUME NEW v \in Tabs, UserStep(v)
        PROVE  data' = data
    <3>1. ViewDidLoad(v) \/ (\E pos \in Positions : TouchOutside(v, pos)) => data' = data
      BY DEF ViewDidLoad, TouchOutside, firebase
    <3>2. ASSUME NEW s, NEW ws, Edit(v, s, ws)
          PROVE  data' = data
      BY <3>2 DEF Edit, firebase
    <3>3. UndoShot(v) \/ DeadSequence(v) \/ SameSequence(v) => data' = data
      BY <3>2 DEF UndoShot, DeadSequence, SameSequence
    <3>4. ASSUME NEW pos, NEW type, NEW newSeq, MakeNewShotEntity(v, pos, type, newSeq)
          PROVE  data' = data
      BY <3>2, <3>4 DEF MakeNewShotEntity
    <3>5. SameSequenceTraps(v) => data' = data
      BY DEF SameSequenceTraps, Ends
    <3> QED
      BY <2>1, <3>1, <3>2, <3>3, <3>4, <3>5 DEF UserStep, TouchPass, TouchSkate, ShotButton
  <2>2. RunObserve \/ DeliverEvent \/ ServerAnswers \/ Relaunch => data' = data
    BY DEF RunObserve, DeliverEvent, ServerAnswers, Relaunch, firebase
  <2>3. CallbackTraps \/ Terminate => data' = data
    BY DEF CallbackTraps, Terminate, Ends
  <2>4. UNCHANGED vars => data' = data
    BY DEF vars, firebase
  <2> QED
    BY <2>1, <2>2, <2>3, <2>4 DEF Next, QueueStep
<1>2. Head(sharedQueue) \in Writes \cup Observes
  BY <1>1, HeadTailProperties DEF RunWrite, TypeOK
<1> QED
  BY <1>1, <1>2 DEF RunWrite, Observes

LEMMA QueueKeeps ==
  ASSUME PInv, WellFormed(data), [Next]_vars
  PROVE  QueueLeads'
<1> DEFINE S == 0 .. Torn
           c == Size(data)
<1>1. /\ TypeOK /\ data \in Node /\ c \in 0 .. MaxPucks /\ 0 .. MaxPucks \subseteq S /\ Torn \in S
      /\ c \in S
  <2>1. MaxPucks \in Nat /\ Torn \in Nat /\ MaxPucks <= Torn
    BY PucksAssumption DEF Torn
  <2>2. c \in Nat /\ c <= MaxPucks
    BY SizeType
  <2> HIDE DEF c
  <2> QED
    BY <2>1, <2>2 DEF PInv, IInv, TypeOK
<1>2. PICK f \in S : Path(sharedQueue, c, f, S)
  BY DEF PInv, QueueLeads
<1> HIDE DEF S, c
<1>3. ASSUME NEW g \in S, data' = data, Path(sharedQueue', c, g, S)
      PROVE  QueueLeads'
  BY <1>3 DEF QueueLeads, S, c
<1>4. ASSUME data' = data, sharedQueue' = sharedQueue
      PROVE  QueueLeads'
  BY <1>2, <1>3, <1>4
<1>5. ASSUME Ends
      PROVE  QueueLeads'
  <2>1. data' = data /\ sharedQueue' = <<>>
    BY <1>5 DEF Ends
  <2>2. Path(sharedQueue', c, c, S)
    BY <1>1, <2>1, PathEmpty
  <2> QED
    BY <1>1, <1>3, <2>1, <2>2
<1>6. ASSUME NEW v \in Tabs, UserStep(v)
      PROVE  QueueLeads'
  <2>1. CASE ViewDidLoad(v)
    <3> DEFINE w == Observe(v)
               E == Writes \cup Observes
    <3>1. w \in E /\ w.op = "observe" /\ sharedQueue \in Seq(E)
      BY <1>1 DEF Observe, Observes, TypeOK
    <3>2. data' = data /\ sharedQueue' = Append(sharedQueue, w)
      BY <2>1 DEF ViewDidLoad, firebase
    <3> HIDE DEF w, E
    <3>3. Leads(f, w, f)
      BY <3>1 DEF Leads
    <3>4. Path(sharedQueue', c, f, S)
      BY <1>2, <3>1, <3>2, <3>3, PathJoin
    <3> QED
      BY <1>3, <3>2, <3>4
  <2>2. CASE UNCHANGED <<running, loaded, pucks, firebase, queues>>
    BY <1>4, <2>2 DEF firebase, queues
  <2>3. ASSUME NEW s, NEW ws, Tap(v), Edit(v, s, ws), Handler(Len(pucks[v]), s, ws)
        PROVE  QueueLeads'
    <3> DEFINE n == Len(pucks[v])
    <3>1. n \in 0 .. MaxPucks
      BY <1>1, PucksAssumption DEF TypeOK, PuckLists
    <3>2. s \in PuckLists
      <4>1. TypeOK'
        BY <1>1, <1>6, UserType
      <4>2. pucks'[v] = s
        BY <1>1, <2>3 DEF TypeOK, Edit
      <4> QED
        BY <4>1, <4>2 DEF TypeOK
    <3>3. Settled /\ (c = 0 \/ n = c)
      BY <2>3, TapAgrees DEF PInv, c
    <3>4. data' = data /\ sharedQueue' = ws
      <4>1. ws \in Seq(Writes)
        BY <2>3, <3>1, HandlerWrites
      <4>2. data' = data /\ sharedQueue' = <<>> \o ws
        BY <2>3, <3>3 DEF Edit, firebase, Settled
      <4> QED
        BY <4>1, <4>2, ConcatEmptySeq
    <3> HIDE DEF n
    <3>5. \E g \in S : Path(ws, c, g, S)
      <4>1. n = c \/ (c = 0 /\ Torn \in S)
        BY <1>1, <3>3
      <4>2. Handler(n, s, ws)
        BY <2>3 DEF n
      <4> QED
        BY <1>1, <3>1, <3>2, <4>1, <4>2, HandlerLeads
    <3> QED
      BY <1>3, <3>4, <3>5
  <2> QED
    BY <1>1, <1>5, <1>6, <2>1, <2>2, <2>3, TapEdits
<1>7. ASSUME RunObserve
      PROVE  QueueLeads'
  <2>1. /\ sharedQueue # <<>> /\ sharedQueue' = Tail(sharedQueue)
        /\ Head(sharedQueue).op = "observe" /\ data' = data
    BY <1>7 DEF RunObserve
  <2>2. Path(sharedQueue', c, f, S)
    BY <1>1, <1>2, <2>1, PathRun
  <2> QED
    BY <1>3, <2>1, <2>2
<1>8. ASSUME data' # data
      PROVE  QueueLeads'
  <2>1. RunWrite /\ Head(sharedQueue) \in Writes /\ data' = Apply(data, Head(sharedQueue))
    BY <1>1, <1>8, DataChanges
  <2>2. PICK m \in S : Leads(c, Head(sharedQueue), m) /\ Path(sharedQueue', m, f, S)
    BY <1>1, <1>2, <2>1, PathRun DEF RunWrite
  <2>3. ~WellFormed(data') \/ Size(data') = m
    BY <1>1, <2>1, <2>2, LeadNode DEF c
  <2> QED
    BY <2>2, <2>3 DEF QueueLeads, S
<1>9. ASSUME RunWrite, data' = data
      PROVE  QueueLeads'
  <2>1. /\ sharedQueue # <<>> /\ sharedQueue' = Tail(sharedQueue)
        /\ Head(sharedQueue).op # "observe" /\ data' = Apply(data, Head(sharedQueue))
    BY <1>9 DEF RunWrite
  <2>2. Head(sharedQueue) \in Writes
    <3>1. Head(sharedQueue) \in Writes \cup Observes
      BY <1>1, <2>1, HeadTailProperties DEF TypeOK
    <3> QED
      BY <2>1, <3>1 DEF Observes
  <2>3. PICK m \in S : Leads(c, Head(sharedQueue), m) /\ Path(sharedQueue', m, f, S)
    BY <1>1, <1>2, <2>1, PathRun
  <2>4. ~WellFormed(data') \/ Size(data') = m
    BY <1>1, <2>1, <2>2, <2>3, LeadNode DEF c
  <2> QED
    BY <2>3, <2>4 DEF QueueLeads, S
<1>10. ASSUME DeliverEvent \/ ServerAnswers \/ Relaunch
       PROVE  QueueLeads'
  BY <1>4, <1>10 DEF DeliverEvent, ServerAnswers, Relaunch, local, firebase, queues
<1>11. ASSUME CallbackTraps \/ Terminate
       PROVE  QueueLeads'
  BY <1>5, <1>11 DEF CallbackTraps, Terminate
<1>12. ASSUME UNCHANGED vars
       PROVE  QueueLeads'
  BY <1>4, <1>12 DEF vars, firebase, queues
<1> QED
  BY <1>6, <1>7, <1>8, <1>9, <1>10, <1>11, <1>12 DEF Next, QueueStep

LEMMA PatientInit == Patient /\ Init => PInv
<1> SUFFICES ASSUME Patient, Init PROVE PInv
  OBVIOUS
<1>1. IInv
  BY InvInit
<1>2. LoadedObserve
  BY DEF Init, Fresh, LoadedObserve
<1>3. Size(data) \in 0 .. Torn
  <2>1. Size(data) \in Nat /\ Size(data) <= MaxPucks /\ MaxPucks \in Nat
    BY SizeType, PucksAssumption
  <2> QED
    BY <2>1 DEF Torn
<1>4. Path(sharedQueue, Size(data), Size(data), 0 .. Torn)
  BY <1>3, PathEmpty DEF Init, Fresh
<1> QED
  BY <1>1, <1>2, <1>3, <1>4 DEF PInv, QueueLeads

LEMMA PatientNext == PInv /\ [WellFormed(data) /\ Next]_vars => PInv'
<1> SUFFICES ASSUME PInv, [WellFormed(data) /\ Next]_vars PROVE PInv'
  OBVIOUS
<1>1. IInv' /\ LoadedObserve'
  BY InvNext, LoadedKeeps DEF PInv, IInv
<1>2. QueueLeads'
  <2>1. CASE WellFormed(data) /\ Next
    BY <2>1, QueueKeeps
  <2>2. CASE UNCHANGED vars
    BY <2>2 DEF PInv, QueueLeads, vars, firebase, queues
  <2> QED
    BY <2>1, <2>2
<1> QED
  BY <1>1, <1>2 DEF PInv

(* The recording of a game up to the step that tears it. *)
UntornSpec == Init /\ [][WellFormed(data) /\ Next]_vars

(* One write of a patient user. *)
LEMMA PatientWrites ==
  ASSUME PInv, WellFormed(data), [Next]_vars, data' # data
  PROVE  /\ WellFormed(data') \/ Present(data) = {}
         /\ \A k \in Present(data) :
               \/ data'[k] = data[k]
               \/ /\ k + 1 \notin Present(data)
                  /\ data'[k] \in {Absent, [data[k] EXCEPT !.shotType = "Skate"]}
<1> DEFINE w == Head(sharedQueue)
<1>1. TypeOK /\ data \in Node
  BY DEF PInv, IInv, TypeOK
<1>2. RunWrite /\ w \in Writes /\ data' = Apply(data, w)
  BY <1>1, DataChanges
<1>3. Size(data) \in 0 .. MaxPucks /\ (Size(data) = 0 <=> Present(data) = {})
  BY SizeType, PucksAssumption
<1>4. PICK f \in 0 .. Torn : Path(sharedQueue, Size(data), f, 0 .. Torn)
  BY DEF PInv, QueueLeads
<1>5. PICK m \in 0 .. Torn : Leads(Size(data), w, m)
  BY <1>1, <1>2, <1>3, <1>4, PathRun DEF RunWrite
<1> HIDE DEF w
<1>6. \/ Size(data) = 0 /\ ~WellFormed(data')
      \/ WellFormed(data') /\ Records(data, w, data')
  BY <1>1, <1>2, <1>5, LeadNode
<1>7. CASE Size(data) = 0
  BY <1>3, <1>7
<1>8. CASE WellFormed(data') /\ Records(data, w, data')
  BY <1>1, <1>2, <1>8, RecordsLast
<1> QED
  BY <1>6, <1>7, <1>8

(* A patient user's writes tear a game only while it is empty, however     *)
(* many tabs are used and even when the app ends between the writes of one *)
(* tap; followed up to the step that tears it.                             *)
THEOREM TornWhileEmpty == Patient /\ UntornSpec => TornOnlyWhenEmpty
<1>1. PInv /\ [WellFormed(data) /\ Next]_vars =>
        [WellFormed(data) /\ ~WellFormed(data') => Present(data) = {}]_vars
  <2> SUFFICES ASSUME PInv, [WellFormed(data) /\ Next]_vars,
                      WellFormed(data), ~WellFormed(data')
               PROVE  Present(data) = {}
    OBVIOUS
  <2>1. data' # data /\ [Next]_vars
    OBVIOUS
  <2> QED
    BY <2>1, PatientWrites
<1> QED
  BY <1>1, PatientInit, PatientNext, PTL DEF UntornSpec, TornOnlyWhenEmpty

(* Each of these writes takes the last puck back or makes it a skate, or   *)
(* adds one: none that another puck follows is overwritten or lost.        *)
THEOREM PucksAreKept == Patient /\ UntornSpec => NoPuckLost
<1> DEFINE Kept == WellFormed(data) =>
        \A k \in Present(data) :
            \/ data'[k] = data[k]
            \/ /\ k + 1 \notin Present(data)
               /\ data'[k] \in {Absent, [data[k] EXCEPT !.shotType = "Skate"]}
<1>1. PInv /\ [WellFormed(data) /\ Next]_vars => [Kept]_vars
  <2> SUFFICES ASSUME PInv, [WellFormed(data) /\ Next]_vars, WellFormed(data)
               PROVE  Kept
    OBVIOUS
  <2>1. CASE data' = data
    BY <2>1
  <2>2. CASE data' # data
    BY <2>2, PatientWrites
  <2> QED
    BY <2>1, <2>2
<1> QED
  BY <1>1, PatientInit, PatientNext, PTL DEF UntornSpec, NoPuckLost

----------------------------------------------------------------------------
(* A patient user and a single tab. *)

OneTab == Patient /\ \E v \in Tabs : Tabs = {v}

(* The tab asks for the game before it writes to it. *)
ObservesAlone ==
    \A i \in DOMAIN sharedQueue : sharedQueue[i].op = "observe" => Len(sharedQueue) = 1

(* Nothing happens before the tab is opened. *)
Idle(v) ==
    /\ ~running => loaded = {}
    /\ loaded = {} => /\ sharedQueue = <<>>
                      /\ mainQueue = <<>>
                      /\ pucks[v] = <<>>
                      /\ observers = <<>>

(* Nothing is written before the server has answered. *)
Unanswered ==
    ~synced => /\ mainQueue = <<>>
               /\ \A i \in DOMAIN sharedQueue : sharedQueue[i].op = "observe"

(* The writes that wait tear nothing; when they leave an empty game, the   *)
(* tab lists none of its pucks and no event is going to bring them back.   *)
(* Without this last part the tab would compute the next key from a list   *)
(* longer than the game, as the callback leaves it alone once the game is  *)
(* empty.                                                                  *)
Empties(v) ==
    \E f \in 0 .. MaxPucks :
        /\ Path(sharedQueue, Size(data), f, 0 .. MaxPucks)
        /\ f = 0 => /\ Len(sharedQueue) <= 1
                    /\ pucks[v] = <<>>
                    /\ \A i \in DOMAIN mainQueue : Present(mainQueue[i].snap) = {}

Sole(v) ==
    /\ WellFormed(data)
    /\ ObservesAlone
    /\ Idle(v)
    /\ Unanswered
    /\ Empties(v)

SInv == /\ Patient /\ IInv /\ LoadedObserve
        /\ \E v \in Tabs : Tabs = {v} /\ Sole(v)

(* The app's end leaves the game as it is and everything else empty. *)
LEMMA SoleEnds ==
  ASSUME TypeOK, NEW v \in Tabs, WellFormed(data), Ends
  PROVE  Sole(v)'
<1>1. /\ running' = FALSE /\ loaded' = {} /\ observers' = <<>> /\ pucks'[v] = <<>>
      /\ sharedQueue' = <<>> /\ mainQueue' = <<>> /\ data' = data
  BY DEF Ends
<1>2. Size(data) \in 0 .. MaxPucks
  BY SizeType, PucksAssumption
<1>3. Path(<<>>, Size(data), Size(data), 0 .. MaxPucks)
  BY <1>2, PathEmpty
<1>4. Empties(v)'
  <2>1. Len(<<>>) = 0 /\ DOMAIN <<>> = {}
    OBVIOUS
  <2> QED
    BY <1>1, <1>2, <1>3, <2>1 DEF Empties
<1> QED
  BY <1>1, <1>4 DEF Sole, ObservesAlone, Idle, Unanswered

LEMMA SoleStays ==
  ASSUME NEW v \in Tabs, Sole(v),
         UNCHANGED <<running, loaded, pucks, firebase, queues>>
  PROVE  Sole(v)'
<1>1. /\ running' = running /\ loaded' = loaded /\ pucks' = pucks /\ data' = data
      /\ synced' = synced /\ observers' = observers
      /\ sharedQueue' = sharedQueue /\ mainQueue' = mainQueue
  BY DEF firebase, queues
<1> QED
  BY <1>1 DEF Sole, ObservesAlone, Idle, Unanswered, Empties

LEMMA SoleUser ==
  ASSUME SInv, NEW v \in Tabs, Tabs = {v}, Sole(v), UserStep(v)
  PROVE  Sole(v)'
<1> DEFINE S == 0 .. MaxPucks
           c == Size(data)
<1>1. TypeOK /\ data \in Node /\ WellFormed(data) /\ c \in S
  <2>1. c \in S
    BY SizeType, PucksAssumption
  <2> HIDE DEF c
  <2> QED
    BY <2>1 DEF SInv, IInv, TypeOK, Sole
<1>2. PICK f \in S : /\ Path(sharedQueue, c, f, S)
                     /\ f = 0 => /\ Len(sharedQueue) <= 1
                                 /\ pucks[v] = <<>>
                                 /\ \A i \in DOMAIN mainQueue : Present(mainQueue[i].snap) = {}
  BY DEF Sole, Empties
<1>3. CASE ViewDidLoad(v)
  <2> DEFINE w == Observe(v)
             E == Writes \cup Observes
  <2>1. w \in E /\ w.op = "observe" /\ sharedQueue \in Seq(E)
    BY <1>1 DEF Observe, Observes, TypeOK
  <2>2. loaded = {}
    BY <1>1, <1>3 DEF ViewDidLoad, TypeOK
  <2>3. sharedQueue = <<>> /\ mainQueue = <<>>
    BY <2>2 DEF Sole, Idle
  <2>4. /\ running /\ running' = running /\ loaded' = loaded \cup {v} /\ pucks' = pucks
        /\ data' = data /\ synced' = synced /\ observers' = observers
        /\ mainQueue' = mainQueue /\ sharedQueue' = Append(sharedQueue, w)
    BY <1>3 DEF ViewDidLoad, firebase
  <2> HIDE DEF w, E, S, c
  <2>5. Leads(f, w, f)
    BY <2>1 DEF Leads
  <2>6. Path(sharedQueue', c, f, S)
    BY <1>2, <2>1, <2>4, <2>5, PathJoin
  <2>7. sharedQueue' = <<w>> /\ Len(<<w>>) = 1 /\ DOMAIN <<w>> = {1} /\ <<w>>[1] = w
    BY <2>3, <2>4
  <2>8. ObservesAlone' /\ Unanswered'
    BY <2>1, <2>3, <2>4, <2>7 DEF ObservesAlone, Unanswered
  <2>9. Idle(v)'
    BY <2>4 DEF Idle
  <2>10. Empties(v)'
    <3>1. f = 0 => /\ Len(sharedQueue') <= 1
                   /\ pucks'[v] = <<>>
                   /\ \A i \in DOMAIN mainQueue' : Present(mainQueue'[i].snap) = {}
      BY <1>2, <2>4, <2>7
    <3> QED
      BY <2>4, <2>6, <3>1 DEF Empties, S, c
  <2> QED
    BY <1>1, <2>4, <2>8, <2>9, <2>10 DEF Sole
<1>4. CASE UNCHANGED <<running, loaded, pucks, firebase, queues>>
  BY <1>4, SoleStays
<1>5. CASE Ends
  BY <1>1, <1>5, SoleEnds
<1>6. ASSUME NEW s, NEW ws, Tap(v), Edit(v, s, ws), Handler(Len(pucks[v]), s, ws)
      PROVE  Sole(v)'
  <2> DEFINE n == Len(pucks[v])
  <2>1. n \in 0 .. MaxPucks
    BY <1>1, PucksAssumption DEF TypeOK, PuckLists
  <2>2. s \in PuckLists /\ pucks'[v] = s
    <3>1. TypeOK'
      BY <1>1, UserType
    <3>2. pucks'[v] = s
      BY <1>1, <1>6 DEF TypeOK, Edit
    <3> QED
      BY <3>1, <3>2 DEF TypeOK
  <2>3. Settled /\ (c = 0 \/ n = c)
    BY <1>1, <1>6, TapAgrees DEF SInv
  <2>4. sharedQueue = <<>> /\ mainQueue = <<>> /\ synced /\ running /\ v \in loaded
    BY <1>6, <2>3 DEF Settled, Tap
  <2>5. n = c
    <3>1. CASE c = 0
      <4>1. f = c
        BY <1>1, <1>2, <2>4, PathEmpty
      <4>2. pucks[v] = <<>>
        BY <1>2, <3>1, <4>1
      <4>3. Len(<<>>) = 0
        OBVIOUS
      <4> QED
        BY <3>1, <4>2, <4>3
    <3> QED
      BY <2>3, <3>1
  <2>6. ws \in Seq(Writes) /\ \A i \in DOMAIN ws : ws[i].op # "observe"
    BY <1>6, <2>1, HandlerWrites
  <2>7. /\ running' = running /\ loaded' = loaded /\ data' = data /\ synced' = synced
        /\ mainQueue' = mainQueue /\ sharedQueue' = ws
    <3>1. sharedQueue' = <<>> \o ws
      BY <1>6, <2>4 DEF Edit
    <3> QED
      BY <1>6, <2>6, <3>1, ConcatEmptySeq DEF Edit, firebase
  <2> HIDE DEF n, c, S
  <2>8. PICK g \in S : Path(ws, c, g, S) /\ (n = c /\ g = 0 => Len(ws) <= 1 /\ s = <<>>)
    <3>1. Handler(n, s, ws)
      BY <1>6 DEF n
    <3>2. 0 .. MaxPucks \subseteq S /\ c \in 0 .. MaxPucks
      BY <1>1 DEF S
    <3> QED
      BY <2>1, <2>2, <2>5, <3>1, <3>2, HandlerLeads
  <2>9. Empties(v)'
    <3>1. g = 0 => /\ Len(sharedQueue') <= 1
                   /\ pucks'[v] = <<>>
                   /\ \A i \in DOMAIN mainQueue' : Present(mainQueue'[i].snap) = {}
      BY <2>2, <2>4, <2>5, <2>7, <2>8
    <3> QED
      BY <2>7, <2>8, <3>1 DEF Empties, S, c
  <2>10. ObservesAlone' /\ Unanswered' /\ Idle(v)'
    BY <2>4, <2>6, <2>7 DEF ObservesAlone, Unanswered, Idle
  <2> QED
    BY <1>1, <2>7, <2>9, <2>10 DEF Sole
<1> QED
  BY <1>1, <1>3, <1>4, <1>5, <1>6, TapEdits

(* The rest of a queue whose observations stand alone. *)
LEMMA QueueTail ==
  ASSUME TypeOK, ObservesAlone, sharedQueue # <<>>, sharedQueue' = Tail(sharedQueue)
  PROVE  /\ Head(sharedQueue) \in Writes \cup Observes
         /\ Head(sharedQueue) = sharedQueue[1] /\ 1 \in DOMAIN sharedQueue
         /\ Len(sharedQueue) \in Nat /\ Len(sharedQueue') = Len(sharedQueue) - 1
         /\ Len(sharedQueue) <= 1 => sharedQueue' = <<>>
         /\ \A i \in DOMAIN sharedQueue' : sharedQueue'[i].op # "observe"
<1> DEFINE E == Writes \cup Observes
           q == sharedQueue
           r == Tail(sharedQueue)
<1>1. q \in Seq(E) /\ q # <<>>
  BY DEF TypeOK
<1> HIDE DEF E
<1>2. /\ Len(q) \in Nat \ {0} /\ Head(q) = q[1] /\ q[1] \in E /\ r \in Seq(E)
      /\ Len(r) = Len(q) - 1
      /\ \A i \in 1 .. Len(r) : r[i] = q[i + 1]
  BY <1>1, FirstAndRest
<1>3. DOMAIN q = 1 .. Len(q) /\ DOMAIN r = 1 .. Len(r)
  BY <1>1, <1>2
<1>4. Len(q) <= 1 => r = <<>>
  <2> HIDE DEF r, q
  <2>1. Len(q) <= 1 => Len(r) = 0
    BY <1>2
  <2> QED
    BY <1>2, <2>1, EmptySeq
<1>5. ASSUME NEW i \in DOMAIN r
      PROVE  r[i].op # "observe"
  <2>1. i + 1 \in DOMAIN q /\ r[i] = q[i + 1] /\ Len(q) # 1
    BY <1>2, <1>3
  <2> QED
    BY <2>1 DEF ObservesAlone
<1>6. 1 \in DOMAIN q
  BY <1>2, <1>3
<1> QED
  BY <1>2, <1>4, <1>5, <1>6 DEF E

(* The events of a round all carry the node. *)
LEMMA RoundSnaps ==
  ASSUME TypeOK, NEW d \in Node
  PROVE  LET q == mainQueue \o Round(d)
         IN  \A i \in DOMAIN q :
                q[i].snap = d \/ \E j \in DOMAIN mainQueue : q[i] = mainQueue[j]
<1> DEFINE E == [view : Tabs, snap : Node]
           r == Round(d)
           q == mainQueue \o r
<1> SUFFICES ASSUME NEW i \in DOMAIN q
             PROVE  q[i].snap = d \/ \E j \in DOMAIN mainQueue : q[i] = mainQueue[j]
  OBVIOUS
<1>1. mainQueue \in Seq(E) /\ r \in Seq(E)
  BY RoundType DEF TypeOK
<1>2. \A j \in DOMAIN r : r[j].snap = d
  BY DEF Round, Event
<1>3. q = mainQueue \o r
  OBVIOUS
<1> HIDE DEF E, r, q
<1>4. /\ Len(q) = Len(mainQueue) + Len(r) /\ q \in Seq(E)
      /\ \A j \in 1 .. Len(mainQueue) + Len(r) :
            q[j] = IF j <= Len(mainQueue) THEN mainQueue[j] ELSE r[j - Len(mainQueue)]
  BY <1>1, <1>3, ConcatProperties
<1>5. i \in 1 .. Len(mainQueue) + Len(r) /\ Len(mainQueue) \in Nat /\ Len(r) \in Nat
  BY <1>1, <1>4
<1>6. CASE i <= Len(mainQueue)
  <2>1. i \in DOMAIN mainQueue
    BY <1>1, <1>5, <1>6
  <2> QED
    BY <1>4, <1>5, <1>6, <2>1
<1>7. CASE ~(i <= Len(mainQueue))
  <2>1. i - Len(mainQueue) \in 1 .. Len(r)
    BY <1>5, <1>7
  <2>2. i - Len(mainQueue) \in DOMAIN r
    BY <1>1, <2>1
  <2> QED
    BY <1>2, <1>4, <1>5, <1>7, <2>2
<1> QED
  BY <1>6, <1>7

LEMMA SoleQueue ==
  ASSUME SInv, NEW v \in Tabs, Tabs = {v}, Sole(v), QueueStep \/ ServerAnswers
  PROVE  Sole(v)'
<1> DEFINE S == 0 .. MaxPucks
           c == Size(data)
           h == Head(sharedQueue)
<1>1. TypeOK /\ data \in Node /\ WellFormed(data) /\ c \in S
  <2>1. c \in S
    BY SizeType, PucksAssumption
  <2> HIDE DEF c
  <2> QED
    BY <2>1 DEF SInv, IInv, TypeOK, Sole
<1>2. PICK f \in S : /\ Path(sharedQueue, c, f, S)
                     /\ f = 0 => /\ Len(sharedQueue) <= 1
                                 /\ pucks[v] = <<>>
                                 /\ \A i \in DOMAIN mainQueue : Present(mainQueue[i].snap) = {}
  BY DEF Sole, Empties
<1>3. c = 0 <=> Present(data) = {}
  BY SizeType
<1>4. ObservesAlone /\ Idle(v) /\ Unanswered
  BY DEF Sole
<1>5. CASE RunObserve
  <2> DEFINE e == Event(h.view, data)
  <2>1. /\ running /\ sharedQueue # <<>> /\ h.op = "observe" /\ sharedQueue' = Tail(sharedQueue)
        /\ running' = running /\ loaded' = loaded /\ pucks' = pucks
        /\ data' = data /\ synced' = synced
        /\ mainQueue' = IF synced THEN Append(mainQueue, e) ELSE mainQueue
    BY <1>5 DEF RunObserve, local
  <2>2. /\ h \in Writes \cup Observes
        /\ Len(sharedQueue) = 1 /\ sharedQueue' = <<>>
    <3>1. /\ h \in Writes \cup Observes /\ h = sharedQueue[1] /\ 1 \in DOMAIN sharedQueue
          /\ Len(sharedQueue) <= 1 => sharedQueue' = <<>>
      BY <1>1, <1>4, <2>1, QueueTail
    <3>2. Len(sharedQueue) = 1
      BY <1>4, <2>1, <3>1 DEF ObservesAlone
    <3> QED
      BY <3>1, <3>2
  <2>3. Path(sharedQueue', c, f, S) /\ f = c
    <3>1. /\ sharedQueue # <<>> /\ sharedQueue' = Tail(sharedQueue)
          /\ Head(sharedQueue).op = "observe"
      BY <2>1
    <3> HIDE DEF c, h, e
    <3>2. Path(sharedQueue', c, f, S)
      <4>1. c \in 0 .. MaxPucks /\ Path(sharedQueue, c, f, S)
        BY <1>1, <1>2
      <4> HIDE DEF S
      <4>2. PICK m \in S : /\ Leads(c, Head(sharedQueue), m)
                           /\ Head(sharedQueue).op = "observe" => m = c
                           /\ Path(sharedQueue', m, f, S)
        BY <1>1, <3>1, <4>1, PathRun
      <4> QED
        BY <3>1, <4>2
    <3>3. Path(<<>>, c, f, S)
      BY <2>2, <3>2
    <3> HIDE DEF S
    <3> QED
      BY <1>1, <3>2, <3>3, PathEmpty
  <2>4. f = 0 => \A i \in DOMAIN mainQueue' : Present(mainQueue'[i].snap) = {}
    <3> SUFFICES ASSUME f = 0, NEW i \in DOMAIN mainQueue'
                 PROVE  Present(mainQueue'[i].snap) = {}
      OBVIOUS
    <3>1. CASE ~synced
      BY <1>2, <2>1, <3>1
    <3>2. CASE synced
      <4> DEFINE M == [view : Tabs, snap : Node]
      <4>1. h.view \in Tabs
        BY <2>1, <2>2 DEF Writes, Observes
      <4>2. e \in M /\ mainQueue \in Seq(M) /\ e.snap = data
        BY <1>1, <4>1 DEF Event, TypeOK
      <4>3. mainQueue' = Append(mainQueue, e)
        BY <2>1, <3>2
      <4> HIDE DEF e, M
      <4>4. /\ DOMAIN mainQueue' = 1 .. Len(mainQueue) + 1 /\ DOMAIN mainQueue = 1 .. Len(mainQueue)
            /\ Len(mainQueue) \in Nat
            /\ mainQueue'[Len(mainQueue) + 1] = e
            /\ \A j \in 1 .. Len(mainQueue) : mainQueue'[j] = mainQueue[j]
        BY <4>2, <4>3, AppendProperties
      <4>5. CASE i = Len(mainQueue) + 1
        BY <1>3, <2>3, <4>2, <4>4, <4>5
      <4>6. CASE i # Len(mainQueue) + 1
        <5>1. i \in DOMAIN mainQueue /\ mainQueue'[i] = mainQueue[i]
          BY <4>4, <4>6
        <5> QED
          BY <1>2, <5>1
      <4> QED
        BY <4>5, <4>6
    <3> QED
      BY <3>1, <3>2
  <2>5. Len(<<>>) = 0 /\ DOMAIN <<>> = {}
    OBVIOUS
  <2>6. Empties(v)'
    <3> HIDE DEF e, h
    <3>1. Len(sharedQueue') <= 1
      BY <2>2, <2>5
    <3>2. f = 0 => pucks'[v] = <<>>
      BY <1>2, <2>1
    <3> HIDE DEF S
    <3>3. f = 0 => /\ Len(sharedQueue') <= 1
                   /\ pucks'[v] = <<>>
                   /\ \A i \in DOMAIN mainQueue' : Present(mainQueue'[i].snap) = {}
      BY <2>4, <3>1, <3>2
    <3>4. data' = data
      BY <2>1
    <3> QED
      BY <2>3, <3>3, <3>4 DEF Empties, S
  <2>7. ObservesAlone' /\ Unanswered' /\ Idle(v)'
    BY <1>4, <2>1, <2>2, <2>5 DEF ObservesAlone, Unanswered, Idle
  <2> QED
    BY <1>1, <2>1, <2>6, <2>7 DEF Sole
<1>6. CASE RunWrite
  <2>1. /\ running /\ sharedQueue # <<>> /\ h.op # "observe" /\ sharedQueue' = Tail(sharedQueue)
        /\ data' = Apply(data, h)
        /\ running' = running /\ loaded' = loaded /\ pucks' = pucks
        /\ synced' = synced /\ observers' = observers
        /\ mainQueue' = mainQueue \/ mainQueue' = mainQueue \o Round(data')
    BY <1>6 DEF RunWrite, local
  <2>2. /\ h \in Writes
        /\ h = sharedQueue[1] /\ 1 \in DOMAIN sharedQueue
        /\ Len(sharedQueue) \in Nat /\ Len(sharedQueue') = Len(sharedQueue) - 1
        /\ Len(sharedQueue) <= 1 => sharedQueue' = <<>>
        /\ \A i \in DOMAIN sharedQueue' : sharedQueue'[i].op # "observe"
    <3>1. h \in Writes \cup Observes
      BY <1>1, <1>4, <2>1, QueueTail
    <3>2. h \in Writes
      BY <2>1, <3>1 DEF Observes
    <3> QED
      BY <1>1, <1>4, <2>1, <3>2, QueueTail
  <2>3. PICK m \in S : Leads(c, h, m) /\ Path(sharedQueue', m, f, S)
    <3> HIDE DEF c
    <3> QED
      BY <1>1, <1>2, <2>1, PathRun
  <2>4. data' \in Node /\ WellFormed(data') /\ Size(data') = m
    <3>1. m # Torn
      BY <2>3, PucksAssumption DEF Torn
    <3> HIDE DEF h
    <3> QED
      BY <1>1, <2>1, <2>2, <2>3, <3>1, LeadNode
  <2>5. synced /\ loaded # {}
    <3>1. synced
      BY <1>4, <2>1, <2>2 DEF Unanswered
    <3>2. loaded # {}
      BY <1>4, <2>1 DEF Idle
    <3> QED
      BY <3>1, <3>2
  <2> HIDE DEF h, c
  <2>6. ASSUME f = 0
        PROVE  /\ Len(sharedQueue') <= 1
               /\ \A i \in DOMAIN mainQueue' : Present(mainQueue'[i].snap) = {}
    <3>1. sharedQueue' = <<>> /\ Len(sharedQueue') <= 1
      BY <1>2, <2>2, <2>6
    <3>2. m = 0
      <4>1. Path(<<>>, m, f, S) /\ m \in S
        BY <2>3, <3>1
      <4> HIDE DEF S
      <4> QED
        BY <2>6, <4>1, PathEmpty
    <3>3. Present(data') = {}
      BY <2>4, <3>2, SizeType
    <3>4. ASSUME NEW i \in DOMAIN mainQueue'
          PROVE  Present(mainQueue'[i].snap) = {}
      <4>1. CASE mainQueue' = mainQueue
        BY <1>2, <2>6, <4>1
      <4>2. CASE mainQueue' = mainQueue \o Round(data')
        <5>1. mainQueue'[i].snap = data' \/ \E j \in DOMAIN mainQueue : mainQueue'[i] = mainQueue[j]
          BY <1>1, <2>4, <4>2, RoundSnaps
        <5> QED
          BY <1>2, <2>6, <3>3, <5>1
      <4> QED
        BY <2>1, <4>1, <4>2
    <3> QED
      BY <3>1, <3>4
  <2>7. Empties(v)'
    <3>1. f = 0 => /\ Len(sharedQueue') <= 1
                   /\ pucks'[v] = <<>>
                   /\ \A i \in DOMAIN mainQueue' : Present(mainQueue'[i].snap) = {}
      BY <1>2, <2>1, <2>6
    <3> QED
      BY <2>3, <2>4, <3>1 DEF Empties
  <2>8. ObservesAlone' /\ Unanswered' /\ Idle(v)'
    BY <1>4, <2>1, <2>2, <2>5 DEF ObservesAlone, Unanswered, Idle
  <2> QED
    BY <2>4, <2>7, <2>8 DEF Sole
<1>7. CASE DeliverEvent
  <2> DEFINE e == Head(mainQueue)
             M == [view : Tabs, snap : Node]
             r == Tail(mainQueue)
  <2>1. /\ running /\ mainQueue # <<>> /\ mainQueue' = r
        /\ pucks' = IF Present(e.snap) = {} THEN pucks
                    ELSE [pucks EXCEPT ![e.view] = Children(e.snap)]
        /\ running' = running /\ loaded' = loaded /\ data' = data /\ synced' = synced
        /\ observers' = observers /\ sharedQueue' = sharedQueue
    BY <1>7 DEF DeliverEvent, firebase
  <2>2. /\ Len(mainQueue) \in Nat \ {0} /\ e = mainQueue[1]
        /\ Len(r) = Len(mainQueue) - 1
        /\ \A i \in 1 .. Len(r) : r[i] = mainQueue[i + 1]
        /\ DOMAIN mainQueue = 1 .. Len(mainQueue) /\ DOMAIN r = 1 .. Len(r)
    <3>1. mainQueue \in Seq(M)
      BY <1>1 DEF TypeOK
    <3> HIDE DEF M
    <3>2. r \in Seq(M)
      BY <2>1, <3>1, FirstAndRest
    <3>3. DOMAIN mainQueue = 1 .. Len(mainQueue) /\ DOMAIN r = 1 .. Len(r)
      <4> HIDE DEF r
      <4> QED
        BY <3>1, <3>2
    <3> QED
      BY <2>1, <3>1, <3>3, FirstAndRest
  <2> HIDE DEF e, r, M
  <2>3. ASSUME f = 0
        PROVE  /\ pucks' = pucks
               /\ \A i \in DOMAIN mainQueue' : Present(mainQueue'[i].snap) = {}
    <3>1. 1 \in DOMAIN mainQueue
      BY <2>2
    <3>2. Present(e.snap) = {}
      BY <1>2, <2>2, <2>3, <3>1
    <3>3. ASSUME NEW i \in DOMAIN mainQueue'
          PROVE  Present(mainQueue'[i].snap) = {}
      <4>1. i + 1 \in DOMAIN mainQueue /\ mainQueue'[i] = mainQueue[i + 1]
        BY <2>1, <2>2
      <4> QED
        BY <1>2, <2>3, <4>1
    <3> QED
      BY <2>1, <3>2, <3>3
  <2>4. synced /\ loaded # {}
    BY <1>4, <2>1 DEF Unanswered, Idle
  <2>5. Empties(v)'
    <3>1. f = 0 => /\ Len(sharedQueue') <= 1
                   /\ pucks'[v] = <<>>
                   /\ \A i \in DOMAIN mainQueue' : Present(mainQueue'[i].snap) = {}
      BY <1>2, <2>1, <2>3
    <3> QED
      BY <1>2, <2>1, <3>1 DEF Empties
  <2>6. ObservesAlone' /\ Unanswered' /\ Idle(v)'
    BY <1>4, <2>1, <2>4 DEF ObservesAlone, Unanswered, Idle
  <2> QED
    BY <1>1, <2>1, <2>5, <2>6 DEF Sole
<1>8. CASE CallbackTraps
  BY <1>1, <1>8, SoleEnds DEF CallbackTraps
<1>9. CASE ServerAnswers
  <2>1. /\ running /\ ~synced /\ observers # <<>> /\ synced' = TRUE
        /\ mainQueue' = mainQueue \o Round(data)
        /\ running' = running /\ loaded' = loaded /\ pucks' = pucks /\ data' = data
        /\ observers' = observers /\ sharedQueue' = sharedQueue
    BY <1>9 DEF ServerAnswers, local
  <2>2. loaded # {}
    BY <1>4, <2>1 DEF Idle
  <2> HIDE DEF c
  <2>3. ASSUME f = 0
        PROVE  Present(data) = {}
    <3>1. Len(sharedQueue) \in Nat /\ Len(sharedQueue) <= 1
          /\ (Len(sharedQueue) = 0 => sharedQueue = <<>>)
          /\ DOMAIN sharedQueue = 1 .. Len(sharedQueue)
      <4> DEFINE E == Writes \cup Observes
      <4>1. sharedQueue \in Seq(E)
        BY <1>1 DEF TypeOK
      <4> HIDE DEF E
      <4> QED
        BY <1>2, <2>3, <4>1, EmptySeq
    <3>2. CASE Len(sharedQueue) = 0
      <4>1. Path(<<>>, c, f, S) /\ c \in S
        BY <1>1, <1>2, <3>1, <3>2
      <4> HIDE DEF S
      <4>2. f = c
        BY <4>1, PathEmpty
      <4> QED
        BY <1>3, <2>3, <4>2
    <3>3. CASE Len(sharedQueue) = 1
      <4>1. 1 \in DOMAIN sharedQueue
        BY <3>1, <3>3
      <4>2. sharedQueue[1].op = "observe"
        BY <1>4, <2>1, <4>1 DEF Unanswered
      <4>3. Leads(c, sharedQueue[1], f)
        <5> DEFINE E == Writes \cup Observes
        <5>1. sharedQueue \in Seq(E)
          BY <1>1 DEF TypeOK
        <5> HIDE DEF E
        <5> QED
          BY <1>2, <3>3, <5>1, PathEnds
      <4>4. f = c
        BY <1>1, <4>2, <4>3, PucksAssumption DEF Leads, Torn
      <4> QED
        BY <1>3, <2>3, <4>4
    <3> QED
      BY <3>1, <3>2, <3>3
  <2>4. ASSUME f = 0, NEW i \in DOMAIN mainQueue'
        PROVE  Present(mainQueue'[i].snap) = {}
    <3>1. mainQueue'[i].snap = data \/ \E j \in DOMAIN mainQueue : mainQueue'[i] = mainQueue[j]
      BY <1>1, <2>1, RoundSnaps
    <3> QED
      BY <1>2, <2>3, <2>4, <3>1
  <2>5. Empties(v)'
    <3>1. f = 0 => /\ Len(sharedQueue') <= 1
                   /\ pucks'[v] = <<>>
                   /\ \A i \in DOMAIN mainQueue' : Present(mainQueue'[i].snap) = {}
      BY <1>2, <2>1, <2>4
    <3> QED
      BY <1>2, <2>1, <3>1 DEF Empties, c
  <2>6. ObservesAlone' /\ Unanswered' /\ Idle(v)'
    BY <1>4, <2>1, <2>2 DEF ObservesAlone, Unanswered, Idle
  <2> QED
    BY <1>1, <2>1, <2>5, <2>6 DEF Sole
<1> QED
  BY <1>5, <1>6, <1>7, <1>8, <1>9 DEF QueueStep

LEMMA OneTabInit == OneTab /\ Init => SInv
<1> SUFFICES ASSUME OneTab, Init PROVE SInv
  OBVIOUS
<1>1. IInv /\ LoadedObserve
  BY InvInit DEF Init, Fresh, LoadedObserve
<1>2. PICK v \in Tabs : Tabs = {v}
  BY DEF OneTab
<1>3. PICK s \in SavedGames : data = NodeOf(s)
  BY DEF Init
<1>4. WellFormed(data)
  BY <1>3, SavedNode, FBShotTrackerAssumption
<1>5. /\ running /\ loaded = {} /\ observers = <<>> /\ pucks[v] = <<>>
      /\ sharedQueue = <<>> /\ mainQueue = <<>>
  BY DEF Init, Fresh
<1>6. Size(data) \in 0 .. MaxPucks
  BY SizeType, PucksAssumption
<1>7. Path(<<>>, Size(data), Size(data), 0 .. MaxPucks)
  BY <1>6, PathEmpty
<1>8. Len(<<>>) = 0 /\ DOMAIN <<>> = {}
  OBVIOUS
<1>9. Empties(v)
  BY <1>5, <1>6, <1>7, <1>8 DEF Empties
<1>10. Sole(v)
  BY <1>4, <1>5, <1>8, <1>9 DEF Sole, ObservesAlone, Idle, Unanswered
<1> QED
  BY <1>1, <1>2, <1>10 DEF SInv, OneTab

LEMMA OneTabNext == SInv /\ [Next]_vars => SInv'
<1> SUFFICES ASSUME SInv, [Next]_vars PROVE SInv'
  OBVIOUS
<1>1. IInv' /\ LoadedObserve' /\ TypeOK
  BY InvNext, LoadedKeeps DEF SInv, IInv
<1>2. PICK v \in Tabs : Tabs = {v} /\ Sole(v)
  BY DEF SInv
<1>3. WellFormed(data)
  BY <1>2 DEF Sole
<1>4. ASSUME NEW u \in Tabs, UserStep(u)
      PROVE  Sole(v)'
  BY <1>2, <1>4, SoleUser
<1>5. ASSUME QueueStep \/ ServerAnswers
      PROVE  Sole(v)'
  BY <1>2, <1>5, SoleQueue
<1>6. ASSUME Terminate
      PROVE  Sole(v)'
  BY <1>1, <1>3, <1>6, SoleEnds DEF Terminate
<1>7. ASSUME Relaunch
      PROVE  Sole(v)'
  <2>1. /\ ~running /\ running' /\ loaded' = loaded /\ pucks' = pucks /\ data' = data
        /\ observers' = observers /\ sharedQueue' = sharedQueue /\ mainQueue' = mainQueue
    BY <1>7 DEF Relaunch, local, queues
  <2>2. loaded = {} /\ sharedQueue = <<>> /\ mainQueue = <<>>
    BY <1>2, <2>1 DEF Sole, Idle
  <2>3. DOMAIN <<>> = {}
    OBVIOUS
  <2>4. ObservesAlone' /\ Unanswered' /\ Idle(v)'
    BY <1>2, <2>1, <2>2, <2>3 DEF Sole, ObservesAlone, Unanswered, Idle
  <2>5. Empties(v)'
    BY <1>2, <2>1 DEF Sole, Empties
  <2> QED
    BY <1>3, <2>1, <2>4, <2>5 DEF Sole
<1>8. ASSUME UNCHANGED vars
      PROVE  Sole(v)'
  BY <1>2, <1>8, SoleStays DEF vars, local, firebase, queues
<1>9. Sole(v)'
  BY <1>4, <1>5, <1>6, <1>7, <1>8 DEF Next
<1> QED
  BY <1>1, <1>2, <1>9 DEF SInv

(* With one tab and a patient user the game never gets a gap and never a   *)
(* child without its x and y, even if the app ends between two writes.     *)
THEOREM OneTabIsNeverTorn == OneTab /\ Spec => []NeverTorn
<1>1. SInv => NeverTorn
  BY DEF SInv, Sole, NeverTorn
<1> QED
  BY <1>1, OneTabInit, OneTabNext, PTL DEF Spec

(* And it is a log: every step of the app, of the queues, of the server    *)
(* and of the system is a step of ShotLog on the list of the game, or      *)
(* leaves that list as it is.                                              *)
THEOREM OneTabIsALog == OneTab /\ Spec => GameIsALog
<1>1. Init => Log!Init
  <2> SUFFICES ASSUME Init PROVE Children(data) \in SavedGames
    BY DEF Log!Init
  <2>1. PICK s \in SavedGames : data = NodeOf(s)
    BY DEF Init
  <2> QED
    BY <2>1, SavedNode, FBShotTrackerAssumption
<1>2. SInv /\ [Next]_vars => [Log!Next]_(Children(data))
  <2> SUFFICES ASSUME SInv, [Next]_vars, Children(data)' # Children(data)
               PROVE  Log!Next
    OBVIOUS
  <2> DEFINE w == Head(sharedQueue)
             s == Children(data)
             t == Children(data')
  <2>1. TypeOK /\ data \in Node
    BY DEF SInv, IInv, TypeOK
  <2>2. data' # data
    OBVIOUS
  <2>3. RunWrite /\ w \in Writes /\ data' = Apply(data, w)
    BY <2>1, <2>2, DataChanges
  <2>4. PICK v \in Tabs : Sole(v)
    BY DEF SInv
  <2>5. WellFormed(data) /\ Size(data) \in 0 .. MaxPucks
    BY <2>4, SizeType, PucksAssumption DEF Sole
  <2>6. PICK f \in 0 .. MaxPucks : Path(sharedQueue, Size(data), f, 0 .. MaxPucks)
    BY <2>4 DEF Sole, Empties
  <2>7. PICK m \in 0 .. MaxPucks : Leads(Size(data), w, m)
    BY <2>1, <2>3, <2>5, <2>6, PathRun DEF RunWrite
  <2> HIDE DEF w
  <2>8. m # Torn
    BY PucksAssumption DEF Torn
  <2>9. WellFormed(data') /\ Records(data, w, data')
    BY <2>1, <2>3, <2>5, <2>7, <2>8, LeadNode
  <2>10. \/ t = s
         \/ \E p \in PuckModel : Len(s) < MaxPucks /\ t = Append(s, p)
         \/ s # <<>> /\ t = SubSeq(s, 1, Len(s) - 1)
         \/ s # <<>> /\ t = [s EXCEPT ![Len(s)].shotType = "Skate"]
    BY <2>1, <2>3, <2>5, <2>9, RecordsLog
  <2>11. t # s
    OBVIOUS
  <2>12. Log!PuckModel = PuckModel
    BY DEF Log!PuckModel, PuckModel, Log!ShotTypes, ShotTypes, Log!Continuing, Continuing
  <2>13. Children(data)' = t
    OBVIOUS
  <2> HIDE DEF s, t
  <2> QED
    BY <2>10, <2>11, <2>12, <2>13 DEF Log!Next, Log!Record, Log!TakeBack, Log!Skate, s
<1> QED
  BY <1>1, <1>2, OneTabInit, OneTabNext, PTL DEF Spec, GameIsALog, Log!Spec
=============================================================================
