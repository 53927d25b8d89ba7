----------------------------- MODULE SharedGame -----------------------------
(***************************************************************************)
(* One game recorded on several devices at once.  Each runs the app with   *)
(* one recording tab open and is named by the period of that tab.          *)
(*                                                                         *)
(* The database client of a device keeps the server's value of the game's  *)
(* node as it heard it last and, on top of it, every write the server has  *)
(* not acknowledged.  It sends writes in order, and all it still has once  *)
(* more after a new connection.  Nothing of this survives the process.     *)
(*                                                                         *)
(* A tap and the events it raises are one step here: FBShotTracker is      *)
(* about the queues between them, and Agreement is what they leave.        *)
(***************************************************************************)
EXTENDS ShotWrites

CONSTANTS
    Crease,         \* the middle of the crease
    SavedGames,     \* what the game may hold to begin with
    WriterSets,     \* the sets of devices whose users may record
    MaxTaps,        \* bound: taps, over all devices
    MaxDrops,       \* bound: connections lost
    MaxEnds         \* bound: apps the system ends

Devices == Periods

ASSUME SharedGameAssumption ==
    /\ Crease \in Positions
    /\ SavedGames \subseteq PuckLists
    /\ WriterSets \subseteq SUBSET Devices
    /\ MaxTaps \in Nat /\ MaxDrops \in Nat /\ MaxEnds \in Nat

VARIABLES
    writers,        \* the devices whose users record; the others look on
    takeBack,       \* they also take pucks back, or record rebounds
    taps, drops,
    ends,           \* so far
    server,         \* the node as the server has it
    running,        \* for each device: the app runs
    online,         \* ... is connected
    synced,         \* ... the server's value has arrived since the app runs
    serverCache,    \* ... the server's value as heard last
    pending,        \* ... writes not acknowledged, in order
    inbox,          \* ... on its way from the server
    pucks           \* ... pucksFromFirebase of the tab

users == <<writers, takeBack>>
counts == <<taps, drops, ends>>
client == <<running, online, synced, serverCache, pending, inbox>>
vars == <<users, counts, server, client, pucks>>

----------------------------------------------------------------------------
Nothing == NodeOf(<<>>)

(* A node and the writes made on top of it, in order. *)
Layered(node, ws) ==
    LET after[i \in 0 .. Len(ws)] == IF i = 0 THEN node ELSE Apply(after[i - 1], ws[i])
    IN  after[Len(ws)]

(* The node a device shows. *)
View(d) == Layered(serverCache[d], pending[d])

(* The server's value; own: it answers a write of the device it is sent    *)
(* to, and the acknowledgement of that write follows it.                   *)
Value(node, own) == [node |-> node, own |-> own]

(* getData's callback, if the node a list s was made of has changed.  On a *)
(* child without x it traps, and s is what the process ends with.          *)
Hear(s, old, new) ==
    IF new = old \/ Present(new) = {} \/ ~Whole(new) THEN s ELSE Children(new)

(* A handler has left list s behind; its writes are applied one by one, *)
(* and each is heard of.                                                *)
AfterWrites(d, s, ws) ==
    LET Step(st, w) ==
            LET new == Apply(st.view, w)
            IN  [view |-> new, list |-> Hear(st.list, st.view, new)]
        after[i \in 0 .. Len(ws)] ==
            IF i = 0 THEN [view |-> View(d), list |-> s]
                     ELSE Step(after[i - 1], ws[i])
    IN  after[Len(ws)]

(* Writes of d the server has taken on the present connection. *)
Taken(d) == Cardinality({i \in DOMAIN inbox[d] : inbox[d][i].own})

TypeOK ==
    /\ writers \in WriterSets
    /\ takeBack \in BOOLEAN
    /\ taps \in 0 .. MaxTaps
    /\ drops \in 0 .. MaxDrops
    /\ ends \in 0 .. MaxEnds
    /\ server \in Node
    /\ running \in [Devices -> BOOLEAN]
    /\ online \in [Devices -> BOOLEAN]
    /\ synced \in [Devices -> BOOLEAN]
    /\ serverCache \in [Devices -> Node]
    /\ pending \in [Devices -> Seq(Writes)]
    /\ inbox \in [Devices -> Seq([node : Node, own : BOOLEAN])]
    /\ \A d \in Devices : Taken(d) <= Len(pending[d])
    /\ pucks \in [Devices -> PuckLists]

(* Every device shows the game. *)
Init ==
    /\ writers \in WriterSets
    /\ takeBack \in BOOLEAN
    /\ taps = 0
    /\ drops = 0
    /\ ends = 0
    /\ \E s \in SavedGames :
        /\ server = NodeOf(s)
        /\ pucks = [d \in Devices |-> s]
    /\ running = [d \in Devices |-> TRUE]
    /\ online = [d \in Devices |-> TRUE]
    /\ synced = [d \in Devices |-> TRUE]
    /\ serverCache = [d \in Devices |-> server]
    /\ pending = [d \in Devices |-> <<>>]
    /\ inbox = [d \in Devices |-> <<>>]

----------------------------------------------------------------------------
(* The process of d ends, with its cache and its writes. *)
Ends(d) ==
    /\ running' = [running EXCEPT ![d] = FALSE]
    /\ online' = [online EXCEPT ![d] = FALSE]
    /\ synced' = [synced EXCEPT ![d] = FALSE]
    /\ serverCache' = [serverCache EXCEPT ![d] = Nothing]
    /\ pending' = [pending EXCEPT ![d] = <<>>]
    /\ inbox' = [inbox EXCEPT ![d] = <<>>]
    /\ pucks' = [pucks EXCEPT ![d] = <<>>]
    /\ UNCHANGED <<users, server>>

(* The user of d, who has seen the game, on or off line. *)
Tap(d) ==
    /\ d \in writers
    /\ running[d]
    /\ synced[d]
    /\ Whole(View(d))
    /\ taps < MaxTaps
    /\ taps' = taps + 1
    /\ UNCHANGED <<drops, ends>>

(* A handler of d leaves list s behind and makes the writes ws, which are  *)
(* on their way before the callback hears of them.                         *)
Edit(d, s, ws) ==
    /\ pending' = [pending EXCEPT ![d] = @ \o ws]
    /\ pucks' = [pucks EXCEPT ![d] = AfterWrites(d, s, ws).list]
    /\ UNCHANGED <<users, server, running, online, synced, serverCache, inbox>>

LastPuck(d) == pucks[d][Len(pucks[d])]

NearLast(d, pos) == pucks[d] # <<>> /\ LastPuck(d).pos = pos /\ LastPuck(d).period = d

(* touchesEnded, on this period's last puck: it becomes a skate. *)
TouchSkate(d, pos) ==
    /\ Tap(d)
    /\ NearLast(d, pos)
    /\ LET n == Len(pucks[d])
       IN  Edit(d, [pucks[d] EXCEPT ![n].shotType = "Skate"],
                <<UpdateChildValues(n - 1, "Skate")>>)

(* Mutant of Record: the key is the list's length after the puck was added. *)
RecordLate(d, p) ==
    /\ Tap(d)
    /\ Len(pucks[d]) < MaxPucks - 1
    /\ Edit(d, Append(pucks[d], p), <<SetValue(Len(pucks[d]) + 1, p)>>)

(* makeNewShotEntity, for a touch elsewhere or a puck button. *)
Record(d, p) ==
    /\ Tap(d)
    /\ Len(pucks[d]) < MaxPucks
    /\ Edit(d, Append(pucks[d], p), <<SetValue(Len(pucks[d]), p)>>)

TouchPass(d, pos) ==
    /\ ~NearLast(d, pos)
    /\ Record(d, Puck(pos, "Pass", d, FALSE))

ShotButton(d, pos, outcome) == Record(d, Puck(pos, outcome, d, TRUE))

(* shotButtonClicked with "Same Sequence". *)
SameSequence(d, pos) ==
    LET n     == Len(pucks[d])
        net   == Puck(Crease, "Same Sequence", d, FALSE)
        again == Puck(pos, "Same Sequence", d, FALSE)
    IN  /\ takeBack
        /\ Tap(d)
        /\ n \in 1 .. MaxPucks - 1
        /\ Edit(d, SubSeq(pucks[d], 1, n - 1) \o <<net, again>>,
                <<RemoveValue(n - 1), SetValue(n - 1, net), SetValue(n, again)>>)

(* ... on an empty list: removeLast traps. *)
SameSequenceTraps(d) ==
    /\ takeBack
    /\ Tap(d)
    /\ pucks[d] = <<>>
    /\ Ends(d)

(* Mutant of UndoShot: a list that is empty is not told from others. *)
UndoShotUnguarded(d) ==
    LET n == Len(pucks[d])
    IN  /\ takeBack
        /\ Tap(d)
        /\ Edit(d, SubSeq(pucks[d], 1, n - 1), <<RemoveValue(n - 1)>>)

UndoShot(d) ==
    LET n == Len(pucks[d])
    IN  /\ takeBack
        /\ Tap(d)
        /\ n > 0
        /\ Edit(d, SubSeq(pucks[d], 1, n - 1), <<RemoveValue(n - 1)>>)

DeadSequence(d) ==
    LET s == pucks[d]
        n == Len(s)
    IN  /\ takeBack
        /\ Tap(d)
        /\ \E keep \in 1 .. n :
            /\ keep = 1 \/ EndsSequence(s[keep])
            /\ \A j \in keep + 1 .. n : ~EndsSequence(s[j])
            /\ Edit(d, SubSeq(s, 1, keep),
                    [i \in 1 .. n - keep |-> RemoveValue(n - i)])

----------------------------------------------------------------------------
(* The client and the server. *)

(* Mutant of Connect: only the writes come again, the value does not. *)
ConnectWithoutListen(d) ==
    /\ running[d]
    /\ ~online[d]
    /\ online' = [online EXCEPT ![d] = TRUE]
    /\ inbox' = [inbox EXCEPT ![d] = IF synced[d] THEN <<>> ELSE <<Value(server, FALSE)>>]
    /\ UNCHANGED <<users, counts, server, running, synced, serverCache, pending, pucks>>

(* A connection: the client listens, for which it gets the value of now,   *)
(* and sends what is pending.                                              *)
Connect(d) ==
    /\ running[d]
    /\ ~online[d]
    /\ online' = [online EXCEPT ![d] = TRUE]
    /\ inbox' = [inbox EXCEPT ![d] = <<Value(server, FALSE)>>]
    /\ UNCHANGED <<users, counts, server, running, synced, serverCache, pending, pucks>>

(* The connection is lost with all that is on its way. *)
Disconnect(d) ==
    /\ drops < MaxDrops
    /\ drops' = drops + 1
    /\ online[d]
    /\ online' = [online EXCEPT ![d] = FALSE]
    /\ inbox' = [inbox EXCEPT ![d] = <<>>]
    /\ UNCHANGED <<users, taps, ends, server, running, synced, serverCache, pending, pucks>>

(* The server takes the next write of d and tells everyone. *)
ServerTakes(d) ==
    /\ online[d]
    /\ Taken(d) < Len(pending[d])
    /\ UNCHANGED counts
    /\ server' = Apply(server, pending[d][Taken(d) + 1])
    /\ inbox' = [e \in Devices |-> IF online[e] THEN Append(inbox[e], Value(server', e = d))
                                                ELSE inbox[e]]
    /\ UNCHANGED <<users, running, online, synced, serverCache, pending, pucks>>

(* d hears new from the server, value m was the first on its way, and the  *)
(* writes rest still wait.                                                 *)
Hears(d, new, m, rest) ==
    /\ inbox' = [inbox EXCEPT ![d] = Tail(@)]
    /\ serverCache' = [serverCache EXCEPT ![d] = m.node]
    /\ pending' = [pending EXCEPT ![d] = rest]
    /\ synced' = [synced EXCEPT ![d] = TRUE]
    /\ pucks' = [pucks EXCEPT ![d] = Hear(@, View(d), new)]
    /\ UNCHANGED <<users, counts, server, running, online>>

(* Mutant of Receive: the value is shown without the writes on top of it. *)
ReceiveBare(d) ==
    /\ inbox[d] # <<>>
    /\ Whole(View(d))
    /\ LET m == Head(inbox[d])
           rest == IF m.own THEN Tail(pending[d]) ELSE pending[d]
       IN  Hears(d, m.node, m, rest)

(* Mutant of Receive: an acknowledgement does not end the write's wait. *)
ReceiveUnacknowledged(d) ==
    /\ inbox[d] # <<>>
    /\ Whole(View(d))
    /\ LET m == Head(inbox[d])
       IN  Hears(d, Layered(m.node, pending[d]), m, pending[d])

(* d hears from the server, while its callback has not met a child without *)
(* x yet.                                                                  *)
Receive(d) ==
    /\ inbox[d] # <<>>
    /\ Whole(View(d))
    /\ LET m == Head(inbox[d])
           rest == IF m.own THEN Tail(pending[d]) ELSE pending[d]
       IN  \E new \in {Layered(m.node, rest)} : Hears(d, new, m, rest)

(* The callback meets a child without x.  What the device sent before is   *)
(* on its way, and the server may have taken it by now.                    *)
CallbackTraps(d) ==
    /\ running[d]
    /\ ~Whole(View(d))
    /\ Ends(d)
    /\ UNCHANGED counts

Terminate(d) ==
    /\ ends < MaxEnds
    /\ ends' = ends + 1
    /\ running[d]
    /\ Ends(d)
    /\ UNCHANGED <<taps, drops>>

Relaunch(d) ==
    /\ ~running[d]
    /\ running' = [running EXCEPT ![d] = TRUE]
    /\ UNCHANGED <<users, counts, server, online, synced, serverCache, pending, inbox,
                   pucks>>

----------------------------------------------------------------------------
UserStep(d) ==
    \/ \E pos \in Positions : \/ TouchPass(d, pos)
                              \/ TouchSkate(d, pos)
                              \/ \E outcome \in Outcomes : ShotButton(d, pos, outcome)
                              \/ SameSequence(d, pos)
    \/ SameSequenceTraps(d)
    \/ UndoShot(d)
    \/ DeadSequence(d)

(* What goes on between the client of d and the server, and in the client. *)
Exchange(d) == Connect(d) \/ ServerTakes(d) \/ Receive(d) \/ CallbackTraps(d)

Next ==
    \E d \in Devices :
        \/ UserStep(d)
        \/ Exchange(d)
        \/ Disconnect(d)
        \/ Terminate(d)
        \/ Relaunch(d)

Spec == Init /\ [][Next]_vars

(* The client tries again until it is connected, and while something is on *)
(* its way between it and the server, something arrives, or its app ends.  *)
FairSpec == Spec /\ \A d \in Devices : WF_vars(Exchange(d))

----------------------------------------------------------------------------
(* Properties. *)

(* Nothing is on its way to or from d. *)
Quiet(d) == online[d] /\ synced[d] /\ pending[d] = <<>> /\ inbox[d] = <<>>

(* Whatever was recorded on and off line, lost with an app or sent twice:  *)
(* when nothing is on its way every device has the server's game, and      *)
(* lists it unless it was emptied or got a gap.                            *)
Converged ==
    (\A d \in Devices : running[d] => Quiet(d)) =>
        \A d \in Devices : running[d] =>
            /\ serverCache[d] = server
            /\ Present(server) = {} \/ ~WellFormed(server) \/ pucks[d] = Children(server)

(* Who records alone is not disturbed: acknowledgements, a connection lost *)
(* with answers on it and writes that the server takes twice never change  *)
(* the list on the device that made them, nor the node it shows.           *)
WriterUndisturbed ==
    [][\A d \in Devices :
        writers = {d} /\ synced[d] /\ Receive(d) =>
            pucks'[d] = pucks[d] /\ View(d)' = View(d)]_vars

(* Devices that only add pucks choose the same keys, and one puck replaces *)
(* another, but no device, on or off line, nor the server ever gets a game *)
(* with a gap or a partial child, or one shorter than it has been.         *)
AddersLeaveNoGap ==
    ~takeBack =>
        /\ WellFormed(server)
        /\ \A d \in Devices :
            synced[d] => WellFormed(View(d)) /\ Present(serverCache[d]) \subseteq Present(server)

(* Time and again all that a device has recorded has reached the server,   *)
(* and what the server has has reached the device, or its app ends: no     *)
(* order of connections lost, apps ended and writes sent twice leaves a    *)
(* write or an acknowledgement waiting for good.                           *)
EverythingArrives == \A d \in Devices : []<>(running[d] => Quiet(d))
=============================================================================
