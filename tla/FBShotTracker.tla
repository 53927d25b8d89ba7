---------------------------- MODULE FBShotTracker ----------------------------
(***************************************************************************)
(* The recording tabs of the iOS app (FBShotTrackerViewController) on one  *)
(* device, working on one game.  NewTabBarViewController shows one         *)
(* instance of the controller per period; each keeps a list of the game's  *)
(* pucks of its own, filled by an observer of the game's data node.        *)
(*                                                                         *)
(* Two serial queues lie between a tap and the lists.  Every setValue,     *)
(* removeValue, updateChildValues and observe is dispatched to the         *)
(* database's shared queue; running there, a write changes the local copy  *)
(* of the node and, if it changed it, raises one value event per observer. *)
(* Each event is a block of its own on the main queue, where it replaces   *)
(* the list of the tab that registered the observer.  Taps run on the      *)
(* main queue too, between any two events.                                 *)
(***************************************************************************)
EXTENDS ShotWrites

CONSTANTS
    TouchZone,      \* where a touch records a puck (touchesEnded's test)
    ButtonZone,     \* where a puck button records one (shotButtonClicked's)
    Near,           \* pairs of positions within 40 points of each other
    Crease,         \* the middle of the crease
    Origin,         \* CGPoint(0,0): currpos before the first touch
    SavedGames,     \* what the game may hold when the tabs open
    Patient,        \* TRUE: the user waits until the app has caught up
    MayTerminate,   \* TRUE: the system may end the app at any moment
    MaxBacklog      \* bound: no tap while more work than this is queued

Tabs == Periods

ASSUME FBShotTrackerAssumption ==
    /\ TouchZone \subseteq Positions
    /\ ButtonZone \subseteq Positions
    /\ Crease \in Positions
    /\ Origin \notin Positions
    /\ SavedGames \subseteq PuckLists
    /\ Patient \in BOOLEAN
    /\ MayTerminate \in BOOLEAN
    /\ MaxBacklog \in Nat

VARIABLES
    running,        \* the app is running (not trapped, not terminated)
    loaded,         \* the tabs whose view has been loaded
    pucks,          \* pucksFromFirebase of each tab
    currpos,        \* currpos of each tab: where it was last touched
    data,           \* the game's node, as this device has written it
    synced,         \* the server's value of the node has arrived
    observers,      \* the tabs whose observer is registered, in order
    sharedQueue,    \* work dispatched to the database's shared queue
    mainQueue       \* value events dispatched to the main queue

local == <<loaded, pucks, currpos>>
firebase == <<data, synced, observers>>
queues == <<sharedQueue, mainQueue>>
vars == <<running, local, firebase, queues>>

----------------------------------------------------------------------------
(* The shared queue's work. *)

Observe(v) == [op |-> "observe", view |-> v]

Observes == [op : {"observe"}, view : Tabs]

(* A value event. *)
Event(v, d) == [view |-> v, snap |-> d]

(* Mutant of Round: only the first observer hears of a change. *)
RoundToFirst(d) ==
    IF observers = <<>> THEN <<>> ELSE <<Event(observers[1], d)>>

(* One such event for every observer. *)
Round(d) == [i \in 1 .. Len(observers) |-> Event(observers[i], d)]

Settled == synced /\ sharedQueue = <<>> /\ mainQueue = <<>>

TypeOK ==
    /\ running \in BOOLEAN
    /\ loaded \subseteq Tabs
    /\ pucks \in [Tabs -> PuckLists]
    /\ currpos \in [Tabs -> Positions \cup {Origin}]
    /\ data \in Node
    /\ synced \in BOOLEAN
    /\ observers \in Seq(Tabs)
    /\ sharedQueue \in Seq(Writes \cup Observes)
    /\ mainQueue \in Seq([view : Tabs, snap : Node])

(* The tab bar is shown for the first time: nothing is loaded, and the     *)
(* node is in the client's cache only if another screen observes it.       *)
Fresh ==
    /\ loaded = {}
    /\ pucks = [v \in Tabs |-> <<>>]
    /\ currpos = [v \in Tabs |-> Origin]
    /\ observers = <<>>
    /\ sharedQueue = <<>>
    /\ mainQueue = <<>>

Init ==
    /\ running = TRUE
    /\ Fresh
    /\ synced \in BOOLEAN
    /\ \E s \in SavedGames : data = NodeOf(s)

----------------------------------------------------------------------------
(* What the user does. *)

(* The user can use tab v. *)
Tap(v) ==
    /\ running
    /\ v \in loaded
    /\ Patient => Settled
    /\ Len(sharedQueue) + Len(mainQueue) <= MaxBacklog

(* A handler of v leaves list s behind and has dispatched the writes ws. *)
Edit(v, s, ws) ==
    /\ pucks' = [pucks EXCEPT ![v] = s]
    /\ sharedQueue' = sharedQueue \o ws
    /\ UNCHANGED <<running, loaded, firebase, mainQueue>>

LastPuck(v) == pucks[v][Len(pucks[v])]

(* Mutant of MakeNewShotEntity: the key of the last puck, not the next. *)
MakeNewShotEntityLate(v, pos, type, newSeq) ==
    LET p == Puck(pos, type, v, newSeq)
        n == Len(pucks[v])
    IN  /\ n < MaxPucks
        /\ Edit(v, Append(pucks[v], p), <<SetValue(IF n > 0 THEN n - 1 ELSE 0, p)>>)

(* makeNewShotEntity: the key is the length of the tab's own list. *)
MakeNewShotEntity(v, pos, type, newSeq) ==
    LET p == Puck(pos, type, v, newSeq)
    IN  /\ Len(pucks[v]) < MaxPucks
        /\ Edit(v, Append(pucks[v], p), <<SetValue(Len(pucks[v]), p)>>)

(* viewDidLoad: the tab is shown for the first time and observes the node. *)
ViewDidLoad(v) ==
    /\ running
    /\ v \notin loaded
    /\ loaded' = loaded \cup {v}
    /\ sharedQueue' = Append(sharedQueue, Observe(v))
    /\ UNCHANGED <<running, pucks, currpos, firebase, mainQueue>>

NearLast(v, pos) ==
    /\ pucks[v] # <<>>
    /\ <<pos, LastPuck(v).pos>> \in Near
    /\ LastPuck(v).period = v

(* touchesEnded, the touch is off the rink: only currpos changes. *)
TouchOutside(v, pos) ==
    /\ Tap(v)
    /\ pos \notin TouchZone
    /\ currpos' = [currpos EXCEPT ![v] = pos]
    /\ UNCHANGED <<running, loaded, pucks, firebase, queues>>

(* touchesEnded, away from the last puck: a pass. *)
TouchPass(v, pos) ==
    /\ Tap(v)
    /\ pos \in TouchZone
    /\ ~NearLast(v, pos)
    /\ currpos' = [currpos EXCEPT ![v] = pos]
    /\ MakeNewShotEntity(v, pos, "Pass", FALSE)

(* touchesEnded, on this period's last puck: it becomes a skate. *)
TouchSkate(v, pos) ==
    /\ Tap(v)
    /\ pos \in TouchZone
    /\ NearLast(v, pos)
    /\ currpos' = [currpos EXCEPT ![v] = pos]
    /\ Edit(v, [pucks[v] EXCEPT ![Len(pucks[v])].shotType = "Skate"],
            <<UpdateChildValues(Len(pucks[v]) - 1, "Skate")>>)

(* shotButtonClicked with an outcome: one more puck, at the last touch. *)
ShotButton(v, outcome) ==
    /\ Tap(v)
    /\ currpos[v] \in ButtonZone
    /\ MakeNewShotEntity(v, currpos[v], outcome, TRUE)
    /\ UNCHANGED currpos

(* Mutant of SameSequence: the new last puck is written before the rebound. *)
SameSequenceReordered(v) ==
    LET n     == Len(pucks[v])
        net   == Puck(Crease, "Same Sequence", v, FALSE)
        again == Puck(currpos[v], "Same Sequence", v, FALSE)
    IN  /\ Tap(v)
        /\ currpos[v] \in ButtonZone
        /\ n \in 1 .. MaxPucks - 1
        /\ Edit(v, SubSeq(pucks[v], 1, n - 1) \o <<net, again>>,
                <<RemoveValue(n - 1), SetValue(n, again), SetValue(n - 1, net)>>)
        /\ UNCHANGED currpos

(* shotButtonClicked with "Same Sequence": the last puck gives way to one  *)
(* in the crease, and one more is added at the last touch.                 *)
SameSequence(v) ==
    LET n     == Len(pucks[v])
        net   == Puck(Crease, "Same Sequence", v, FALSE)
        again == Puck(currpos[v], "Same Sequence", v, FALSE)
    IN  /\ Tap(v)
        /\ currpos[v] \in ButtonZone
        /\ n \in 1 .. MaxPucks - 1
        /\ Edit(v, SubSeq(pucks[v], 1, n - 1) \o <<net, again>>,
                <<RemoveValue(n - 1), SetValue(n - 1, net), SetValue(n, again)>>)
        /\ UNCHANGED currpos

(* Mutant of UndoShot: no test that there is a puck. *)
UndoShotUnguarded(v) ==
    LET n == Len(pucks[v])
    IN  /\ Tap(v)
        /\ Edit(v, SubSeq(pucks[v], 1, n - 1), <<RemoveValue(n - 1)>>)
        /\ UNCHANGED currpos

(* undoShot. *)
UndoShot(v) ==
    LET n == Len(pucks[v])
    IN  /\ Tap(v)
        /\ n > 0
        /\ Edit(v, SubSeq(pucks[v], 1, n - 1), <<RemoveValue(n - 1)>>)
        /\ UNCHANGED currpos

(* Mutant of DeadSequence: the keys are removed from the first one up. *)
DeadSequenceAscending(v) ==
    LET s == pucks[v]
        n == Len(s)
    IN  /\ Tap(v)
        /\ \E keep \in 1 .. n :
            /\ keep = 1 \/ EndsSequence(s[keep])
            /\ \A j \in keep + 1 .. n : ~EndsSequence(s[j])
            /\ Edit(v, SubSeq(s, 1, keep),
                    [i \in 1 .. n - keep |-> RemoveValue(keep + i - 1)])
        /\ UNCHANGED currpos

(* deadSequence: the pucks after the last outcome go, from the last down;  *)
(* of a list without an outcome the first puck stays.                      *)
DeadSequence(v) ==
    LET s == pucks[v]
        n == Len(s)
    IN  /\ Tap(v)
        /\ \E keep \in 1 .. n :
            /\ keep = 1 \/ EndsSequence(s[keep])
            /\ \A j \in keep + 1 .. n : ~EndsSequence(s[j])
            /\ Edit(v, SubSeq(s, 1, keep),
                    [i \in 1 .. n - keep |-> RemoveValue(n - i)])
        /\ UNCHANGED currpos

----------------------------------------------------------------------------
(* What the queues, the server and the system do. *)

(* Mutant of RunObserve: a node in the cache is not reported. *)
RunObserveSilently ==
    /\ running
    /\ sharedQueue # <<>>
    /\ Head(sharedQueue).op = "observe"
    /\ observers' = Append(observers, Head(sharedQueue).view)
    /\ sharedQueue' = Tail(sharedQueue)
    /\ UNCHANGED <<running, local, data, synced, mainQueue>>

(* The shared queue registers an observer; a node already in the cache is  *)
(* reported to it at once.                                                 *)
RunObserve ==
    /\ running
    /\ sharedQueue # <<>>
    /\ Head(sharedQueue).op = "observe"
    /\ LET v == Head(sharedQueue).view
       IN  /\ observers' = Append(observers, v)
           /\ mainQueue' = IF synced THEN Append(mainQueue, Event(v, data))
                                     ELSE mainQueue
    /\ sharedQueue' = Tail(sharedQueue)
    /\ UNCHANGED <<running, local, data, synced>>

(* The shared queue applies a write; observers hear of it if it changed    *)
(* the node and the node's value is known.                                 *)
RunWrite ==
    /\ running
    /\ sharedQueue # <<>>
    /\ Head(sharedQueue).op # "observe"
    /\ data' = Apply(data, Head(sharedQueue))
    /\ mainQueue' = IF synced /\ data' # data THEN mainQueue \o Round(data')
                                              ELSE mainQueue
    /\ sharedQueue' = Tail(sharedQueue)
    /\ UNCHANGED <<running, local, synced, observers>>

(* The server's value arrives; writes made meanwhile stay on top of it. *)
ServerAnswers ==
    /\ running
    /\ ~synced
    /\ observers # <<>>
    /\ synced' = TRUE
    /\ mainQueue' = mainQueue \o Round(data)
    /\ UNCHANGED <<running, local, data, observers, sharedQueue>>

(* The process ends: the screens, the client's cache and its queues go. *)
Ends ==
    /\ running' = FALSE
    /\ synced' = FALSE
    /\ loaded' = {}
    /\ pucks' = [v \in Tabs |-> <<>>]
    /\ currpos' = [v \in Tabs |-> Origin]
    /\ observers' = <<>>
    /\ sharedQueue' = <<>>
    /\ mainQueue' = <<>>
    /\ UNCHANGED data

(* Mutant of DeliverEvent: the node is taken over into an empty list only. *)
DeliverEventOnce ==
    /\ running
    /\ mainQueue # <<>>
    /\ LET e == Head(mainQueue)
       IN  /\ Whole(e.snap)
           /\ pucks' = IF Present(e.snap) = {} \/ pucks[e.view] # <<>> THEN pucks
                       ELSE [pucks EXCEPT ![e.view] = Children(e.snap)]
    /\ mainQueue' = Tail(mainQueue)
    /\ UNCHANGED <<running, loaded, currpos, firebase, sharedQueue>>

(* getData's callback: the list becomes the node's children in key order;  *)
(* an empty node leaves it as it is.                                       *)
DeliverEvent ==
    /\ running
    /\ mainQueue # <<>>
    /\ LET e == Head(mainQueue)
       IN  /\ Whole(e.snap)
           /\ pucks' = IF Present(e.snap) = {} THEN pucks
                       ELSE [pucks EXCEPT ![e.view] = Children(e.snap)]
    /\ mainQueue' = Tail(mainQueue)
    /\ UNCHANGED <<running, loaded, currpos, firebase, sharedQueue>>

(* getData's callback meets a child without x: gameX! traps. *)
CallbackTraps ==
    /\ running
    /\ mainQueue # <<>>
    /\ ~Whole(Head(mainQueue).snap)
    /\ Ends

(* "Same Sequence" on an empty list: removeLast traps. *)
SameSequenceTraps(v) ==
    /\ Tap(v)
    /\ currpos[v] \in ButtonZone
    /\ pucks[v] = <<>>
    /\ Ends

Terminate ==
    /\ MayTerminate
    /\ running
    /\ Ends

Relaunch ==
    /\ ~running
    /\ running' = TRUE
    /\ synced' \in BOOLEAN
    /\ UNCHANGED <<local, data, observers, queues>>

----------------------------------------------------------------------------
UserStep(v) ==
    \/ ViewDidLoad(v)
    \/ \E pos \in Positions : \/ TouchOutside(v, pos)
                              \/ TouchPass(v, pos)
                              \/ TouchSkate(v, pos)
    \/ \E outcome \in Outcomes : ShotButton(v, outcome)
    \/ SameSequence(v)
    \/ SameSequenceTraps(v)
    \/ UndoShot(v)
    \/ DeadSequence(v)

QueueStep == RunObserve \/ RunWrite \/ DeliverEvent \/ CallbackTraps

Next ==
    \/ \E v \in Tabs : UserStep(v)
    \/ QueueStep
    \/ ServerAnswers
    \/ Terminate
    \/ Relaunch

Spec == Init /\ [][Next]_vars

(* A dispatch queue runs what is put on it, and a device that is online    *)
(* gets an answer; nothing makes the user tap or the system end the app.   *)
FairSpec ==
    /\ Spec
    /\ WF_vars(RunObserve \/ RunWrite)
    /\ WF_vars(DeliverEvent \/ CallbackTraps)
    /\ WF_vars(ServerAnswers)
----------------------------------------------------------------------------
(* Properties. *)

HasEvent(v) == \E i \in DOMAIN mainQueue : mainQueue[i].view = v

(* The last event on its way to v carries the node as it is now. *)
LastEventFresh(v) ==
    \A i \in DOMAIN mainQueue :
        (/\ mainQueue[i].view = v
         /\ \A j \in DOMAIN mainQueue : j > i => mainQueue[j].view # v)
        => mainQueue[i].snap = data

(* Some write on the shared queue would change the node as it is now. *)
Effective ==
    \E i \in DOMAIN sharedQueue :
        /\ sharedQueue[i].op # "observe"
        /\ Apply(data, sharedQueue[i]) # data

(* Tab v lists what the node holds.  An emptied node is not taken over by  *)
(* the callback, and the keys a tab computes only fit a node without gaps. *)
Shows(v) ==
    \/ Present(data) = {}
    \/ ~WellFormed(data)
    \/ pucks[v] = Children(data)

Observed == {observers[i] : i \in DOMAIN observers}

(* However fast the user taps, a tab that observes the node either has an  *)
(* event coming whose last one is the node itself, or is about to get one, *)
(* or already lists the node: no interleaving of taps, of the two queues   *)
(* and of the server's first answer leaves a tab behind for good.          *)
NoTabLeftBehind ==
    running /\ synced =>
        \A v \in Observed : /\ LastEventFresh(v)
                            /\ HasEvent(v) \/ Effective \/ Shows(v)

(* When both queues have run dry, every tab lists the game's pucks, each   *)
(* under the key it has in the node, whatever happened before: the key the *)
(* next tap computes from its own list is the right one.                   *)
Agreement == running /\ Settled => \A v \in Observed : Shows(v)

(* A game is torn (its keys get a gap, or a child without x and y) only    *)
(* while it is empty: a write that goes to a game with pucks keeps its     *)
(* keys 0..n-1, even when the app ends between the writes of one tap.      *)
TornOnlyWhenEmpty ==
    [][WellFormed(data) /\ ~WellFormed(data') => Present(data) = {}]_vars

(* One write to a game whose keys have no gap touches its last puck only,  *)
(* to take it back or to make it a skate: no puck is overwritten by a      *)
(* newer one, and none that others follow is lost.                         *)
NoPuckLost ==
    [][WellFormed(data) =>
        \A k \in Present(data) :
            \/ data'[k] = data[k]
            \/ /\ k + 1 \notin Present(data)
               /\ data'[k] \in {Absent, [data[k] EXCEPT !.shotType = "Skate"]}]_vars

(* The game is a log that changes at its end only, write by write. *)
Log == INSTANCE ShotLog WITH log <- Children(data)

GameIsALog == Log!Spec

(* With a single tab the keys of the game never get a gap and no child is  *)
(* ever left without its x and y, even if the app ends between two writes. *)
NeverTorn == WellFormed(data)

(* Every tab that observes the game comes to list it once the user waits.  *)
TabsCatchUp ==
    \A v \in Tabs : (v \in loaded) ~> (~running \/ (v \in Observed /\ Shows(v)))

----------------------------------------------------------------------------
(* What the code says of itself and does not do. *)

(* "edit last element within firebase": the record edited exists, so that  *)
(* every child a callback reads has its x.                                 *)
CallbackNeverTraps == [][~CallbackTraps]_vars
=============================================================================
