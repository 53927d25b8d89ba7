----------------------------- MODULE GameTracker -----------------------------
(***************************************************************************)
(* The game tracker page (gametracker.js) in one browser tab, recording    *)
(* one game.                                                               *)
(*                                                                         *)
(* Every handler of the page wraps its database work in a callback that it *)
(* registers with onAuthStateChanged.  While the user is signed in the     *)
(* callback runs as soon as the handler is done.  It is never unregistered *)
(* and runs again, in the order of registration, whenever the user signs   *)
(* in, be it in another tab of the browser.                                *)
(*                                                                         *)
(* The page does not observe the game.  It asks once for the game to open  *)
(* and then once for its pucks, and appends what it gets to currentPucks.  *)
(* A puck's key is the length of that list when the callback runs.         *)
(*                                                                         *)
(* The list holds references: the callback of a click writes its puck as   *)
(* the puck is when the callback runs.  heap has every PuckModel object,   *)
(* currentPucks their numbers; newSeq is called newSequenceBool here as in *)
(* the database.                                                           *)
(***************************************************************************)
EXTENDS Pucks, Integers, SequencesExt

CONSTANTS
    Crease,         \* middleOfNet
    SavedGames,     \* what the game may hold when the page opens
    FirstPeriod,    \* the first option of the period selector
    All,            \* the option it has while sequences are viewed
    Undefined,
    Patient,        \* TRUE: the user waits until the page has loaded
    MaxHandlers,    \* bound: callbacks registered
    MaxSignIns      \* bound: sign-ins the page sees

ASSUME GameTrackerAssumption ==
    /\ Positions \subseteq [x : Int, y : Int]
    /\ Crease \in Positions
    /\ FirstPeriod \in Periods
    /\ All \notin Periods
    /\ Undefined \notin Positions /\ Undefined \notin BOOLEAN
    /\ Undefined \notin Periods \cup ShotTypes \cup {All}
    /\ SavedGames \subseteq PuckLists
    /\ Patient \in BOOLEAN
    /\ MaxHandlers \in Nat
    /\ MaxSignIns \in Nat

VARIABLES
    signedIn,       \* the page knows of a signed-in user
    signIns,        \* how often it was told of one
    callbacks,      \* the callbacks registered with onAuthStateChanged
    asked,          \* requests for the last selected game under way
    loading,        \* requests for the game's pucks under way
    known,          \* gameToGetData is set
    currentPucks,   \* the objects listed
    heap,           \* all PuckModel objects made so far
    placed,         \* shotPlacedSinceDataLoad
    mode,           \* "track" or "view"
    period,         \* the option selected
    nodes           \* the children under <game>/data and under undefined/data

session == <<signedIn, signIns, callbacks>>
requests == <<asked, loading, known>>
page == <<placed, mode, period>>
store == <<asked, currentPucks, heap, nodes>>
vars == <<session, requests, currentPucks, heap, page, nodes>>

----------------------------------------------------------------------------
(* The database. *)

Fields == {"pos", "shotType", "period", "newSequenceBool"}

(* What f has, and what else g has. *)
Over(f, g) == [x \in DOMAIN f \cup DOMAIN g |-> IF x \in DOMAIN f THEN f[x] ELSE g[x]]

Put(d, k, c) == Over([j \in {k} |-> c], d)

Drop(d, k) == [j \in DOMAIN d \ {k} |-> d[j]]

Update(d, k, f) == Put(d, k, IF k \in DOMAIN d THEN Over(f, d[k]) ELSE f)

(* A puck made from a child; what the child lacks is undefined. *)
PuckRead(c) == [f \in Fields |-> IF f \in DOMAIN c THEN c[f] ELSE Undefined]

(* set refuses a value with an undefined part. *)
Settable(p) == \A f \in Fields : p[f] # Undefined

(* Mutant of Path: a game without pucks is not asked for its name. *)
PathWhenListed == IF known /\ currentPucks # <<>> THEN "game" ELSE "undefined"

Path == IF known THEN "game" ELSE "undefined"

----------------------------------------------------------------------------
(* The callbacks.  They work on a record of what they may change: the      *)
(* requests made, the list, the heap and the database.                     *)

Load == [does |-> "load"]
Save(o) == [does |-> "save", obj |-> o]
Skate == [does |-> "skate"]
Outcome(t) == [does |-> "outcome", shotType |-> t]
Rebound(o) == [does |-> "rebound", obj |-> o]
Undo == [does |-> "undo"]
Dead == [does |-> "dead"]

Now == [asked |-> asked, list |-> currentPucks, heap |-> heap, nodes |-> nodes]

(* The key of the last puck, -1 if there is none. *)
LastKey(st) == Len(st.list) - 1

SetLast(st, p) ==
    IF Settable(p) THEN [st EXCEPT !.nodes[Path] = Put(@, LastKey(st), p)] ELSE st

UpdateLast(st, f) == [st EXCEPT !.nodes[Path] = Update(@, LastKey(st), f)]

(* A new object at the end of the list. *)
Push(st, p) ==
    [st EXCEPT !.heap = Append(@, p), !.list = Append(@, Len(st.heap) + 1)]

(* A rebound in the crease, then the shot again. *)
Rebounded(st, o) ==
    LET net == Puck(Crease, "Same Sequence", period, FALSE)
        st1 == UpdateLast(Push(st, net), net)
    IN  SetLast([st1 EXCEPT !.list = Append(@, o)], st1.heap[o])

(* Mutant of RemovedLast: the list is shortened first. *)
RemovedLastPoppedFirst(st) ==
    IF ~known THEN st
    ELSE [st EXCEPT !.nodes["game"] = Drop(@, LastKey(st) - 1),
                    !.list = IF @ = <<>> THEN @ ELSE Front(@)]

(* child(undefined) throws before anything is removed. *)
RemovedLast(st) ==
    IF ~known THEN st
    ELSE [st EXCEPT !.nodes["game"] = Drop(@, LastKey(st)),
                    !.list = IF @ = <<>> THEN @ ELSE Front(@)]

(* Mutant of Run: an outcome does not mark the end of the sequence. *)
RunForgetful(st, c) ==
    CASE c.does = "load"    -> [st EXCEPT !.asked = @ + 1]
      [] c.does = "save"    -> SetLast(st, st.heap[c.obj])
      [] c.does = "skate"   -> UpdateLast(st, [shotType |-> "Skate"])
      [] c.does = "outcome" -> UpdateLast(st, [shotType |-> c.shotType])
      [] c.does = "rebound" -> Rebounded(st, c.obj)
      [] c.does \in {"undo", "dead"} -> RemovedLast(st)

(* One callback, called with a user. *)
Run(st, c) ==
    CASE c.does = "load"    -> [st EXCEPT !.asked = @ + 1]
      [] c.does = "save"    -> SetLast(st, st.heap[c.obj])
      [] c.does = "skate"   -> UpdateLast(st, [shotType |-> "Skate"])
      [] c.does = "outcome" -> UpdateLast(st, [shotType |-> c.shotType,
                                               newSequenceBool |-> TRUE])
      [] c.does = "rebound" -> Rebounded(st, c.obj)
      [] c.does \in {"undo", "dead"} -> RemovedLast(st)

RunAll(st, cs) ==
    LET ran[i \in 0 .. Len(cs)] == IF i = 0 THEN st ELSE Run(ran[i - 1], cs[i])
    IN  ran[Len(cs)]

Becomes(st) ==
    /\ asked' = st.asked
    /\ currentPucks' = st.list
    /\ heap' = st.heap
    /\ nodes' = st.nodes

(* A handler leaves st behind and has registered the callbacks cs. *)
Handle(st, cs) ==
    /\ callbacks' = callbacks \o cs
    /\ Becomes(IF signedIn THEN RunAll(st, cs) ELSE st)
    /\ UNCHANGED <<signedIn, signIns, loading, known>>

----------------------------------------------------------------------------
Listed(i) == heap[currentPucks[i]]
LastPuck == Listed(Len(currentPucks))

Ready == signedIn /\ known /\ asked = 0 /\ loading = 0

(* PuckModel objects; what was read from a partial child lacks the rest. *)
Objects == [pos : Positions \cup {Undefined}, shotType : ShotTypes,
            period : Periods \cup {All, Undefined},
            newSequenceBool : BOOLEAN \cup {Undefined}]

TypeOK ==
    /\ signedIn \in BOOLEAN
    /\ signIns \in 0 .. MaxSignIns
    /\ asked \in Nat /\ loading \in Nat
    /\ known \in BOOLEAN
    /\ heap \in Seq(Objects)
    /\ currentPucks \in Seq(DOMAIN heap)
    /\ placed \in BOOLEAN
    /\ mode \in {"track", "view"}
    /\ period \in Periods \cup (IF mode = "view" THEN {All} ELSE {})
    /\ DOMAIN nodes = {"game", "undefined"}
    /\ \A n \in DOMAIN nodes : \A k \in DOMAIN nodes[n] :
          /\ k \in Int /\ k >= -1
          /\ PuckRead(nodes[n][k]) \in Objects
    /\ \A i \in DOMAIN callbacks :
          callbacks[i].does \in {"save", "rebound"} => callbacks[i].obj \in DOMAIN heap

(* onLoad: nothing is known of the user yet. *)
Init ==
    /\ signedIn = FALSE
    /\ signIns = 0
    /\ callbacks = <<Load>>
    /\ asked = 0
    /\ loading = 0
    /\ known = FALSE
    /\ currentPucks = <<>>
    /\ heap = <<>>
    /\ placed = FALSE
    /\ mode = "track"
    /\ period = FirstPeriod
    /\ \E s \in SavedGames :
        nodes = [game |-> [k \in 0 .. Len(s) - 1 |-> s[k + 1]], undefined |-> <<>>]

----------------------------------------------------------------------------
(* Clicks.  The buttons that record are shown in track mode only. *)

Click ==
    /\ mode = "track"
    /\ Patient => Ready
    /\ Len(callbacks) < MaxHandlers
    /\ UNCHANGED <<mode, period>>

(* The test of the canvas handler: within 5 of the last puck in x, and not *)
(* 5 or more below it (the lower bound of y repeats the upper one).        *)
WithinRegion(pos) ==
    /\ currentPucks # <<>>
    /\ LastPuck.pos # Undefined
    /\ pos.x < LastPuck.pos.x + 5 /\ pos.x > LastPuck.pos.x - 5
    /\ pos.y < LastPuck.pos.y + 5 /\ pos.y < LastPuck.pos.y + 5

CanvasSkate(pos) ==
    /\ Click
    /\ WithinRegion(pos)
    /\ placed' = TRUE
    /\ Handle([Now EXCEPT !.heap[currentPucks[Len(currentPucks)]].shotType = "Skate"],
              <<Skate>>)

CanvasPass(pos) ==
    /\ Click
    /\ ~WithinRegion(pos)
    /\ Len(currentPucks) < MaxPucks
    /\ placed' = TRUE
    /\ Handle(Push(Now, Puck(pos, "Pass", period, FALSE)), <<Save(Len(heap) + 1)>>)

(* An outcome closes the sequence; on an empty list the handler throws. *)
OutcomeButton(type) ==
    /\ Click
    /\ placed
    /\ currentPucks # <<>>
    /\ UNCHANGED placed
    /\ Handle([Now EXCEPT !.heap[currentPucks[Len(currentPucks)]] =
                   [@ EXCEPT !.shotType = type, !.newSequenceBool = TRUE]],
              <<Outcome(type)>>)

(* "Same Sequence": the last puck is taken off the list here, and put back *)
(* behind a rebound by the callback.                                       *)
SameSequence ==
    /\ Click
    /\ placed
    /\ Len(currentPucks) \in 1 .. MaxPucks - 1
    /\ UNCHANGED placed
    /\ LET o == currentPucks[Len(currentPucks)]
       IN  Handle([Now EXCEPT !.heap[o].shotType = "Same Sequence", !.list = Front(@)],
                  <<Rebound(o)>>)

UndoButton ==
    /\ Click
    /\ UNCHANGED placed
    /\ Handle(Now, <<Undo>>)

(* Mutant of DeadButton: one puck more than the sequence has. *)
DeadButtonGreedy ==
    /\ Click
    /\ UNCHANGED placed
    /\ \E n \in 1 .. Len(currentPucks) :
        /\ \A i \in Len(currentPucks) - n + 2 .. Len(currentPucks) :
              Listed(i).newSequenceBool = FALSE
        /\ n < Len(currentPucks) => Listed(Len(currentPucks) - n + 1).newSequenceBool # FALSE
        /\ Handle(Now, [i \in 1 .. n |-> Dead])

(* One callback for every puck after the last outcome. *)
DeadButton ==
    /\ Click
    /\ UNCHANGED placed
    /\ \E n \in 0 .. Len(currentPucks) :
        /\ \A i \in Len(currentPucks) - n + 1 .. Len(currentPucks) :
              Listed(i).newSequenceBool = FALSE
        /\ n < Len(currentPucks) => Listed(Len(currentPucks) - n).newSequenceBool # FALSE
        /\ Handle(Now, [i \in 1 .. n |-> Dead])

(* trackShow: the selector has "All" while sequences are viewed. *)
ViewShots ==
    /\ mode = "track"
    /\ mode' = "view"
    /\ UNCHANGED <<session, requests, currentPucks, heap, placed, period, nodes>>

(* Mutant of TrackShots: the option selected stays what it was. *)
TrackShotsKeepingAll ==
    /\ mode = "view"
    /\ mode' = "track"
    /\ UNCHANGED <<session, requests, currentPucks, heap, placed, period, nodes>>

TrackShots ==
    /\ mode = "view"
    /\ mode' = "track"
    /\ period' = IF period = All THEN FirstPeriod ELSE period
    /\ UNCHANGED <<session, requests, currentPucks, heap, placed, nodes>>

SelectPeriod(p) ==
    /\ p # period
    /\ p = All => mode = "view"
    /\ period' = p
    /\ UNCHANGED <<session, requests, currentPucks, heap, placed, mode, nodes>>

----------------------------------------------------------------------------
(* What the session and the server do. *)

(* The page learns of a user: every callback runs. *)
SignIn ==
    /\ ~signedIn
    /\ signIns < MaxSignIns
    /\ signedIn' = TRUE
    /\ signIns' = signIns + 1
    /\ Becomes(RunAll(Now, callbacks))
    /\ UNCHANGED <<callbacks, loading, known, page>>

(* The user signs out, in another tab; the callbacks do nothing. *)
SignOut ==
    /\ signedIn
    /\ signedIn' = FALSE
    /\ UNCHANGED <<signIns, callbacks, loading, known, store, page>>

(* The game selected last; the page asks for its pucks. *)
GameArrives ==
    /\ signedIn
    /\ asked > 0
    /\ asked' = asked - 1
    /\ loading' = loading + 1
    /\ known' = TRUE
    /\ UNCHANGED <<session, currentPucks, heap, page, nodes>>

(* The game's pucks; what the page has written meanwhile is among them. *)
PucksArrive ==
    /\ signedIn
    /\ loading > 0
    /\ loading' = loading - 1
    /\ LET d == nodes["game"]
           n == Cardinality(DOMAIN d)
       IN  /\ heap' = heap \o [i \in 1 .. n |-> PuckRead(d[KeyAt(DOMAIN d, i - 1)])]
           /\ currentPucks' = currentPucks \o [i \in 1 .. n |-> Len(heap) + i]
    /\ UNCHANGED <<session, asked, known, page, nodes>>

(* Without a user the server refuses a request; nothing handles that. *)
RequestFails ==
    /\ ~signedIn
    /\ \/ asked > 0 /\ asked' = asked - 1 /\ UNCHANGED loading
       \/ loading > 0 /\ loading' = loading - 1 /\ UNCHANGED asked
    /\ UNCHANGED <<session, known, currentPucks, heap, page, nodes>>

----------------------------------------------------------------------------
UserStep ==
    \/ \E pos \in Positions : CanvasSkate(pos) \/ CanvasPass(pos)
    \/ \E type \in Outcomes : OutcomeButton(type)
    \/ SameSequence
    \/ UndoButton
    \/ DeadButton
    \/ ViewShots
    \/ TrackShots
    \/ \E p \in Periods \cup {All} : SelectPeriod(p)

Next ==
    \/ UserStep
    \/ SignIn
    \/ SignOut
    \/ GameArrives
    \/ PucksArrive
    \/ RequestFails

Spec == Init /\ [][Next]_vars

----------------------------------------------------------------------------
(* Properties. *)

(* While the page knows one sign-in and is ready the database holds the    *)
(* list, puck for puck, under the keys 0, 1, ...: the database work of     *)
(* every handler does what its local work did, and the next key is the     *)
(* length of the list.                                                     *)
Mirrors ==
    Ready /\ signIns = 1 =>
        nodes["game"] = [k \in 0 .. Len(currentPucks) - 1 |-> Listed(k + 1)]

(* Until then only the last puck can be undone or retyped: once another    *)
(* puck follows it, no click removes, retypes or overwrites a puck of a    *)
(* closed sequence in the database, a dead sequence of any length          *)
(* included.                                                               *)
ClosedSequencesKept ==
    [][Ready /\ signIns = 1 =>
        \A i, j \in DOMAIN currentPucks :
            i <= j /\ i < Len(currentPucks) /\ Listed(j).newSequenceBool = TRUE =>
                /\ i - 1 \in DOMAIN nodes'["game"]
                /\ nodes'["game"][i - 1] = nodes["game"][i - 1]]_vars

NoneIsAll ==
    /\ \A o \in DOMAIN heap : heap[o].period # All
    /\ \A n \in DOMAIN nodes : \A k \in DOMAIN nodes[n] : PuckRead(nodes[n][k]).period # All

(* "All" is an option of the selector and no period.  No click, no answer  *)
(* of the server and no first sign-in makes a puck of that period: only a  *)
(* further sign-in does, while sequences are viewed and "All" is selected, *)
(* where the callback of "Same Sequence" runs again and reads the selector.*)
PeriodsAreReal ==
    [][NoneIsAll => NoneIsAll' \/ (SignIn /\ signIns > 0 /\ mode = "view" /\ period = All)]_vars

(* Nothing is recorded under "undefined" for a user who waits for the page *)
(* to load, however often the user signs out and in again.                 *)
NothingStray == nodes["undefined"] = <<>>

(* However often the user signs out and in again, so that the list has the *)
(* game's pucks several times and every callback runs once more: a click   *)
(* of a user who waits puts its puck under a key that is free.             *)
ClickOverwritesNothing ==
    [][\A pos \in Positions : CanvasPass(pos) =>
        \A k \in DOMAIN nodes["game"] : nodes'["game"][k] = nodes["game"][k]]_vars
=============================================================================
