------------------------------ MODULE GameList ------------------------------
(***************************************************************************)
(* The list of games of the iOS app (GameSelectorViewController) on one    *)
(* device.  Every time the list is opened a new controller registers an    *)
(* observer of games/<uid>; nothing removes it, and its closure keeps the  *)
(* controller alive when the list is closed.                               *)
(*                                                                         *)
(* The queues are those of FBShotTracker: a write is dispatched, applied   *)
(* on the shared queue, and heard of in a block of its own on the main     *)
(* queue.  The callback casts four fields of every child to String: a      *)
(* child that lacks one of them ends the app.  "data" is a String only in  *)
(* a game made here and in which nothing has been recorded.  And not every *)
(* child is a game: the app's own sign-up puts the text lastSelectedGame   *)
(* beside them, and the web page that records without knowing its game     *)
(* does so in a child called undefined.                                    *)
(*                                                                         *)
(* The key of a game is the minute it was made in and hundredths of a      *)
(* second: the format has SS where it means ss.                            *)
(***************************************************************************)
EXTENDS KeyOrder, SequencesExt

CONSTANTS
    Hundredths,     \* the last part of a key
    None,           \* no child under a key; no alert on the screen
    LastSelectedGame, Undefined, \* the keys of children that are no games
    SavedGames,     \* the sets of keys the user's node may begin with
    MaxMinutes,     \* bound: the clock stops there
    MaxControllers, \* bound: times the list is opened
    MaxElsewhere,   \* bound: changes made on the web
    MaxTaps         \* bound: taps on the list and its alert

(* Keys of games, in the order of the node's children. *)
Labels == {100 * m + h : m \in 0 .. MaxMinutes, h \in Hundredths}

Keys == Labels \cup {LastSelectedGame, Undefined}

(* A child is a game whose data is the String "", or pucks, or missing;    *)
(* or nothing but the data of a game that has gone, with pucks in it; or a *)
(* text.                                                                   *)
Games == {"String", "pucks", "missing"}

Kinds == Games \cup {"fragment", "text"}

Node == {d \in [Keys -> Kinds \cup {None}] :
            /\ \A l \in Labels : d[l] # "text"
            /\ d[LastSelectedGame] \in {"text", None}
            /\ d[Undefined] \in {"fragment", None}}

ASSUME GameListAssumption ==
    /\ Hundredths \subseteq 0 .. 99
    /\ None \notin Labels /\ None \notin Kinds
    /\ LastSelectedGame \notin Labels /\ Undefined \notin Labels
    /\ LastSelectedGame # Undefined
    /\ SavedGames \subseteq SUBSET (Labels \cup {LastSelectedGame})
    /\ MaxMinutes \in Nat /\ MaxControllers \in Nat
    /\ MaxElsewhere \in Nat /\ MaxTaps \in Nat

VARIABLES
    signedIn,       \* the user is signed in
    running,        \* the app is running
    shown,          \* the list is on the screen
    controllers,    \* how many controllers have been made
    gamesList,      \* of the latest one: the keys of the GameModels
    alert,          \* the key the "New Game" alert will use, or None
    minute,
    taps,           \* so far
    elsewhere,      \* changes made on the web so far
    games,          \* games/<uid>
    synced,         \* the server's value has arrived
    observers,      \* the controllers whose observers are registered, in order
    sharedQueue, mainQueue

screen == <<shown, controllers, gamesList, alert>>
outside == <<minute, elsewhere>>
firebase == <<games, synced, observers>>
queues == <<sharedQueue, mainQueue>>
vars == <<signedIn, running, taps, screen, outside, firebase, queues>>

----------------------------------------------------------------------------
SetValue(l) == [op |-> "set", label |-> l]
RemoveValue(l) == [op |-> "remove", label |-> l]
Observe(c) == [op |-> "observe", controller |-> c]

Apply(d, w) == [d EXCEPT ![w.label] = IF w.op = "set" THEN "String" ELSE None]

Event(c, d) == [controller |-> c, snap |-> d]

(* Mutant of Round: the controller made first hears of everything alone. *)
RoundToFirst(d) == IF observers = <<>> THEN <<>> ELSE <<Event(observers[1], d)>>

Round(d) == [i \in DOMAIN observers |-> Event(observers[i], d)]

Present(d) == {k \in Keys : d[k] # None}

(* The games among the children of a snapshot, in order. *)
Children(d) == InKeyOrder(Present(d) \cap Labels)

(* Mutant of Castable: a child that is no dictionary is passed over. *)
CastableButTexts(d) == \A k \in Present(d) : d[k] \in {"String", "text"}

(* Every child can be made a GameModel: its data is a String, and so are   *)
(* the date, the nickname and the label, which a fragment and a text lack. *)
Castable(d) == \A k \in Present(d) : d[k] = "String"

Settled == synced /\ sharedQueue = <<>> /\ mainQueue = <<>>

TypeOK ==
    /\ signedIn \in BOOLEAN /\ running \in BOOLEAN
    /\ shown \in BOOLEAN /\ synced \in BOOLEAN
    /\ controllers \in 0 .. MaxControllers
    /\ gamesList \in Seq(Labels)
    /\ \A r, t \in DOMAIN gamesList : r < t => gamesList[r] < gamesList[t]
    /\ alert \in Labels \cup {None}
    /\ minute \in 0 .. MaxMinutes
    /\ taps \in 0 .. MaxTaps
    /\ elsewhere \in 0 .. MaxElsewhere
    /\ games \in Node
    /\ observers \in Seq(1 .. controllers)
    /\ sharedQueue \in Seq([op : {"set", "remove"}, label : Labels]
                            \cup [op : {"observe"}, controller : 1 .. controllers])
    /\ mainQueue \in Seq([controller : 1 .. controllers, snap : Node])

(* What was made in the app: games, and by its sign-up lastSelectedGame. *)
Saved(s) == [k \in Keys |-> IF k \notin s THEN None
                             ELSE IF k = LastSelectedGame THEN "text" ELSE "String"]

Init ==
    /\ signedIn \in BOOLEAN
    /\ running = TRUE
    /\ shown = FALSE
    /\ controllers = 0
    /\ gamesList = <<>>
    /\ alert = None
    /\ minute = 0
    /\ taps = 0
    /\ elsewhere = 0
    /\ \E s \in SavedGames : games = Saved(s)
    /\ synced = FALSE
    /\ observers = <<>>
    /\ sharedQueue = <<>>
    /\ mainQueue = <<>>

----------------------------------------------------------------------------
(* What the user does. *)

(* The list is opened: a new controller's viewDidLoad. *)
ViewDidLoad ==
    /\ running
    /\ ~shown
    /\ controllers < MaxControllers
    /\ shown' = TRUE
    /\ controllers' = controllers + 1
    /\ gamesList' = <<>>
    /\ sharedQueue' = IF signedIn THEN Append(sharedQueue, Observe(controllers'))
                                  ELSE sharedQueue
    /\ UNCHANGED <<signedIn, running, taps, alert, outside, firebase, mainQueue>>

Back ==
    /\ running
    /\ shown
    /\ alert = None
    /\ shown' = FALSE
    /\ UNCHANGED <<signedIn, running, taps, controllers, gamesList, alert, outside, firebase, queues>>

Tap ==
    /\ running
    /\ shown
    /\ taps < MaxTaps
    /\ taps' = taps + 1

(* A handler leaves list s, alert a and writes ws behind. *)
Handle(s, a, ws) ==
    /\ gamesList' = s
    /\ alert' = a
    /\ sharedQueue' = sharedQueue \o ws
    /\ UNCHANGED <<signedIn, running, shown, controllers, outside, firebase, mainQueue>>

(* addNewGame: the key is made before the alert is shown. *)
AddNewGame ==
    /\ Tap
    /\ alert = None
    /\ \E h \in Hundredths : Handle(gamesList, 100 * minute + h, <<>>)

(* The alert's Save; the list hears of the game by its observer only. *)
Save ==
    /\ Tap
    /\ alert # None
    /\ signedIn
    /\ Handle(gamesList, None, <<SetValue(alert)>>)

Cancel ==
    /\ Tap
    /\ alert # None
    /\ Handle(gamesList, None, <<>>)

(* commit editingStyle: the row and its game. *)
DeleteRow(r) ==
    /\ Tap
    /\ alert = None
    /\ r \in DOMAIN gamesList
    /\ Handle(RemoveAt(gamesList, r), alert, <<RemoveValue(gamesList[r])>>)

----------------------------------------------------------------------------
(* What the queues, the server, the web and the system do. *)

(* Mutant of RunObserve: a value that is here already is not reported. *)
RunObserveSilently ==
    /\ running
    /\ sharedQueue # <<>>
    /\ Head(sharedQueue).op = "observe"
    /\ observers' = Append(observers, Head(sharedQueue).controller)
    /\ sharedQueue' = Tail(sharedQueue)
    /\ UNCHANGED <<signedIn, running, taps, screen, outside, games, synced, mainQueue>>

(* addEventRegistration: an observer hears of a value that is here at once. *)
RunObserve ==
    /\ running
    /\ sharedQueue # <<>>
    /\ Head(sharedQueue).op = "observe"
    /\ LET c == Head(sharedQueue).controller
       IN  /\ observers' = Append(observers, c)
           /\ mainQueue' = IF synced THEN Append(mainQueue, Event(c, games)) ELSE mainQueue
    /\ sharedQueue' = Tail(sharedQueue)
    /\ UNCHANGED <<signedIn, running, taps, screen, outside, games, synced>>

(* The node becomes d, here or on the server. *)
Becomes(d) ==
    /\ games' = d
    /\ mainQueue' = IF synced /\ d # games THEN mainQueue \o Round(d) ELSE mainQueue

RunWrite ==
    /\ running
    /\ sharedQueue # <<>>
    /\ Head(sharedQueue).op # "observe"
    /\ Becomes(Apply(games, Head(sharedQueue)))
    /\ sharedQueue' = Tail(sharedQueue)
    /\ UNCHANGED <<signedIn, running, taps, screen, outside, synced, observers>>

ServerAnswers ==
    /\ running
    /\ ~synced
    /\ observers # <<>>
    /\ synced' = TRUE
    /\ mainQueue' = mainQueue \o Round(games)
    /\ UNCHANGED <<signedIn, running, taps, screen, outside, games, observers, sharedQueue>>

(* Another client makes child k one of kind x. *)
ChangedElsewhere(k, x) ==
    /\ elsewhere < MaxElsewhere
    /\ elsewhere' = elsewhere + 1
    /\ Becomes([games EXCEPT ![k] = x])
    /\ UNCHANGED <<signedIn, running, taps, screen, minute, synced, observers, sharedQueue>>

(* It deletes a game, *)
DeletedElsewhere(l) == games[l] # None /\ ChangedElsewhere(l, None)

(* ... makes one, on the web, in place of one of the same key, *)
AddedElsewhere(l) == ChangedElsewhere(l, "missing")

(* ... records in one, also in one that has been deleted, or in none, *)
RecordedElsewhere(k) ==
    \/ games[k] \in Games /\ ChangedElsewhere(k, "pucks")
    \/ games[k] = None /\ ChangedElsewhere(k, "fragment")

(* ... takes its only puck back, and an empty node is none. *)
EmptiedElsewhere(k) ==
    \/ games[k] = "pucks" /\ ChangedElsewhere(k, "missing")
    \/ games[k] = "fragment" /\ ChangedElsewhere(k, None)

(* Mutant of DeliverEvent: the games are added to those listed. *)
DeliverEventOnTop ==
    /\ running
    /\ mainQueue # <<>>
    /\ LET e == Head(mainQueue)
       IN  /\ Castable(e.snap)
           /\ gamesList' = IF e.controller # controllers \/ Present(e.snap) = {} THEN gamesList
                           ELSE gamesList \o Children(e.snap)
    /\ mainQueue' = Tail(mainQueue)
    /\ UNCHANGED <<signedIn, running, taps, shown, controllers, alert, outside, firebase, sharedQueue>>

(* The callback: the list becomes the node's children; an empty node       *)
(* leaves it as it is.                                                     *)
DeliverEvent ==
    /\ running
    /\ mainQueue # <<>>
    /\ LET e == Head(mainQueue)
       IN  /\ Castable(e.snap)
           /\ gamesList' = IF e.controller # controllers \/ Present(e.snap) = {} THEN gamesList
                           ELSE Children(e.snap)
    /\ mainQueue' = Tail(mainQueue)
    /\ UNCHANGED <<signedIn, running, taps, shown, controllers, alert, outside, firebase, sharedQueue>>

(* The process ends, with its screens and its queues. *)
Ends ==
    /\ running' = FALSE
    /\ shown' = FALSE
    /\ controllers' = 0
    /\ gamesList' = <<>>
    /\ alert' = None
    /\ synced' = FALSE
    /\ observers' = <<>>
    /\ sharedQueue' = <<>>
    /\ mainQueue' = <<>>
    /\ UNCHANGED <<signedIn, outside, games>>

(* The callback meets a child it cannot cast: as! traps. *)
CallbackTraps ==
    /\ running
    /\ mainQueue # <<>>
    /\ ~Castable(Head(mainQueue).snap)
    /\ Ends
    /\ UNCHANGED taps

(* Save without a user: (currentUser?.uid)! traps. *)
SaveTraps ==
    /\ Tap
    /\ alert # None
    /\ ~signedIn
    /\ Ends

Relaunch ==
    /\ ~running
    /\ running' = TRUE
    /\ UNCHANGED <<signedIn, taps, screen, outside, firebase, queues>>

Tick ==
    /\ minute < MaxMinutes
    /\ minute' = minute + 1
    /\ UNCHANGED <<signedIn, running, taps, screen, elsewhere, firebase, queues>>

----------------------------------------------------------------------------
UserStep ==
    \/ ViewDidLoad
    \/ Back
    \/ AddNewGame
    \/ Save
    \/ SaveTraps
    \/ Cancel
    \/ \E r \in DOMAIN gamesList : DeleteRow(r)

QueueStep == RunObserve \/ RunWrite \/ DeliverEvent \/ CallbackTraps

Elsewhere ==
    \/ \E l \in Labels : DeletedElsewhere(l) \/ AddedElsewhere(l)
    \/ \E k \in Labels \cup {Undefined} : RecordedElsewhere(k) \/ EmptiedElsewhere(k)

Next ==
    \/ UserStep
    \/ QueueStep
    \/ ServerAnswers
    \/ Elsewhere
    \/ Relaunch
    \/ Tick

Spec == Init /\ [][Next]_vars

(* As in FBShotTracker: the queues run and the device is online. *)
FairSpec ==
    /\ Spec
    /\ WF_vars(RunObserve \/ RunWrite)
    /\ WF_vars(DeliverEvent \/ CallbackTraps)
    /\ WF_vars(ServerAnswers)

----------------------------------------------------------------------------
(* Properties. *)

(* The list on the screen is the user's games, in order.  An emptied node  *)
(* is not taken over by the callback.                                      *)
Lists == \/ Present(games) = {}
         \/ Castable(games) /\ gamesList = Children(games)

(* When both queues have run dry the list on the screen is the user's      *)
(* games, and every child could be cast: rows deleted before an            *)
(* older event put them back, games deleted elsewhere meanwhile and the    *)
(* observers of lists closed before leave no row without a game and no     *)
(* game without a row, and no list stays open over a child that is no game *)
(* or a game it cannot cast.                                               *)
ListIsTheGames == signedIn /\ shown /\ Settled => Lists

(* Of a user who has only games made in the app and not recorded in, and   *)
(* no lastSelectedGame: a list that is opened comes to show the games,     *)
(* unless the user closes it; also when it is opened once more, and the    *)
(* value it asks for has long arrived, and whatever is tapped meanwhile.   *)
(* The app does not end before it does.                                    *)
ListCatchesUp ==
    []Castable(games) =>
        (signedIn /\ shown ~> (running /\ ~shown) \/ (synced /\ Lists))

(* Of an account made in the app no list ever shows a game: the callback   *)
(* ends the app at lastSelectedGame, whichever events were raised before   *)
(* games were added and deleted, and for whichever list.                   *)
AppAccountShowsNothing == games[LastSelectedGame] # None => gamesList = <<>>

----------------------------------------------------------------------------
(* What the list says of itself and does not do. *)

(* "gameData as! String": the data of every game is a String. *)
DataIsAString == [][~CallbackTraps]_vars
=============================================================================
