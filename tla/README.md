# Shot Tracker, in TLA+

Shot Tracker records the shots of an ice hockey game as sequences of pucks: the
passes, skates and rebounds that lead to an outcome. An iOS app and a web page
record into, and draw from, the same Firebase database. These modules model the
parts of that system that keep state, check them with TLC on small instances
and prove with TLAPS what matters most for instances of every size.

Paths below are relative to `src/`; `FBS` is
`iOS/Shot Tracker!/FBShotTrackerViewController.swift`, `GT` is
`Web/views/scripts/gametracker.js`, `GS` is `Web/views/scripts/gameselector.js`.

## 1. Inventory

| Part | Source | State | Operations | What makes it correct |
|---|---|---|---|---|
| Recording tabs (iOS) | `FBS`, `PuckModel.swift`, `TabBarViewController.swift` | `pucksFromFirebase` and `currpos` of each tab; the game's `data` node | touch (pass or skate), puck button (outcome), Same Sequence, Undo, Dead Sequence, the observer's callback | the key a tab computes is the next free one; tabs come to agree; recorded pucks stay |
| Final Shots tab (iOS) | `FBS` 242-330, 442-496 | `pucksFromFirebase`, `sequencesFromFirebase`, the labels, the lines drawn | show one type, select a period | it draws, and counts, what the game holds |
| Game tracker page (web) | `GT` | `currentPucks`, `gameToGetData`, `shotPlacedSinceDataLoad`, the selectors | canvas click, outcome buttons, undo, dead sequence, view or track | the database mirrors the page's list |
| Game selector (web) | `GS`, `GameModel.js` | `gamesClassList`, the table, `numNewDiv` | list, add, open, delete | a row's buttons act on the row's game; the rows are the games |
| Game selector (iOS) | `GameSelectorViewController.swift`, `GameModel.swift` | `gamesList` | list, add, delete | every game can be listed; keys are unique |
| Sign-in and session (web) | `Web/server.js`, `firebaselogin.js`, `navbar.js`, `accountsettings.js` | the token in the address, the signed-in user, the directories served | log in, check the token, log out | every request is answered, and every page leads on to the one asked for |
| Sign-in (iOS) | `SignInController.swift`, `AppDelegate.swift`, ... | the current user | sign up, sign in, sign out | none beyond the libraries' |
| Single shot | `singleshot.js`, `DistanceController.swift` | which of puck and goalie is placed next, the distances kept, the numbers shown | place, measure, resize | the numbers are those of the positions shown |
| Legacy tracker (iOS) | `PuckTrackerController.swift`, `PageViewController.swift`, `GameTableViewController.swift`, `TableViewController.swift` | Core Data | | no scene of the storyboard uses it |
| Database rules | `database.rules.json` | | | |
| Watch app, test targets | Xcode templates | | | |

The database is a tree: `games/<uid>/<game>/data/<index>` holds one puck
(`x`, `y`, `shotType`, `period`, `newSequenceBool`),
`games/lastGameClickedList/<uid>` the game the user opened last, `users/<uid>`
an address. The index of a puck is computed by whoever records it from the
length of a list of its own; nothing else orders the pucks or keeps two writers
from choosing the same index. That is the heart of the system.

How the parts interact, and what makes it hard:

* A tap in the app changes the tab's list at once and only *dispatches* its
  writes. A second queue applies them and raises one value event per observer;
  every event is a block of its own on the main queue, between any two taps.
* The app shows one controller per period. All of them observe the same node,
  each has a list of its own, and a tab that is not shown still hears events.
* The callback replaces the list, but not when the node is empty.
* Undo, Dead Sequence and Same Sequence remove keys, some with several writes;
  the process can end between two writes of one tap.
* The Final Shots tab adds an observer with every button and removes none.
* On the web every handler wraps its database work in `onAuthStateChanged`. The
  callback runs when the user becomes known, stays registered, and runs again
  at every change of user.
* The web pages ask once for their data and append what they get to what they
  hold by then.
* The selector page hands the game to the tracker through `lastSelectedGame`,
  not in the address.
* The database client keeps writes until the server acknowledges them, shows
  its own value with those writes on top, and sends them again after a lost
  connection. None of that survives the process, and two devices on one game
  choose keys from lists of their own.
* On the web a link first fetches a token and then goes to a page whose scripts
  are served from a directory that another request has mounted; the server
  checks the token in the address and puts the login page in the place of the
  page asked for.

## 2. The modules

| Module | Models | Builds on |
|---|---|---|
| `Pucks` | a puck, the `data` node and the three writes to a child, shared by all | |
| `ShotLog` | abstract: a game is a list that changes at its end only | `Pucks` |
| `ShotWrites` | the writes as records, and what they do to a node | `Pucks` |
| `FBShotTracker` | the recording tabs, the two queues, the server's first answer, the end of the process | `ShotWrites`; implements `ShotLog` |
| `SharedGame` | several devices on one game, their clients and the server | `ShotWrites` |
| `Cutting` | abstract: the sequences a list consists of, for the app and for the page | `Pucks` |
| `Progressions` | the two loops that compute them, turn by turn | `Cutting` |
| `FinalShots` | the tab that draws | `Cutting`; its game is a `ShotLog` |
| `GameTracker` | the tracker page | `Pucks` |
| `KeyOrder` | the order in which the database enumerates the children of a node | |
| `GameSelector` | the web game selector | `KeyOrder` |
| `GameList` | the app's list of games | `KeyOrder` |
| `SingleShot` | the single shot page and the same screen of the app | |
| `WebSession` | the web site's pages, tokens and sign-in | |
| `Site` | a tab of the web site: `WebSession` composed with `SingleShot` | both |
| `MC...` | values for the constants, symmetry, one constraint | the module named |
| `..._proofs` | theorems and their lemmas | the module named |

### Pucks, ShotLog

`Node` maps keys to children. A child is a whole puck or, after
`updateChildValues` on a key that is gone, a `PartialChild` with a shot type
only. `Children(d)` is what a snapshot enumerates; `WellFormed(d)` says that the
keys are `0..n-1` and all children whole, which the code takes for granted.
Positions are members of a small set: no property depends on a coordinate
beyond "near the last puck" and "inside the rink". `ShotLog` is the promise
`makeNewShotEntity` (`FBS` 229), `undoShot` (157) and a touch on the last puck
(517) make together.

### FBShotTracker

`pucks`, `currpos` and `loaded` are the tabs' fields (a tab is named by its
period); `data`, `synced` and `observers` are the client's copy of the node,
whether the server's value has arrived, and the registered observers;
`sharedQueue` and `mainQueue` are the two dispatch queues
(`FIRDatabaseReference.m`, `FIRDatabaseQuery.m`, `FRepo.m`, `FEventRaiser.m`).
Every handler is one action: `ViewDidLoad`; `TouchOutside`, `TouchPass`,
`TouchSkate` (`touchesEnded`, 498-543); `ShotButton`, `SameSequence`,
`SameSequenceTraps` (`shotButtonClicked`, 187-227); `UndoShot`; `DeadSequence`.
The queues' work is `RunObserve`, `RunWrite`, `DeliverEvent` and
`CallbackTraps`; `ServerAnswers` is the first value; `Terminate` and `Relaunch`
end and start the process.

What it leaves out. A write that ran on the shared queue is taken as stored;
what becomes of it between the client and the server is `SharedGame`. Which tab
is in front cannot be observed by the code, so a tap may go to any loaded tab.
`deleteAllData` is never called. The game itself is taken as chosen
(`gameToEdit`). Lines, colours and alerts are a function of the list.

### SharedGame

A device runs the app with one tab. `serverCache` is the server's value as its
client heard it last, `pending` the writes not acknowledged, `View` the first
with the second on top (`FWriteTree.m` 187, `FViewProcessor.m` 530). `inbox` is
what the server has sent: values, and with `own` the acknowledgement of a write.
A value comes before the acknowledgement of the write that made it, which is
how the service orders them. `Connect` listens and sends all of `pending` from
the start (`restoreState`, `FPersistentConnection.m` 827), `Disconnect` loses
the inbox, `ServerTakes` takes the next write, whether it had it before or not.
`CallbackTraps` ends the app of a device whose view has a child that
is not whole; what it had sent until then is on its way and may still be taken.
The handlers are those of `FBShotTracker`; a tap and the events it raises are
one step, since the queues between them are the subject of that module.
`writers` and `takeBack` never change: they say who records in a behaviour, and
whether they also take back.

Two users who record at once choose the same key and one puck replaces the
other; if one takes back meanwhile, the game can get a gap. The model does all
that; the properties say what holds nevertheless.

### Cutting, Progressions

The app ends a sequence at an outcome that is marked
(`createProgressionsNoType`, `FBS` 270-295), the page at a mark (`split`, `GT`
263-276). `Progressions` keeps the loops' own counters, from zero, and one
action per turn and branch; both run on one list (`LoopsSpec`).

### FinalShots

One action per button (`ShowShotProgression`, `PeriodSelected`, `AllSelected`),
plus `ViewWillAppear`; `Register` and `Deliver` are the observers, `asked` those
on their way. What a button draws is `Chosen`: of the sequences cut, those at
the places whose last puck has the type, or the period, in their order. The game
changes as `ShotLog` allows. The node is in the client's
cache, since the recording tabs of the same tab bar observe it. Observers and
events carry nothing that tells them apart, so they are counted and queued.

### GameTracker

`currentPucks` is a list of references: `heap` has the objects, because the
callback of a click writes the puck *as it is when the callback runs*. Each
handler is an action that changes the list and registers callbacks; `Run` is
what one callback does, `Handle` runs the new ones at once when the user is
known, `SignIn` runs all of them. `GameArrives` and `PucksArrive` are the two
answers of `getCorrectGame`. `nodes` has the game and the stray path
`undefined/data` that is used while `gameToGetData` is not set.

What it leaves out: resizing (positions are stored relative to the canvas),
drawing, `lastSelectedGame` as such (one game), a second user.

### GameSelector

`rows` is the table, a row being its id, its label and the number of listeners
its trash can has (the cells always get theirs along with it);
`gamesClassList` has the labels. A label is the second of `now`. `AddGame`,
`DeleteGame` and `SelectAGame` are the handlers; deleting calls `RemoveGame`
once per listener (`RemoveGameTimes`). `SignIn(u)` runs every callback for `u`,
a second user included (`RunAll`). `GamesArrive` makes the rows in the order of
the keys (`InKeyOrder`). A sign-out leads to `/login` (`Leave`), so it ends the page's state.
`patient` never changes: it is chosen at the start and says whether this user
waits for the page and lets a second pass between two games. `Stray` is a child
that is no game: an account made in the app has `lastSelectedGame` among its
games (`SignInController.swift` 50). The page makes a row of it, without a
label; deleting the row asks for `child(undefined)`, which throws after the row
has gone and before the list is shortened (`GS` 115), so rows and list are out
of step from then on. `InStep` is the condition under which the properties hold.

`EveryGameShown` names two conditions, one of which is enough: the page has
known one user and rows and list are in step, or no trash can has been clicked
since the page was opened. That no account has a stray child would not be
enough for the second: a removal registered for one user runs again, by place,
when a second one signs in, and takes the label of another game from the list;
the next click then removes a row and a game that are not each other's. It takes
seven callbacks, more than the run has; the attempt at a proof showed it.

What it leaves out: titles and dates, the token in the address, writes lost
because the page was left before they were sent, and a child `undefined` among the
games, which the tracker page makes for a user who clicks before it is loaded.
`SelectAGame` notes the game to open; the tracker page reads it, and is a model of
its own, with one game.

### GameList

`games` is the user's node. A child of it is a game whose data is the string `""`
(made in the app, nothing recorded), or pucks, or missing (made on the web, or
emptied again); or a `fragment`, the data of a game that was deleted while
someone recorded in it; or a `text`. Two keys are no games: `LastSelectedGame`,
which the app's own sign-up puts there (`SignInController.swift` 50, `Saved`), and
`Undefined`, under which the tracker page records before it knows its game.
Every visit makes a controller and registers one more observer, which keeps the
controller alive when the list is closed; events say which controller they are
for, and `gamesList` is that of the latest. Queues, first answer and the end of
the process are as in `FBShotTracker`. `Save` writes and waits for the observer;
`DeleteRow` changes the list at once. `AddedElsewhere`, `DeletedElsewhere`,
`RecordedElsewhere` and `EmptiedElsewhere` are the changes of other clients;
recording on the same device does to the node what `RecordedElsewhere` does.

`Castable` is what the callback asks of every child before it lists any
(`GameSelectorViewController.swift` 27-34): four fields that are strings. Only a
game with `""` in it has them, and `CallbackTraps` ends the app on the rest. It
follows that an account made by the app's sign-up never gets to see its list,
because of `lastSelectedGame` (`AppAccountShowsNothing`); what the other
properties say is of use to accounts made on the web or with Google.
`SaveTraps` is a save without a user (77).

What it leaves out: nickname and date; the sign-up itself, whose child is there
from the start; and opening a game: the storyboard moves on to the tabs, and no
code assigns `gameToEdit`.

### SingleShot

A number is modelled by the positions it was computed from, because what can go
wrong is not the arithmetic, which is floating point, but which variables it
reads. On the page a position belongs to a size of the canvas: the canvas is
made anew when the window is resized (46), the distances are not. Both screens
are touched at the same places. What is drawn (`drawn`; `pView` and `gView` in the
app) is kept apart from the variables the numbers are computed from. `lastWViewable` is only set in front of the
goal line (104), the distance always (91): with the puck on or behind the line the
width in the goalie's numbers is an earlier puck's, or was never set, and
`PageNumbersFit` says exactly that.

### WebSession, Site

A tab shows `page` in answer to the request `address`. `GatedLink`, `SignIn` and
`SelectGame` fetch a token and then go (`asking`); `TokenArrives` goes there
whatever was clicked meanwhile. `Served` is `loginCheck`; `Stuck` is a request
with a token the server refuses, which it never answers (`server.js` 29-32).
`Mounts` is the `app.use` in the handlers of the pages, on which the pages'
own scripts depend (`ScriptsArrive`). `Told` is what the pages do when they hear
of the user. Troubles (a token that cannot be fetched, a sign-in or sign-out in
another tab, a restart of the server) are counted, `Expire` is the hour after
which a token is refused. `wanted` is where a patient user last asked to go.

"/" is answered by `public/index.html`, the welcome page of an empty Firebase
site, because `express.static` of `public` is registered before the route
(`server.js` 16 and 58): `home.html` and the check before it are never reached.
The model has that page, and no links on it.

`Site` composes the two: a page that arrives opens the single shot screen anew.
`MayMeasure` restricts measuring to a quiet tab, on which nothing of the session
depends.

What they leave out: alerts; images that load late and are drawn on a canvas
already cleared; the list of static directories, which grows with every request.

## 3. What is checked

Ten runs pass:

| Run | Instance | Shows |
|---|---|---|
| `hasty` | two tabs, two pucks, taps at any moment with up to one piece of work queued, the app ends anywhere | `NoTabLeftBehind`, `Agreement`: after any interleaving of taps, queues and the server's answer each tab lists the game once the queues are empty |
| `patient` | two tabs, three pucks, a user who waits; followed up to the step that tears a game | `TornOnlyWhenEmpty`: ending the app between any two writes of a tap leaves keys `0..n-1` and whole children, unless the game was empty. `NoPuckLost`: a write touches the last puck only |
| `single` | one tab, four pucks, fair queues, device online | `NeverTorn`; `GameIsALog`: write by write the node implements `ShotLog`. `TabsCatchUp`: a loaded tab comes to list the game |
| `shared` | two devices, one or both recording, two taps, a lost connection, an app that ends | `Converged`: when nothing is under way every device has the server's game. `AddersLeaveNoGap`: users who only add never make a gap, on a device or the server. `WriterUndisturbed`: acknowledgements and repeated writes never change the list of one who records alone, nor the client's view under it. `EverythingArrives`: no write or answer waits for good |
| `cutting` | all 11111 lists of up to four pucks of two outcomes | `AppCutsAtOutcomes`, `PageCutsAtMarks` after every turn, `SameWhereClean` at the end |
| `final_shots` | two periods, two outcomes, two pucks, four observers | `ListIsTheGame`: the events of many observers leave no older list behind. `DrawsTheGame`: a button draws the game's sequences of its type and period. `CountsTheGame`: the total shown with a period is the game's; the number of the period and the total of "All" are, if the sequences cut for the button before were the game's |
| `page` | two periods, three places, a game of two pucks or none, four clicks, two sign-ins | `Mirrors`: the database holds the list, puck for puck. `ClosedSequencesKept`: no click reaches a closed sequence that has a puck behind it. `PeriodsAreReal`: no click, answer or first sign-in makes "All" a puck's period; only a further sign-in with "All" selected does. `NothingStray`: nothing is recorded outside the game. `ClickOverwritesNothing`: a click puts its puck under a free key, after a second sign-in too |
| `selector` | two users, two seconds, five callbacks, two sign-ins, hasty and patient users, an account made in the app | `ClickDeletesItsRow`, `EveryGameShown`, `EveryRowWorks`; for a patient user `RowsAreTheGames` |
| `list` | a user signed in or not, with an account made in the app, one with games only and an empty one, two visits, three taps, two changes elsewhere, two minutes of two hundredths | `ListIsTheGames`: when the queues are empty and the app still runs, every child could be cast and the list is the user's games. `AppAccountShowsNothing`: of an account made in the app no list ever shows a game. `ListCatchesUp`: of an account whose children are, and stay, games as the app makes them, a list that is opened comes to show them unless it is closed, and the app does not end before. `TypeOK` here says that no game is ever listed twice |
| `site` | one tab, two tokens at a time, two troubles, four touches at three places | `GetsThere`, `WantedIsReached`: a patient user ends where they wanted to be. `PagesGetTheirScripts`: only a restart of the server leaves a page without. `NumbersFit`: the numbers on both screens are of the puck and the goalie drawn, except that the page's width is of the drawn puck exactly if it is in front of the goal line |

Some of these say nothing of a user who does not wait, and the code does go wrong
for one: a touch before the game has loaded overwrites key 0 (`patient`,
`single`), a click on the tracker page before its pucks are there overwrites the
game's first (`page`), a game added before the others have arrived is shown twice
(`RowsAreTheGames`), and of two links clicked in a row the token that comes last
decides (`site`). `hasty` has no such condition, nor have `shared`, `list` and the
other properties of `selector`. `PagesGetTheirScripts` excepts a page sent before
the server was restarted, and `WantedIsReached` a page that was reloaded.

Two find what the code does against what it says of itself:

| Run | What happens |
|---|---|
| `fragment` | `CallbackNeverTraps`: the game is emptied in one tab; another tab keeps its pucks, because the callback ignores an empty node. A touch on the last of them updates a key that is gone (`FBS` 523), leaving a child with a shot type only, and the next callback unwraps its `x` (138). |
| `list_traps` | `DataIsAString`: the callback of the list asserts that the data of every game is a string (`GameSelectorViewController.swift` 34). A game with a puck in it has a node there and one made on the web has nothing: the cast traps, and the list cannot be opened any more. The accounts of this run hold games only; one made in the app traps on `lastSelectedGame` already, which `AppAccountShowsNothing` is about. |

Further disagreements met while modelling, all in the models as the code has
them but without a run:

* *The app's tabs.* A touch on the last puck makes a skate of a goal too (the
  alert at `FBS` 526 speaks of a pass); Same Sequence on an empty list traps
  (216, `SameSequenceTraps`); Dead Sequence keeps the first puck of a list
  without an outcome (169); Undo in a tab with the pucks of an emptied game
  removes nothing (160); a touch before the first value overwrites key 0 (234).
* *Final Shots.* "Shots Per This Period" is an argument evaluated before
  `sortByPeriod` makes the sequences anew (466): the number is that of the
  button pressed before, which is why `CountsTheGame` has a condition; the total
  of "All" (491) makes no sequences at all and has the same one. A game
  without a sequence counts one shot (271, 467).
* *The tracker page.* A click before the pucks have arrived takes the length of
  an empty list as key (`GT` 369) and replaces the game's first puck: the
  properties of `page` are those of a user who waits. The callback of Undo
  (427) stays registered and undoes another puck at every sign-in; that of Same
  Sequence (123) reads the period once more, which may be "All" by then. The test for
  a double click has its upper bound for y twice (347, `WithinRegion`).
* *The selector page.* Games that one user adds are written to the account of
  the next one who signs in elsewhere (`GS` 95); a child that is no game
  becomes a row (28).
* *The app's list.* Two games of one minute with the same hundredths have one
  key (61), and the second replaces the first.
  The account of a user who signs up in the app has the child
  `lastSelectedGame` (`SignInController.swift` 50), on which the callback of the
  list traps: such a user never sees the list. So it is with what is recorded in
  a game that was deleted meanwhile: a child that is data only.
* *The web site.* A refused token is never answered (`server.js` 29); only a
  reload can meet that, since links fetch a fresh token. "/" is the placeholder
  page. The selector's redirect to `/login` (`GS` 13) loses the page asked for.
* *Single shot.* Behind the goal line the goalie's width is computed from that
  of an earlier puck (`singleshot.js` 104), or from none.

### Bounds, and why they are enough

* *Tabs, devices, users*: two. Every property speaks of one tab, or of one and the game;
  a third tab does nothing a second does not.
* *Pucks*: Dead Sequence and Same Sequence need a closed sequence or a first
  puck and two pucks behind it; `single` has four, `patient` three. `hasty`
  needs only a list that differs from the node and has two, for the cost of the
  queues.
* *Positions*: `slot` is inside both of the app's rink tests, `rim` inside the
  one for touches only, `board` inside the one for buttons only, `crease` is
  where rebounds go. On the page `slot` and `point` share a column, which is all
  its test for a double click looks at.
* *MaxBacklog* (no tap while more work than this is queued) keeps the queues
  finite. With one piece of work queued a tap already meets unapplied writes,
  events of an older node and an observer not yet registered; a tap that
  makes three writes makes the queue longer than the bound. The theorems have no
  such bound: they hold for every value of it.
* *MaxTaps*, *MaxDrops*, *MaxEnds* (`shared`): a disagreement takes one tap on
  each device, or two on one; a lost connection makes one write come twice, and
  an app that ends loses one. The game begins with a puck so that each kind of
  write is possible at once.
* *MaxControllers*, *MaxElsewhere*, *MaxTaps*, *MaxMinutes* (`list`): a closed
  list and an open one; adding a game takes two taps, deleting one takes one.
* *MaxAsking*, *MaxTroubles* (`site`): a token that comes late needs a second
  one; a page without scripts needs one restart, a lost sign-in one change.
  *MaxTouches* lets a puck and a goalie be placed twice, or once with the window
  resized in between.
* *MaxObservers*, *MaxEvents*, *MaxHandlers*, *MaxCallbacks*, *MaxSignIns*,
  *MaxSeconds* bound what grows without limit. The shortest ways to break the
  properties (each one is broken by a changed definition kept beside the
  original as "Mutant of ...") are well below them.
* `patient` has the constraint `Untorn`: its properties are about the step that
  tears a game, which is still checked; what follows is the subject of `fragment`.

Symmetry: tabs are interchangeable in `hasty`, where every game starts empty;
periods and outcomes in `final_shots`; users in `selector`. None of these runs
has a liveness property.

Deadlock is checked, except in `cutting`, whose loops end, and in `shared`,
`list` and `list_traps`, where the users have a bounded number of taps and then
may do no more.

### Fairness

`single`, `shared`, `list` and `site` have liveness properties. Nowhere does
fairness make a user act, a connection break or the system end an app.

* `FBShotTracker` and `GameList`: weak fairness of the shared queue, of the main
  queue and of the server's answer. A dispatch queue runs what is on it, and the
  device is online.
* `SharedGame`: weak fairness of `Exchange(d)` for each device: the client tries
  again until it is connected (`tryScheduleReconnect`), and while something is
  under way something arrives. Connections break finitely often (`MaxDrops`).
* `Site`: weak fairness of what the page and the libraries have begun
  (`Waiting`) and of the server's answer to a request it does answer (`Arrive`).

## 4. What is proved

Every invariant and every action property that the passing runs check is a
theorem, and so is the refinement of `ShotLog`. The theorems are for any number
of tabs, devices, users, games, controllers, observers, callbacks, sign-ins,
positions, periods, outcomes and pucks and any backlog. The bounds of the runs
are constants here, and the theorems hold for all their values.

| Theorem | Module | Says |
|---|---|---|
| `TypeCorrect` | `FBShotTracker_proofs` | `Spec => []TypeOK`: no handler names a key outside the node or writes a child that is not a puck, and lists keep their bound |
| `NoTabIsLeftBehind` | `FBShotTracker_proofs` | `Spec => []NoTabLeftBehind` |
| `TabsAgree` | `FBShotTracker_proofs` | `Spec => []Agreement` |
| `TornWhileEmpty` | `FBShotTracker_proofs` | `Patient /\ UntornSpec => TornOnlyWhenEmpty` |
| `PucksAreKept` | `FBShotTracker_proofs` | `Patient /\ UntornSpec => NoPuckLost` |
| `OneTabIsNeverTorn` | `FBShotTracker_proofs` | `OneTab /\ Spec => []NeverTorn` |
| `OneTabIsALog` | `FBShotTracker_proofs` | `OneTab /\ Spec => GameIsALog`, the refinement of `ShotLog` |
| `TypeCorrect` | `SharedGame_proofs` | `Spec => []TypeOK`: no acknowledgement finds a client's queue empty |
| `DevicesConverge` | `SharedGame_proofs` | `Spec => []Converged` |
| `SoleWriterIsUndisturbed` | `SharedGame_proofs` | `Spec => WriterUndisturbed` |
| `AddersFillTheGame` | `SharedGame_proofs` | `Spec => []AddersLeaveNoGap` |
| `AppCutsRight` | `FinalShots_proofs` | `LoopsSpec => []AppCutsAtOutcomes` |
| `PageCutsRight` | `FinalShots_proofs` | `LoopsSpec => []PageCutsAtMarks` |
| `SameForCleanLists` | `FinalShots_proofs` | `LoopsSpec => []SameWhereClean` |
| `ListIsUpToDate` | `FinalShots_proofs` | `Spec => []ListIsTheGame` |
| `ButtonsDrawTheGame` | `FinalShots_proofs` | `Spec => DrawsTheGame` |
| `PeriodsCountTheGame` | `FinalShots_proofs` | `Spec => CountsTheGame` |
| `TabTypes` | `FinalShots_proofs` | `Spec => []TypeOK`: what is cut and drawn are sequences of pucks, and no line is drawn for an empty one |
| `PageTypeCorrect` | `GameTracker_proofs` | `Spec => []TypeOK` |
| `GameMirrorsList` | `GameTracker_proofs` | `Patient /\ Spec => []Mirrors` |
| `ClosedSequencesStay` | `GameTracker_proofs` | `Patient /\ Spec => ClosedSequencesKept` |
| `PeriodsStayReal` | `GameTracker_proofs` | `Patient /\ Spec => PeriodsAreReal` |
| `NothingIsStray` | `GameTracker_proofs` | `Patient /\ Spec => []NothingStray` |
| `ClicksAddPucks` | `GameTracker_proofs` | `Patient /\ Spec => ClickOverwritesNothing` |
| `SelectorTypes` | `GameSelector_proofs` | `Spec => []TypeOK`: ids grow along the table, so no two rows share one |
| `SelectorShowsEveryGame` | `GameSelector_proofs` | `Spec => []EveryGameShown` |
| `SelectorRowsWork` | `GameSelector_proofs` | `Spec => []EveryRowWorks` |
| `SelectorShowsTheGames` | `GameSelector_proofs` | `Spec => []RowsAreTheGames` |
| `SelectorDeletesTheRow` | `GameSelector_proofs` | `Spec => ClickDeletesItsRow` |
| `ListTypes` | `GameList_proofs` | `Spec => []TypeOK`: no game is ever listed twice |
| `ListShowsTheGames` | `GameList_proofs` | `Spec => []ListIsTheGames` |
| `AppAccountsListNothing` | `GameList_proofs` | `Spec => []AppAccountShowsNothing`: no event can be cast that carries `lastSelectedGame` |
| `SiteTypes` | `Site_proofs` | `Spec => []TypeOK` |
| `ScriptsAreMounted` | `Site_proofs` | `Spec => []PagesGetTheirScripts` |
| `NumbersAreRight` | `Site_proofs` | `Spec => []NumbersFit` |
| `PatienceGetsThere` | `Site_proofs` | `Spec => []GetsThere` |

The hypotheses are those of the runs. `Patient` is the constant that the runs
`patient`, `single` and `page` set to TRUE: a user who waits for what they see.
`OneTab` is `Patient` and one element in `Tabs`, as in `single`. `UntornSpec` is
`Spec` as far as the constraint `Untorn` of `patient` follows it, the step that
tears a game included. Nothing else is assumed but the named assumptions on the
constants, which TLC evaluates in the runs: `PucksAssumption`,
`AbsentAssumption`, and those of the component (`FBShotTrackerAssumption`,
`SharedGameAssumption`, `ProgressionsAssumption`, `FinalShotsAssumption`,
`GameTrackerAssumption`, `GameSelectorAssumption`, `GameListAssumption`,
`WebSessionAssumption`, `SingleShotAssumption`).

*The tabs* (`FBShotTracker_proofs`). `Agreement` is not inductive: it speaks of
empty queues. What is preserved is `NoTabLeftBehind`, for every observing tab
`v`: the last event on its way to `v` carries the node as it is, and there is
such an event, or a write on the shared queue that would change the node, or `v`
already lists the node. `IInv` adds `TypeOK` and that a process that is down has
no observers. A handler preserves it because, starting from a list that is the
node's, its first write changes the node, or it leaves the list alone
(`EditKeeps`, with `SetChanges`, `RemoveChanges`, `UpdateChanges`). `RunWrite`
preserves it because a write that changes the node raises an event for every
observer (`RoundReaches`, `RoundIsHeard`), and one that does not leaves the other effective
writes effective (`EffectiveTail`). `DeliverEvent` preserves it because the
event delivered is fresh if it was the last one for its tab.

*The game they record* (`FBShotTracker_proofs`). That the node stays well formed is
not inductive: the writes of a tap wait in the queue and the app may end between
them. `Leads(k, w, m)` says that the write `w` touches the end of a game of `k`
pucks and leaves one of `m`, or tears an empty one; `Path` that the writes that
wait lead from size to size, beginning with the node's (`QueueLeads`). Any
prefix of a path is a path, which is what the end of the process needs. A tap
extends the path because a user who waits has an empty queue and a list that is
the node's: `NoTabLeftBehind` again, together with `LoadedObserve` (a loaded tab
observes or is about to). With one tab an empty game cannot be torn: `Sole` says
in addition that the tab asks for the game before it writes, and that when the
path ends with an empty game the tab has an empty list and no event will fill it
(`Empties`). A write that follows the path is a step of `ShotLog`.

*Several devices* (`SharedGame_proofs`). `TypeOK` counts, for each device, the
server's acknowledgements on their way against the writes still pending.
`OnlineKnows`: the last message to a device that is online carries the server's
node, or there is none and its cache is the node; `ListsShow`: the list is the
view, that is the cache under the pending writes. `AloneInv`, for one who records
alone: whatever the server has already taken of the pending writes is absorbed
when all of them are applied again (`AfterSteps` and the lemmas about layers:
what a sequence of writes leaves at a key is decided by its last write there), so
an acknowledgement removes nothing that is shown. `AddInv`, for users who only
add: a device's cache has keys `0..c-1`, its pending writes reach upwards from
there without a gap (`Reaches`, `Fits`), and no node on its way to the device is
smaller than the one before (`Grows`); a write sent twice is below the server's
size, one sent once is at most next to it.

*The loops* (`FinalShots_proofs`). `AppInvariant` and `PageInvariant` say what
the counters are: the number of endings so far and the last one. A turn that
closes a sequence adds the largest ending; `KeyAtBehind` and `ClosedOneMore` show
that this appends one sequence and leaves the others alone. The lemmas about
`KeyAt` (the key with n smaller ones, in `Pucks_proofs`) are about finite sets of
integers.

*Final Shots* (`FinalShots_proofs`). `ListInv`: the last event on its way carries
the game, or there is none and the list is the game (or the game was emptied,
which the callback ignores). The numbers and the drawing
follow, since both are computed from the list. The types of what is drawn need
that `Chosen` enumerates its places: `KeyAt` names them in increasing order
(`KeysGrow`), and each is a sequence of those that were cut (`ClosedType`,
`ChosenType`, `SortedTypes`).

*The tracker page* (`GameTracker_proofs`). The callbacks work on a record `st`.
`StateType` types it and `Keeps(st, r)` says what no callback does: it takes back
no object, writes to `undefined/data` only while the game is not known, and
never leaves a key that is not below the length of the list (`Leads`) where there
was none. `RunAll` is a function defined along the callbacks; `RunAllSteps` gives
its intermediate records, and what one callback keeps, all of them do. `Waits`
(for a user who waits, any number of sign-ins): the list leads the game's keys,
or the game is still as it was saved and nothing has been clicked; a click finds
the list ahead, so its key is free. The list is then allowed to hold the game
twice, and the callbacks of all earlier clicks to run once more. `First` (up to
the second sign-in): before the answer the game is as it was saved; afterwards
`Mirrored`, the game is the list, puck for puck, no object is listed twice and
each has all its fields. Each click keeps that and leaves the first `m` pucks of
the game alone (`Kept(m)`): all for a pass, all but the last for a skate, an
outcome, a rebound or undo, all but the `n` removed for a dead sequence, which
by its guard are behind the last closed one. `PeriodsAreReal`
is about a step: `Real` says of a record of the callbacks that no object and no
child has the period "All", and `Keeps` that a callback leaves it so while a
period is selected (`PeriodRead`, `RealStore`). A click that records is made in track
mode, where a period is selected; the answers bring only what the game holds. At the
first sign-in nothing has been clicked, so no callback writes. What is left is a
further sign-in while "All" is selected, and TLC has the behaviour in which it
does write "All".

*The selector page* (`GameSelector_proofs`). `IInv` follows the page's one life.
`NoUserYet`: before a user is known, games have been added and nothing else.
`OneInStep`, while one user has been known: one request was made, for that user
(`SoleUser`), and either the row without a label is gone (`StrayRowGone`) or rows
and list are in step (`RowsAndList`) and, for a user who waits, are the games
(`WaitingUser`). `RowsListen` and `AllAdded` are for any number of users: once the
games are here every row has listeners, and without a removal every game has a
row. A sign-in runs callbacks one after the other: `RunAllSteps` gives the records
in between, and what one callback keeps, all keep (`RunAllKeeps`). A click runs
`RemoveGame` once per listener: since ids grow along the table, the first removes
the row and the others find none (`RemoveOnce`). That `InKeyOrder` is what it says,
an enumeration that exists, is `InKeyOrderIs`, by the least size of a set without
one. `IInv` was checked with TLC, with five callbacks and with six, before it was
proved.

*The app's list* (`GameList_proofs`). `ListIsTheGames` speaks of empty queues; what
is preserved is `ListNotLeftBehind`, along the argument of the tabs: the last event
for the list on the screen carries the games of now, and there is such an event,
or a write that waits will change the games (`Effective`), or the list shows them.
`Asked` adds that a list on the screen has its observer or has asked for one.
Observers of lists that were closed stay in `observers`; their events are told
apart by the controller (`LastFor`, `HasFor`). Deleting a row keeps the invariant
because a list that shows the games makes its write an effective one. `IInv` was
checked with TLC, with a third visit, before it was proved.
`AppAccountShowsNothing` rests on `SameMark`: nothing that waits, here or
elsewhere, names `lastSelectedGame`, so every event carries it as the node does,
and the callback that would fill the list traps on it instead.

*The web tab* (`Site_proofs`). `ScriptsInv`, `ShotInv` and `WayInv` are the
properties with what makes them inductive: scripts are loading only where they
are mounted or the server was restarted; what the screens show was computed from
what is placed; and of a patient user one thing is under way at a time, for the
page they want (`OnTheWay`).

*Only model-checked*: liveness (`TabsCatchUp`, `EverythingArrives`,
`ListCatchesUp`, `WantedIsReached`), which is out of the provers' reach.

## 5. Not modelled

* *`cookieServer.js`*: a variant of `server.js` that answers a refused token with
  the login page; `npm start` runs `server.js`.
* *The arithmetic of the single shot screens*: floating point.
* *Sign-in (iOS)*: calls into libraries and moves between screens.
* *Legacy tracker*: dead code; no scene of the storyboard uses it and two of its
  files are not compiled.
* *Database rules*: a static policy of the service.
* *Watch app, test targets*: empty templates.

## 6. Plan

Done: every part of the app and of the web site that keeps state is modelled, and
every invariant, action property and refinement the passing runs check is proved.
Nothing is planned beyond keeping modules, runs and proofs in step with the code.
