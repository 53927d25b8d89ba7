---------------------------- MODULE GameSelector ----------------------------
(***************************************************************************)
(* The game selector page (gameselector.js) in one browser tab.            *)
(*                                                                         *)
(* The page keeps its games twice: as rows of the table, each with an id   *)
(* that never changes, and as a list of GameModels.  A click on a trash    *)
(* can looks for the row by its id and for the game by the row's place.    *)
(*                                                                         *)
(* A game's key, its gameFBLabel, is the second it was made in.  An        *)
(* account made in the app has a child among its games that is none, the   *)
(* text "None" under the key lastSelectedGame, after all of them.  The     *)
(* page makes a row of it and a GameModel, both without a label.           *)
(*                                                                         *)
(* As on the tracker page, database work is done in callbacks registered   *)
(* with onAuthStateChanged, which run again whenever the user changes.     *)
(* Only a sign-out spares them: it leads to the login page.                *)
(***************************************************************************)
EXTENDS KeyOrder, SequencesExt

CONSTANTS
    Users,
    Nobody,         \* no user is known
    NoGame,         \* lastSelectedGame before a game was selected
    SavedGames,     \* the sets of games a user may have to begin with
    MaxSeconds,     \* bound: the clock stops there
    MaxCallbacks,   \* bound: callbacks registered with onAuthStateChanged
    MaxSignIns      \* bound: sign-ins the page sees

Seconds == 0 .. MaxSeconds

(* The child that is no game, and the label its row does not have. *)
Stray == MaxSeconds + 1

Keys == Seconds \cup {Stray}

ASSUME GameSelectorAssumption ==
    /\ MaxSeconds \in Nat /\ MaxCallbacks \in Nat /\ MaxSignIns \in Nat
    /\ Nobody \notin Users
    /\ NoGame \notin Keys
    /\ SavedGames \subseteq SUBSET Keys

VARIABLES
    patient,            \* the user waits for the page, and a second between games
    open,               \* the page is shown
    user,               \* the user the page knows of
    signIns,            \* how often a user became known
    callbacks,          \* those registered with onAuthStateChanged
    loads,              \* requests for each user's games under way
    numNewDiv,          \* the id of the next row
    rows,               \* the table
    gamesClassList,     \* the labels of the GameModels
    opening,            \* a selection is on its way to the server
    now,                \* the second it is
    games,              \* the keys of games/<uid>
    lastSelectedGame    \* games/lastGameClickedList/<uid>

page == <<callbacks, loads, numNewDiv, rows, gamesClassList, opening>>
database == <<games, lastSelectedGame>>
vars == <<patient, open, user, signIns, page, now, database>>

----------------------------------------------------------------------------
(* The callbacks, on a record of what they may change. *)

Load == [does |-> "load"]
SetValue(label) == [does |-> "set", label |-> label]
RemoveValue(label, place) == [does |-> "remove", label |-> label, place |-> place]

(* A row of the table, and how many listeners its trash can and cells have. *)
Row(id, label) == [id |-> id, label |-> label, listeners |-> 0]

Listen(row) == [row EXCEPT !.listeners = @ + 1]

LastListens(rs) == IF rs = <<>> THEN rs ELSE [rs EXCEPT ![Len(rs)] = Listen(@)]

Now == [callbacks |-> callbacks, loads |-> loads, rows |-> rows,
        list |-> gamesClassList, games |-> games]

(* Mutant of DropGame: the list keeps the game. *)
DropNothing(list, place) == list

DropGame(list, place) == IF place \in DOMAIN list THEN RemoveAt(list, place) ELSE list

(* One callback, called with user u.  The row of a new game has listeners  *)
(* only now, and whatever row is the last one by now gets them.  A removal *)
(* without a label throws before the list is made anew.                    *)
Run(st, c, u) ==
    CASE c.does = "load"   -> [st EXCEPT !.loads[u] = @ + 1]
      [] c.does = "set"    -> [st EXCEPT !.games[u] = @ \cup {c.label},
                                         !.rows = LastListens(@)]
      [] c.does = "remove" -> IF c.label = Stray THEN st
                              ELSE [st EXCEPT !.games[u] = @ \ {c.label},
                                              !.list = DropGame(@, c.place)]

(* The callbacks cs one after the other. *)
RunAll(st, cs, u) ==
    LET h[n \in 0 .. Len(cs)] == IF n = 0 THEN st ELSE Run(h[n - 1], cs[n], u)
    IN  h[Len(cs)]

(* A handler registers c. *)
Register(st, c) ==
    LET st1 == [st EXCEPT !.callbacks = Append(@, c)]
    IN  IF user = Nobody THEN st1 ELSE Run(st1, c, user)

Becomes(st) ==
    /\ callbacks' = st.callbacks
    /\ loads' = st.loads
    /\ rows' = st.rows
    /\ gamesClassList' = st.list
    /\ games' = st.games

Labels == [r \in DOMAIN rows |-> rows[r].label]

Ready == user # Nobody /\ \A u \in Users : loads[u] = 0

TypeOK ==
    /\ patient \in BOOLEAN /\ open \in BOOLEAN /\ opening \in BOOLEAN
    /\ user \in Users \cup {Nobody}
    /\ signIns \in 0 .. MaxSignIns
    /\ loads \in [Users -> Nat]
    /\ numNewDiv \in Nat
    /\ rows \in Seq([id : 0 .. numNewDiv - 1, label : Keys, listeners : Nat])
    /\ \A r, s \in DOMAIN rows : r < s => rows[r].id < rows[s].id
    /\ gamesClassList \in Seq(Keys)
    /\ now \in Seconds
    /\ games \in [Users -> SUBSET Keys]
    /\ lastSelectedGame \in [Users -> Keys \cup {NoGame}]

Init ==
    /\ patient \in BOOLEAN
    /\ open = TRUE
    /\ user = Nobody
    /\ signIns = 0
    /\ callbacks = <<>>
    /\ loads = [u \in Users |-> 0]
    /\ numNewDiv = 0
    /\ rows = <<>>
    /\ gamesClassList = <<>>
    /\ opening = FALSE
    /\ now = 0
    /\ games \in [Users -> SavedGames]
    /\ lastSelectedGame = [u \in Users |-> NoGame]

----------------------------------------------------------------------------
(* Clicks. *)

Click ==
    /\ open
    /\ patient => Ready /\ ~opening
    /\ Len(callbacks) < MaxCallbacks
    /\ UNCHANGED <<patient, open, user, signIns, now>>

(* Mutant of AddGame: the next row gets the same id. *)
AddGameUncounted ==
    /\ Click
    /\ patient => now \notin games[user]
    /\ Becomes(Register([Now EXCEPT !.rows = Append(@, Row(numNewDiv, now)),
                                    !.list = Append(@, now)], SetValue(now)))
    /\ UNCHANGED <<numNewDiv, opening, lastSelectedGame>>

(* addGameFirebase; a prompt that is cancelled makes a game all the same. *)
AddGame ==
    /\ Click
    /\ patient => now \notin games[user]
    /\ Becomes(Register([Now EXCEPT !.rows = Append(@, Row(numNewDiv, now)),
                                    !.list = Append(@, now)], SetValue(now)))
    /\ numNewDiv' = numNewDiv + 1
    /\ UNCHANGED <<opening, lastSelectedGame>>

(* Mutant of RemoveGame: the row is looked up by its id as if ids had no gaps. *)
RemoveGameById(st, id) ==
    LET at == id + 1
    IN  IF at \notin DOMAIN st.rows \/ at \notin DOMAIN st.list THEN st
        ELSE Register([st EXCEPT !.rows = RemoveAt(@, at)], RemoveValue(st.list[at], at))

(* removeGame: without such a row, or such a game, it throws. *)
RemoveGame(st, id) ==
    LET at == SelectInSeq(st.rows, LAMBDA row : row.id = id)
        st1 == [st EXCEPT !.rows = RemoveAt(@, at)]
    IN  IF at = 0 THEN st
        ELSE IF at \notin DOMAIN st.list THEN st1
        ELSE Register(st1, RemoveValue(st.list[at], at))

(* The handler, called k times. *)
RemoveGameTimes(st, id, k) ==
    LET h[n \in 0 .. k] == IF n = 0 THEN st ELSE RemoveGame(h[n - 1], id)
    IN  h[k]

(* A click on a trash can calls every listener it has. *)
DeleteGame(r) ==
    /\ Click
    /\ r \in DOMAIN rows
    /\ rows[r].listeners > 0
    /\ Becomes(RemoveGameTimes(Now, rows[r].id, rows[r].listeners))
    /\ UNCHANGED <<numNewDiv, opening, lastSelectedGame>>

(* selectAGame: the label is the row's, or "undefined". *)
SelectAGame(r) ==
    /\ open
    /\ patient => Ready /\ ~opening
    /\ r \in DOMAIN rows
    /\ rows[r].listeners > 0
    /\ user # Nobody
    /\ lastSelectedGame' = [lastSelectedGame EXCEPT ![user] = rows[r].label]
    /\ opening' = TRUE
    /\ UNCHANGED <<patient, open, user, signIns, callbacks, loads, numNewDiv, rows,
                   gamesClassList, now, games>>

----------------------------------------------------------------------------
(* What the session, the server and the clock do. *)

(* The page learns of user u: it registers one more load, and every        *)
(* callback runs.                                                          *)
SignIn(u) ==
    /\ open
    /\ u # user
    /\ signIns < MaxSignIns
    /\ Len(callbacks) < MaxCallbacks
    /\ user' = u
    /\ signIns' = signIns + 1
    /\ LET cs == Append(callbacks, Load)
       IN  Becomes(RunAll([Now EXCEPT !.callbacks = cs], cs, u))
    /\ UNCHANGED <<patient, open, numNewDiv, opening, now, lastSelectedGame>>

Gone ==
    /\ open' = FALSE
    /\ user' = Nobody
    /\ callbacks' = <<>>
    /\ loads' = [u \in Users |-> 0]
    /\ numNewDiv' = 0
    /\ rows' = <<>>
    /\ gamesClassList' = <<>>
    /\ opening' = FALSE
    /\ UNCHANGED <<patient, signIns, now, database>>

(* Nobody is signed in, and the page goes to /login; or the user goes on   *)
(* to another page.                                                        *)
Leave == open /\ Gone

(* The selection is acknowledged: the tracker opens. *)
Open == open /\ opening /\ user # Nobody /\ Gone

(* The page is loaded again. *)
Return ==
    /\ ~open
    /\ open' = TRUE
    /\ UNCHANGED <<patient, user, signIns, page, now, database>>

(* Mutant of GamesArrive: only the rows that arrive get listeners. *)
GamesArriveAlone(u) ==
    /\ open
    /\ loads[u] > 0
    /\ loads' = [loads EXCEPT ![u] = @ - 1]
    /\ LET new == InKeyOrder(games[u])
           fresh == [n \in DOMAIN new |-> Listen(Row(numNewDiv + n - 1, new[n]))]
       IN  /\ rows' = rows \o fresh
           /\ gamesClassList' = gamesClassList \o new
           /\ numNewDiv' = numNewDiv + Len(new)
    /\ UNCHANGED <<patient, open, user, signIns, callbacks, opening, now, database>>

(* The games of u, in the order of their keys; every row on the page gets  *)
(* listeners, once more if it has some.                                    *)
GamesArrive(u) ==
    /\ open
    /\ loads[u] > 0
    /\ loads' = [loads EXCEPT ![u] = @ - 1]
    /\ LET new == InKeyOrder(games[u])
           fresh == [n \in DOMAIN new |-> Row(numNewDiv + n - 1, new[n])]
           all == rows \o fresh
       IN  /\ rows' = [r \in DOMAIN all |-> Listen(all[r])]
           /\ gamesClassList' = gamesClassList \o new
           /\ numNewDiv' = numNewDiv + Len(new)
    /\ UNCHANGED <<patient, open, user, signIns, callbacks, opening, now, database>>

(* The server refuses to show u's games to another user. *)
GamesRefused(u) ==
    /\ open
    /\ u # user
    /\ loads[u] > 0
    /\ loads' = [loads EXCEPT ![u] = @ - 1]
    /\ UNCHANGED <<patient, open, user, signIns, callbacks, numNewDiv, rows,
                   gamesClassList, opening, now, database>>

Tick ==
    /\ now < MaxSeconds
    /\ now' = now + 1
    /\ UNCHANGED <<patient, open, user, signIns, page, database>>

----------------------------------------------------------------------------
UserStep ==
    \/ AddGame
    \/ \E r \in DOMAIN rows : DeleteGame(r) \/ SelectAGame(r)

Next ==
    \/ UserStep
    \/ \E u \in Users : SignIn(u) \/ GamesArrive(u) \/ GamesRefused(u)
    \/ Leave
    \/ Open
    \/ Return
    \/ Tick

Spec == Init /\ [][Next]_vars

----------------------------------------------------------------------------
(* Properties. *)

(* The page has known one user so far. *)
OneUser ==
    \A m, n \in DOMAIN callbacks : callbacks[m] = Load /\ callbacks[n] = Load => m = n

(* No trash can has been clicked since the page was opened.                *)
NothingRemoved == \A n \in DOMAIN callbacks : callbacks[n].does # "remove"

(* The child that is no game has its row, or was never loaded. *)
InStep == Stray \in Range(gamesClassList) => Stray \in Range(Labels)

(* Until the row without a label is deleted, a click on any other trash    *)
(* can deletes the game its row shows and no other, and takes that row     *)
(* away: rows and list keep in step although the row is found by its id    *)
(* and the game by its place, whatever was added, even before the games    *)
(* arrived, and deleted before, and however many listeners a can has.      *)
ClickDeletesItsRow ==
    [][\A r \in DOMAIN rows :
        OneUser /\ InStep /\ rows[r].label # Stray /\ DeleteGame(r) =>
            /\ games' = [games EXCEPT ![user] = @ \ {rows[r].label}]
            /\ Len(rows') = Len(rows) - 1
            /\ \A s \in DOMAIN rows' : rows'[s].id # rows[r].id]_vars

(* Once the page is loaded, and until then, every game of the user has a   *)
(* row, also one that was added before its callback could run or one of    *)
(* two made in the same second; and, where nothing was deleted meanwhile,  *)
(* one recorded in a user's name by a callback of another.                 *)
EveryGameShown ==
    Ready /\ ((OneUser /\ InStep) \/ NothingRemoved) => games[user] \subseteq Range(Labels)

(* ... and every row has listeners: one that got none because another was  *)
(* the last when its callback ran gets one from the load.                  *)
EveryRowWorks == Ready => \A r \in DOMAIN rows : rows[r].listeners > 0

(* For a user who waits, and until then, the rows are the games, each      *)
(* shown once.                                                             *)
RowsAreTheGames ==
    patient /\ Ready /\ OneUser /\ InStep =>
        IsInjective(Labels) /\ Range(Labels) = games[user]
=============================================================================
