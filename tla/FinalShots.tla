----------------------------- MODULE FinalShots -----------------------------
(***************************************************************************)
(* The Final Shots tab of the iOS app, the instance of                     *)
(* FBShotTrackerViewController that draws what the others record.          *)
(*                                                                         *)
(* The game changes as ShotLog says.  The tab hears of it as the recording *)
(* tabs do: every change raises one value event per observer, and an event *)
(* replaces the tab's list on the main queue.  Every button calls getData  *)
(* again, and sortByPeriod once more, so observers pile up.                *)
(*                                                                         *)
(* A button works on the list as it is: what getData asks for comes later. *)
(***************************************************************************)
EXTENDS Cutting, SequencesExt

CONSTANTS
    SavedGames,     \* what the game may hold when the tab opens
    All,            \* the selection, and the label, of all periods
    NoPeriod,       \* what the labels say before a period is selected
    MaxObservers,   \* bound: observers registered or asked for
    MaxEvents       \* bound: the game changes only while fewer are queued

ASSUME FinalShotsAssumption ==
    /\ SavedGames \subseteq PuckLists
    /\ All \notin Periods \cup Nat /\ NoPeriod \notin Periods \cup Nat
    /\ All # NoPeriod
    /\ MaxObservers \in Nat /\ MaxEvents \in Nat

VARIABLES
    game,           \* the pucks the database holds
    asked,          \* observe calls dispatched but not yet run
    observers,      \* the tab's observers
    events,         \* value events on the main queue
    pucks,          \* pucksFromFirebase
    sequences,      \* sequencesFromFirebase
    periodText,     \* the period of PeriodSelText
    perShots,       \* the number in "Shots Per This Period"
    totalShots,     \* the number in "Total Shots"
    drawn           \* the sequences on the screen

database == <<game, asked, observers, events>>
labels == <<periodText, perShots, totalShots>>
vars == <<database, pucks, sequences, labels, drawn>>

Log == INSTANCE ShotLog WITH log <- game

TypeOK ==
    /\ game \in PuckLists
    /\ asked \in Nat /\ observers \in Nat
    /\ events \in Seq(PuckLists)
    /\ pucks \in PuckLists
    /\ sequences \in Seq(PuckLists)
    /\ periodText \in Periods \cup {All, NoPeriod}
    /\ perShots \in Nat \cup {All, NoPeriod}
    /\ totalShots \in Nat \cup {NoPeriod}
    /\ drawn \in Seq(PuckLists \ {<<>>})

(* viewDidLoad has been run. *)
Init ==
    /\ Log!Init
    /\ asked = 1
    /\ observers = 0
    /\ events = <<>>
    /\ pucks = <<>>
    /\ sequences = <<>>
    /\ periodText = NoPeriod
    /\ perShots = NoPeriod
    /\ totalShots = NoPeriod
    /\ drawn = <<>>

----------------------------------------------------------------------------
(* What the database does. *)

(* A recording tab writes to the game. *)
Write ==
    /\ Len(events) < MaxEvents
    /\ \/ \E p \in PuckModel : /\ p.newSequenceBool = EndsSequence(p)
                               /\ Len(game) < MaxPucks
                               /\ Log!Record(p)
       \/ Log!TakeBack
       \/ Log!Skate
    /\ events' = IF game' = game THEN events
                                 ELSE events \o [n \in 1 .. observers |-> game']
    /\ UNCHANGED <<asked, observers, pucks, sequences, labels, drawn>>

(* An observer is registered; the node is in the cache of the client, the  *)
(* recording tabs observe it.                                              *)
Register ==
    /\ asked > 0
    /\ asked' = asked - 1
    /\ observers' = observers + 1
    /\ events' = Append(events, game)
    /\ UNCHANGED <<game, pucks, sequences, labels, drawn>>

(* Mutant of Deliver: the old pucks are not removed first. *)
DeliverAppending ==
    /\ events # <<>>
    /\ events' = Tail(events)
    /\ pucks' = pucks \o Head(events)
    /\ UNCHANGED <<game, asked, observers, sequences, labels, drawn>>

(* getData's callback ignores an empty node. *)
Deliver ==
    /\ events # <<>>
    /\ events' = Tail(events)
    /\ pucks' = IF Head(events) = <<>> THEN pucks ELSE Head(events)
    /\ UNCHANGED <<game, asked, observers, sequences, labels, drawn>>

----------------------------------------------------------------------------
(* What the user does. *)

(* n more calls of observe. *)
Ask(n) ==
    /\ asked + observers + n <= MaxObservers
    /\ asked' = asked + n
    /\ UNCHANGED <<game, observers, events>>

Progressions == AppSequences(pucks, Len(pucks))

(* The sequences at the places I of ss, in their order. *)
Chosen(ss, I) == [n \in 1 .. Cardinality(I) |-> ss[KeyAt(I, n - 1)]]

(* The sequences whose last puck is of the type, or of the period. *)
OfType(ss, type) ==
    Chosen(ss, {n \in DOMAIN ss : ss[n] # <<>> /\ Last(ss[n]).shotType = type})

SortByPeriod(ss, period) ==
    Chosen(ss, {n \in DOMAIN ss : ss[n] # <<>> /\ Last(ss[n]).period = period})

(* Mutant of ShowShotProgression: the sequences of the last time. *)
ShowStaleProgression(type) ==
    /\ Ask(IF periodText = All THEN 1 ELSE 2)
    /\ sequences' = Progressions
    /\ drawn' = IF periodText = All THEN OfType(sequences, type)
                ELSE SortByPeriod(OfType(sequences, type), periodText)
    /\ UNCHANGED <<pucks, labels>>

ShowShotProgression(type) ==
    /\ Ask(IF periodText = All THEN 1 ELSE 2)
    /\ sequences' = Progressions
    /\ drawn' = IF periodText = All THEN OfType(sequences', type)
                ELSE SortByPeriod(OfType(sequences', type), periodText)
    /\ UNCHANGED <<pucks, labels>>

(* Mutant of PeriodSelected: the total, too, is that of the time before. *)
PeriodSelectedStale(period) ==
    /\ Ask(2)
    /\ drawn' = <<>>
    /\ periodText' = period
    /\ perShots' = Len(SortByPeriod(sequences, period))
    /\ totalShots' = Len(sequences)
    /\ sequences' = Progressions
    /\ UNCHANGED pucks

(* The number of the period is counted before sortByPeriod makes the       *)
(* sequences anew, the total after that.                                   *)
PeriodSelected(period) ==
    /\ Ask(2)
    /\ drawn' = <<>>
    /\ periodText' = period
    /\ perShots' = Len(SortByPeriod(sequences, period))
    /\ sequences' = Progressions
    /\ totalShots' = Len(sequences')
    /\ UNCHANGED pucks

(* "All" makes no sequences. *)
AllSelected ==
    /\ Ask(1)
    /\ drawn' = <<>>
    /\ periodText' = All
    /\ perShots' = All
    /\ totalShots' = Len(sequences)
    /\ UNCHANGED <<pucks, sequences>>

(* The tab is shown again. *)
ViewWillAppear ==
    /\ drawn' = <<>>
    /\ UNCHANGED <<database, pucks, sequences, labels>>

Next ==
    \/ Write
    \/ Register
    \/ Deliver
    \/ \E type \in Outcomes : ShowShotProgression(type)
    \/ \E period \in Periods : PeriodSelected(period)
    \/ AllSelected
    \/ ViewWillAppear

Spec == Init /\ [][Next]_vars

----------------------------------------------------------------------------
(* Properties. *)

(* Nothing is under way, and the game is not one that was emptied. *)
Still == asked = 0 /\ events = <<>> /\ game # <<>>

GameSequences(type, period) ==
    LET typed == OfType(AppSequences(game, Len(game)), type)
    IN  IF period = All THEN typed ELSE SortByPeriod(typed, period)

(* However often the tab has asked for the game and whatever was recorded  *)
(* and taken back meanwhile: when everything has arrived a button draws    *)
(* the game's sequences of its type and of the period selected.            *)
DrawsTheGame ==
    [][\A type \in Outcomes :
        Still /\ ShowShotProgression(type) => drawn' = GameSequences(type, periodText)]_vars

(* Selecting a period then shows the game's total.  Two numbers are        *)
(* counted from the sequences the button before made: the number of the    *)
(* period, and the total that "All" shows.  They are the game's only if    *)
(* those sequences were cut from this game, otherwise an earlier game's.   *)
CountsTheGame ==
    [][LET all == AppSequences(game, Len(game))
       IN  /\ \A period \in Periods :
                Still /\ PeriodSelected(period) =>
                    /\ totalShots' = Len(all)
                    /\ sequences = all => perShots' = Len(SortByPeriod(all, period))
           /\ Still /\ AllSelected /\ sequences = all => totalShots' = Len(all)]_vars

(* When nothing is under way the list is the game's: of the events of many *)
(* observers none that is late replaces a newer list by an older one.      *)
ListIsTheGame == Still => pucks = game

=============================================================================
