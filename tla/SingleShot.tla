----------------------------- MODULE SingleShot -----------------------------
(***************************************************************************)
(* The single shot page (singleshot.js) and the same screen of the app     *)
(* (DistanceController), touched at the same places.  Both place a puck    *)
(* and the goalie in turn and show numbers computed from the two.          *)
(*                                                                         *)
(* A number is modelled by the places it was computed from.  On the page a *)
(* measure is a place on a canvas, since the canvas is made anew with the  *)
(* window's size and the variables that hold distances are not.  What is   *)
(* drawn is kept apart from what the numbers are computed from.            *)
(***************************************************************************)
EXTENDS Naturals

CONSTANTS
    Places,         \* where one can click or touch
    Behind,         \* ... on or behind the goal line
    InRink,         \* ... where the app places things
    MaxTouches,     \* bound: clicks and resizes of the window
    Unset           \* a variable that was never set, a number never shown

Measures == Places \X (0 .. MaxTouches)

ASSUME SingleShotAssumption ==
    /\ Behind \subseteq Places /\ InRink \subseteq Places
    /\ MaxTouches \in Nat
    /\ Unset \notin Measures /\ Unset \notin Places

VARIABLES
    touches,            \* clicks and resizes so far
    canvas,             \* 1 more after each resize
    whichThingPlaced,   \* the page: "puck" or "goalie" comes next
    lastPuckPos,
    lastShot,           \* lastShotDist, tWidth, tHeight
    lastWViewable,
    goalieNums,         \* the four numbers shown for a goalie
    drawn,              \* the puck and the goalie on the canvas
    goalpuck,           \* the app: "puck" or "goalie" comes next
    puckPos,
    shotdist,
    tSize,              \* tWidth, tHeight
    goaliedist,
    pView, gView,       \* the puck and the goalie on the app's screen
    labels              \* what the app's labels were computed from

pageVars == <<whichThingPlaced, lastPuckPos, lastShot, lastWViewable, goalieNums, drawn>>
appVars == <<goalpuck, puckPos, shotdist, tSize, goaliedist, pView, gView, labels>>
shotVars == <<touches, canvas, pageVars, appVars>>

Things == {"puck", "goalie"}

Other(thing) == IF thing = "puck" THEN "goalie" ELSE "puck"

ShotTypeOK ==
    /\ touches \in 0 .. MaxTouches /\ canvas \in 0 .. touches
    /\ whichThingPlaced \in Things /\ goalpuck \in Things
    /\ lastPuckPos \in Measures \cup {Unset} /\ lastShot \in Measures \cup {Unset}
    /\ lastWViewable \in {m \in Measures : m[1] \notin Behind} \cup {Unset}
    /\ goalieNums \in [shot : Measures \cup {Unset}, width : Measures \cup {Unset}, goalie : Measures]
                        \cup {Unset}
    /\ drawn \in [puck : Measures \cup {Unset}, goalie : Measures \cup {Unset}]
    /\ {puckPos, shotdist, tSize, goaliedist, pView, gView} \subseteq InRink \cup {Unset}
    /\ labels \in [pos : InRink \cup {Unset}, dist : InRink \cup {Unset},
                   size : InRink \cup {Unset}, goalie : InRink \cup {Unset}] \cup {Unset}

Cleared == [puck |-> Unset, goalie |-> Unset]

(* Both screens as they are when they are opened. *)
Opened ==
    /\ touches' = 0
    /\ canvas' = 0
    /\ whichThingPlaced' = "puck"
    /\ lastPuckPos' = Unset
    /\ lastShot' = Unset
    /\ lastWViewable' = Unset
    /\ goalieNums' = Unset
    /\ drawn' = Cleared
    /\ goalpuck' = "puck"
    /\ puckPos' = Unset
    /\ shotdist' = Unset
    /\ tSize' = Unset
    /\ goaliedist' = Unset
    /\ pView' = Unset
    /\ gView' = Unset
    /\ labels' = Unset

ShotInit ==
    /\ touches = 0
    /\ canvas = 0
    /\ whichThingPlaced = "puck"
    /\ lastPuckPos = Unset
    /\ lastShot = Unset
    /\ lastWViewable = Unset
    /\ goalieNums = Unset
    /\ drawn = Cleared
    /\ goalpuck = "puck"
    /\ puckPos = Unset
    /\ shotdist = Unset
    /\ tSize = Unset
    /\ goaliedist = Unset
    /\ pView = Unset
    /\ gView = Unset
    /\ labels = Unset

----------------------------------------------------------------------------
(* drawPuck clears the canvas; drawGoalie draws the last puck again.  An   *)
(* image is drawn at once.                                                 *)
DrawPuck(pos) == drawn' = [puck |-> <<pos, canvas>>, goalie |-> Unset]

DrawGoalie(pos) == drawn' = [puck |-> lastPuckPos, goalie |-> <<pos, canvas>>]

(* Mutant of ClickPuck: the width is noted behind the line as well. *)
ClickPuckAnywhere(pos) ==
    /\ whichThingPlaced = "puck"
    /\ lastPuckPos' = <<pos, canvas>>
    /\ DrawPuck(pos)
    /\ lastShot' = <<pos, canvas>>
    /\ lastWViewable' = <<pos, canvas>>
    /\ UNCHANGED goalieNums

(* calcPuckNums: only in front of the line the width is noted. *)
ClickPuck(pos) ==
    /\ whichThingPlaced = "puck"
    /\ lastPuckPos' = <<pos, canvas>>
    /\ DrawPuck(pos)
    /\ lastShot' = <<pos, canvas>>
    /\ lastWViewable' = IF pos \in Behind THEN lastWViewable ELSE <<pos, canvas>>
    /\ UNCHANGED goalieNums

(* calcGoalieNums *)
ClickGoalie(pos) ==
    /\ whichThingPlaced = "goalie"
    /\ DrawGoalie(pos)
    /\ goalieNums' = [shot |-> lastShot, width |-> lastWViewable, goalie |-> <<pos, canvas>>]
    /\ UNCHANGED <<lastPuckPos, lastShot, lastWViewable>>

(* touchesBegan outside the rink places nothing. *)
TouchNothing(pos) ==
    /\ pos \notin InRink
    /\ UNCHANGED <<puckPos, shotdist, tSize, goaliedist, pView, gView, goalpuck>>

(* shotdistance notes the width and the height as well. *)
TouchPuck(pos) ==
    /\ goalpuck = "puck"
    /\ pos \in InRink
    /\ pView' = pos
    /\ puckPos' = pos
    /\ tSize' = pos
    /\ shotdist' = pos
    /\ goalpuck' = Other(goalpuck)
    /\ UNCHANGED <<goaliedist, gView>>

(* Mutant of TouchGoalie: the goalie's distance notes its width and height *)
(* where the puck's does.                                                  *)
TouchGoalieSizing(pos) ==
    /\ goalpuck = "goalie"
    /\ pos \in InRink
    /\ gView' = pos
    /\ tSize' = pos
    /\ goaliedist' = pos
    /\ goalpuck' = Other(goalpuck)
    /\ UNCHANGED <<puckPos, shotdist, pView>>

TouchGoalie(pos) ==
    /\ goalpuck = "goalie"
    /\ pos \in InRink
    /\ gView' = pos
    /\ goaliedist' = pos
    /\ goalpuck' = Other(goalpuck)
    /\ UNCHANGED <<puckPos, shotdist, tSize, pView>>

(* goalienums, after every touch. *)
Goalienums ==
    labels' = [pos |-> puckPos', dist |-> shotdist', size |-> tSize', goalie |-> goaliedist']

(* The same place on both screens. *)
Touch(pos) ==
    /\ touches < MaxTouches
    /\ touches' = touches + 1
    /\ ClickPuck(pos) \/ ClickGoalie(pos)
    /\ whichThingPlaced' = Other(whichThingPlaced)
    /\ TouchNothing(pos) \/ TouchPuck(pos) \/ TouchGoalie(pos)
    /\ Goalienums
    /\ UNCHANGED canvas

(* The window gets another size; the canvas is made anew, and empty. *)
Resize ==
    /\ touches < MaxTouches
    /\ touches' = touches + 1
    /\ canvas' = canvas + 1
    /\ drawn' = Cleared
    /\ UNCHANGED <<whichThingPlaced, lastPuckPos, lastShot, lastWViewable, goalieNums, appVars>>

----------------------------------------------------------------------------
(* Properties. *)

(* While a goalie is drawn on the page, the four numbers are of that       *)
(* goalie, and of the puck drawn with it: the distance and the width they  *)
(* are computed from are kept in variables of their own, set by earlier    *)
(* clicks.  The width is the exception: a puck on or behind the goal line  *)
(* sets none, so that it is then an earlier puck's, or never set.          *)
PageNumbersFit ==
    drawn.goalie # Unset =>
        /\ goalieNums.goalie = drawn.goalie
        /\ goalieNums.shot = drawn.puck
        /\ (goalieNums.width = drawn.puck) <=> (drawn.puck[1] \notin Behind)
        /\ goalieNums.width # Unset => goalieNums.width[1] \notin Behind

(* The app's labels are of the puck and the goalie on its screen after     *)
(* every touch: one that placed nothing, and the next puck while the       *)
(* goalie of the last one still stands, included.                          *)
AppNumbersFit ==
    labels # Unset => labels = [pos |-> pView, dist |-> pView, size |-> pView, goalie |-> gView]

(* The numbers of both screens are of what is drawn there. *)
NumbersFit == PageNumbersFit /\ AppNumbersFit
=============================================================================
