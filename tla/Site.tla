-------------------------------- MODULE Site --------------------------------
(***************************************************************************)
(* The web site in one tab: the session leads from page to page, and the   *)
(* single shot page keeps its variables for as long as it is shown.        *)
(***************************************************************************)
EXTENDS WebSession, SingleShot

vars == <<sessionVars, shotVars>>

TypeOK == SessionTypeOK /\ ShotTypeOK

Init == SessionInit /\ ShotInit

Stay == StayStep /\ UNCHANGED shotVars

(* A page arrives: what the one before had is gone. *)
Arrive == Serve /\ Opened

(* Bound: one measures who waits for the page and is not signed in, before *)
(* any trouble.  The page knows of none of that.                           *)
MayMeasure == page = "singleshot" /\ Quiet /\ patient /\ ~signedIn /\ Troubles = 0

Measure ==
    /\ MayMeasure
    /\ Resize \/ \E pos \in Places : Touch(pos)
    /\ UNCHANGED sessionVars

Next == Stay \/ Arrive \/ Measure

Spec == Init /\ [][Next]_vars

(* The browser and the server go on with what was asked of them; nothing   *)
(* makes the user act, a token expire or the server restart.               *)
FairSpec ==
    /\ Spec
    /\ WF_vars(Waiting /\ UNCHANGED shotVars)
    /\ WF_vars(Arrive)
=============================================================================
