---------------------------- MODULE Progressions ----------------------------
(***************************************************************************)
(* How a list of pucks is cut into the sequences that are drawn: the loop  *)
(* of the app (createProgressionsNoType) and the loop of the page (split), *)
(* each run on one and the same list.  Both count from 0.                  *)
(*                                                                         *)
(* Cutting says what the loops are meant to compute.                       *)
(***************************************************************************)
EXTENDS Cutting

CONSTANT Lists      \* the lists looked at

ASSUME ProgressionsAssumption == Lists \subseteq Seq(PuckModel)

VARIABLES
    list,
    current, lastCurrent, seqNum, sequencesFromFirebase,    \* the app's loop
    i, endOfLastSequence, sequencesByPeriod                 \* the page's loop

app == <<current, lastCurrent, seqNum, sequencesFromFirebase>>
web == <<i, endOfLastSequence, sequencesByPeriod>>
loopVars == <<list, app, web>>

LoopsInit ==
    /\ list \in Lists
    /\ current = 0
    /\ lastCurrent = 0
    /\ seqNum = 0
    /\ sequencesFromFirebase = << <<>> >>
    /\ i = 0
    /\ endOfLastSequence = -1
    /\ sequencesByPeriod = <<>>

AppGoesOn ==
    /\ current < Len(list)
    /\ ~AppEnds(list[current + 1])
    /\ current' = current + 1
    /\ UNCHANGED <<list, lastCurrent, seqNum, sequencesFromFirebase, web>>

(* Mutant of AppCuts: the next sequence starts with this one's outcome. *)
AppCutsShort ==
    /\ current < Len(list)
    /\ AppEnds(list[current + 1])
    /\ LET tempSequence == SubSeq(list, lastCurrent + 1, current + 1)
       IN  sequencesFromFirebase' =
              IF seqNum = 0 THEN [sequencesFromFirebase EXCEPT ![1] = tempSequence]
                            ELSE Append(sequencesFromFirebase, tempSequence)
    /\ lastCurrent' = current
    /\ seqNum' = seqNum + 1
    /\ current' = current + 1
    /\ UNCHANGED <<list, web>>

AppCuts ==
    /\ current < Len(list)
    /\ AppEnds(list[current + 1])
    /\ LET tempSequence == SubSeq(list, lastCurrent + 1, current + 1)
       IN  sequencesFromFirebase' =
              IF seqNum = 0 THEN [sequencesFromFirebase EXCEPT ![1] = tempSequence]
                            ELSE Append(sequencesFromFirebase, tempSequence)
    /\ lastCurrent' = current + 1
    /\ seqNum' = seqNum + 1
    /\ current' = current + 1
    /\ UNCHANGED <<list, web>>

PageGoesOn ==
    /\ i < Len(list)
    /\ ~PageEnds(list[i + 1])
    /\ i' = i + 1
    /\ UNCHANGED <<list, endOfLastSequence, sequencesByPeriod, app>>

(* Mutant of PageCuts: slice taken without its last element. *)
PageCutsShort ==
    /\ i < Len(list)
    /\ PageEnds(list[i + 1])
    /\ sequencesByPeriod' =
          Append(sequencesByPeriod, SubSeq(list, endOfLastSequence + 2, i))
    /\ endOfLastSequence' = i
    /\ i' = i + 1
    /\ UNCHANGED <<list, app>>

PageCuts ==
    /\ i < Len(list)
    /\ PageEnds(list[i + 1])
    /\ sequencesByPeriod' =
          Append(sequencesByPeriod, SubSeq(list, endOfLastSequence + 2, i + 1))
    /\ endOfLastSequence' = i
    /\ i' = i + 1
    /\ UNCHANGED <<list, app>>

LoopsNext == AppGoesOn \/ AppCuts \/ PageGoesOn \/ PageCuts

LoopsSpec == LoopsInit /\ [][LoopsNext]_loopVars

----------------------------------------------------------------------------
(* Properties. *)

(* After each turn of the app's loop the sequences are the ones closed by  *)
(* the outcomes seen so far: each from the puck after the last outcome up  *)
(* to and including its own, none twice, none left out.                    *)
AppCutsAtOutcomes == sequencesFromFirebase = AppSequences(list, current)

(* The same for the page's loop. *)
PageCutsAtMarks == sequencesByPeriod = PageSequences(list, i)

(* In a list where exactly the outcomes are marked the app and the page    *)
(* show the same sequences, and the app an empty one where there is none.  *)
Clean(s) == \A k \in DOMAIN s : s[k].newSequenceBool = EndsSequence(s[k])

SameWhereClean ==
    current = Len(list) /\ i = Len(list) /\ Clean(list) =>
        sequencesFromFirebase =
            IF sequencesByPeriod = <<>> THEN << <<>> >> ELSE sequencesByPeriod
=============================================================================
