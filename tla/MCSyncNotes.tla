------------------------------- MODULE MCSyncNotes -------------------------------
(***************************************************************************)
(* Two devices: how they sync records, and what becomes of the copies of   *)
(* one note.  The two models share no state, so a reachable state of the   *)
(* pair is a pair of reachable states.  One of them moves while the other  *)
(* is as at (one) start: the product of their states stays out of it.      *)
(***************************************************************************)
EXTENDS MCSyncDevices, NoteMerge

\* What a behaviour edits, beside replacements of the cloud's copy.
MCParts == {{"title", "secret", "push"}, {"body", "push"}, {"images", "push"}}

FirstPart == CHOOSE p \in Parts : TRUE
StampedCopy == FirstCopy(TRUE)
StampedCopies == [w \in Writers |-> StampedCopy]
NoteAtStart == edits = 0 /\ part = FirstPart /\ live = StampedCopy /\ copy = StampedCopies

MCInit == Init /\ NoteInit
MCNext ==
    \/ NoteAtStart /\ Next /\ UNCHANGED noteVars
    \/ Init /\ NoteNext /\ UNCHANGED vars
===============================================================================
