----------------------------- MODULE MCSyncDevices -----------------------------
(* Two devices of one account.                                              *)
EXTENDS SyncDevices, TLC

CONSTANTS d1, d2, n1, n2, e1, e2

\* d1 starts with the notes; d2 is linked to the account and has none.
MCStarts == {d1 :> Notes @@ d2 :> {}}

\* Each had a note of its own before they were linked.
MCStartsApart == {d1 :> {n1} @@ d2 :> {n2}}

\* Both kept the notes of an account they once shared.
MCStartsBoth == {d1 :> Notes @@ d2 :> Notes}

\* Users act at every stage of a flight.
AnyTime == Stages

\* Nothing tells two notes or two edits apart; with uploads one at a time, nor
\* does the order in which a round's uploads are written.
MCSymmetry == Permutations(Notes) \cup Permutations(Edits)
===============================================================================
