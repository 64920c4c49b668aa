------------------------------ MODULE RecordStore ------------------------------
(***************************************************************************)
(* What the relay promises the devices of one account: a round is answered *)
(* in one step.  It shows the account as it is, and its writes happen as a *)
(* whole or not at all.  Nothing of transactions, counters, version        *)
(* history or quotas is visible here; Relay is shown to implement it.      *)
(***************************************************************************)
EXTENDS RelayRules

CONSTANTS
    Batches,        \* the batches devices may send
    Cursors,        \* the cursors they may hold
    OldAccounts     \* the rows and clocks an account may start with

VARIABLES
    live,           \* the account's rows
    clock,          \* the account's last sequence number
    reply           \* the answer to the last round

vars == <<live, clock, reply>>

Init ==
    /\ \E old \in OldAccounts : live = old.rows /\ clock = old.clock
    /\ reply = NoReply

\* The account is deleted, or swept, or starts over: rows and numbering go.
Forget ==
    /\ live' = {} /\ clock' = 0
    /\ reply' = NoReply

Reset(cursor) ==
    /\ cursor > clock
    /\ reply' = ResetReply
    /\ UNCHANGED <<live, clock>>

Show(cursor, b) ==
    /\ cursor <= clock
    /\ After(live, cursor) # {}
    /\ reply' = PageReply(live, cursor, b)
    /\ UNCHANGED <<live, clock>>

Refuse(cursor, b) ==
    /\ cursor <= clock
    /\ After(live, cursor) = {}
    /\ Conflicts(live, b.uploads) # {}
    /\ reply' = ConflictReply(live, clock, cursor, b)
    /\ UNCHANGED <<live, clock>>

Write(cursor, b) ==
    /\ cursor <= clock
    /\ After(live, cursor) = {}
    /\ Conflicts(live, b.uploads) = {}
    /\ live' = RowsAfter(live, clock, b)
    /\ clock' = ClockAfter(live, clock, b)
    /\ reply' = DoneReply(clock', cursor)

\* A batch that would outgrow the quota is refused whole.
OverQuota == reply' = QuotaReply /\ UNCHANGED <<live, clock>>

Next ==
    \/ Forget \/ OverQuota
    \/ \E cursor \in Cursors : Reset(cursor)
    \/ \E cursor \in Cursors, b \in Batches :
        Show(cursor, b) \/ Refuse(cursor, b) \/ Write(cursor, b)

Spec == Init /\ [][Next]_vars
===============================================================================
