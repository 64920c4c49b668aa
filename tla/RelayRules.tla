------------------------------ MODULE RelayRules ------------------------------
(***************************************************************************)
(* The rules an account's relay answers a sync round by, as operators on   *)
(* the account's live rows: which rows a page holds, which uploads are in  *)
(* conflict, and what a batch of writes makes of the rows.  They are the   *)
(* vocabulary of the abstract store (RecordStore), of the transaction that *)
(* implements it (Relay) and of the devices that talk to it (SyncDevices). *)
(*                                                                         *)
(* A row is the live record of a slot: the slot, the sequence number of    *)
(* its last write and the id of the version it holds.  A ciphertext is     *)
(* abstracted to its size, which is a function of the version's id.        *)
(***************************************************************************)
EXTENDS Integers, Sequences, FiniteSets, FiniteSetsExt

CONSTANTS
    Slots,          \* opaque names of logical records
    Ids,            \* ids of encrypted versions
    NoId,           \* "expected: nothing" (null)
    SlotOf,         \* SlotOf[i]: the record version i is a version of
    Size,           \* Size[i]: ciphertext bytes of version i
    PageRows,       \* rows one page may hold
    PageBytes       \* ciphertext bytes one page may hold

ASSUME NoIdAssumption == NoId \notin Ids
ASSUME VersionAssumption == SlotOf \in [Ids -> Slots] /\ Size \in [Ids -> Nat]
ASSUME PageAssumption == PageRows \in Nat \ {0} /\ PageBytes \in Nat

Row == [slot : Slots, seq : Nat \ {0}, id : Ids]

\* A device draws a fresh random id for every version it encrypts.
Upload ==
    { u \in [slot : Slots, id : Ids, expected : Ids \cup {NoId}, continues : BOOLEAN] :
        u.slot = SlotOf[u.id] }
Deletion == [slot : Slots, id : Ids]

\* A batch as a device forms it: at most one upload per record.
Batch ==
    { b \in [uploads : Seq(Upload), deletions : SUBSET Deletion] :
        \A i, j \in DOMAIN b.uploads : i # j => b.uploads[i].slot # b.uploads[j].slot }

\* Every byte of every row.
BytesIn(rows) == UNION { {r} \X (1 .. Size[r.id]) : r \in rows }
BytesOf(rows) == Cardinality(BytesIn(rows))

\* One row per record, per version and per sequence number.
RowsNumbered(rows) ==
    \A p, q \in rows : p.slot = q.slot \/ p.id = q.id \/ p.seq = q.seq => p = q

\* An account's rows with its last sequence number.
Numbered(rows, clock) == RowsNumbered(rows) /\ \A r \in rows : r.seq <= clock

UpTo(rows, n) == { r \in rows : r.seq <= n }
After(rows, cursor) == { r \in rows : r.seq > cursor }

\* The longest prefix of the rows after the cursor that fits the page; the
\* first row always travels, so that a page makes progress.
Page(rows, cursor) ==
    LET ahead == After(rows, cursor) IN
    { r \in ahead :
        /\ Cardinality(UpTo(ahead, r.seq)) <= PageRows
        /\ \/ UpTo(ahead, r.seq) = {r}
           \/ BytesOf(UpTo(ahead, r.seq)) <= PageBytes }

LastSeq(rows) == Max({ r.seq : r \in rows })

\* The row of an upload's slot conflicts unless it is the upload itself or the
\* version its sender meant to replace.
Conflicts(rows, uploads) ==
    { r \in rows : \E i \in DOMAIN uploads :
        /\ uploads[i].slot = r.slot
        /\ r.id # uploads[i].id
        /\ r.id # uploads[i].expected }

Deleted(rows, deletions) ==
    { r \in rows : [slot |-> r.slot, id |-> r.id] \in deletions }

\* Uploads that write: the others repeat a version that is already live.
FreshUploads(rows, b) ==
    { i \in DOMAIN b.uploads :
        b.uploads[i].id \notin { r.id : r \in rows \ Deleted(rows, b.deletions) } }

\* Mutant of NewRows: a row takes the sequence number before it is advanced.
NewRowsBehind(rows, clock, b) ==
    LET fresh == FreshUploads(rows, b) IN
    { [ slot |-> b.uploads[i].slot,
        id   |-> b.uploads[i].id,
        seq  |-> clock + Cardinality({ j \in fresh : j < i }) ] : i \in fresh }

NewRows(rows, clock, b) ==
    LET fresh == FreshUploads(rows, b) IN
    { [ slot |-> b.uploads[i].slot,
        id   |-> b.uploads[i].id,
        seq  |-> clock + Cardinality({ j \in fresh : j <= i }) ] : i \in fresh }

RowsAfter(rows, clock, b) ==
    LET new == NewRows(rows, clock, b) IN
    { r \in rows \ Deleted(rows, b.deletions) : \A n \in new : n.slot # r.slot } \cup new

ClockAfter(rows, clock, b) == clock + Cardinality(FreshUploads(rows, b))

LargerOf(a, b) == IF a >= b THEN a ELSE b

(***************************************************************************)
(* The answers of a round.  Only "done" may have written; "reset" tells a  *)
(* device whose cursor is ahead of the account to start over.              *)
(***************************************************************************)
Reply(kind, cursor, page, conflicts, hasMore, accepted) ==
    [ kind |-> kind, cursor |-> cursor, page |-> page, conflicts |-> conflicts,
      hasMore |-> hasMore, writesAccepted |-> accepted ]

NoReply == Reply("none", 0, {}, {}, FALSE, FALSE)
QuotaReply == Reply("quota", 0, {}, {}, FALSE, FALSE)
ResetReply == Reply("reset", 0, {}, {}, FALSE, FALSE)

WritesAsked(b) == b.uploads # <<>> \/ b.deletions # {}

PageReply(rows, cursor, b) ==
    LET page == Page(rows, cursor) IN
    Reply("page", LastSeq(page), page, {}, page # After(rows, cursor), ~WritesAsked(b))

ConflictReply(rows, clock, cursor, b) ==
    Reply("conflict", LargerOf(cursor, clock), {}, Conflicts(rows, b.uploads), FALSE, FALSE)

DoneReply(clock, cursor) == Reply("done", LargerOf(cursor, clock), {}, {}, FALSE, TRUE)

\* The answer a round gets from an account that is not over its quota.
Answer(rows, clock, cursor, b) ==
    CASE cursor > clock -> ResetReply
      [] cursor <= clock /\ After(rows, cursor) # {} -> PageReply(rows, cursor, b)
      [] cursor <= clock /\ After(rows, cursor) = {} ->
            IF Conflicts(rows, b.uploads) # {}
            THEN ConflictReply(rows, clock, cursor, b)
            ELSE DoneReply(ClockAfter(rows, clock, b), cursor)
===============================================================================
