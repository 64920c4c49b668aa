--------------------------------- MODULE Relay ---------------------------------
(***************************************************************************)
(* The relay database of one account: SyncStore (syncStore.ts).            *)
(*                                                                         *)
(* A sync round runs in one write transaction.  Its statements are steps   *)
(* here, on a working copy tx of the rows and of the handler's in-memory   *)
(* counters; Commit makes them the account's, Rollback or a crash drops    *)
(* them.  SQLite admits one writer, so every other writer waits for        *)
(* pc = "idle"; readers see the committed rows db.                         *)
(***************************************************************************)
EXTENDS RelayRules

CONSTANTS
    Batches,        \* the batches devices may send
    Cursors,        \* the cursors they may hold
    OldAccounts,    \* accounts of a relay that kept no history yet: rows and clock
    Overhead,       \* bytes charged for a row beyond its ciphertext
    Quotas,         \* byte quotas an operator may set, the default included
    DefaultQuota,
    Windows,        \* lengths of the version window the relay may run with
    MaxClock,       \* bound: sequence numbers given out
    MaxHistory      \* bound: history rows ever written

ASSUME RequestAssumption == Batches \subseteq Batch /\ Cursors \subseteq Nat
ASSUME OldAccountAssumption ==
    \A old \in OldAccounts :
        /\ old.rows \subseteq Row /\ IsFiniteSet(old.rows)
        /\ old.clock \in Nat /\ Numbered(old.rows, old.clock)
        /\ \A r \in old.rows : r.slot = SlotOf[r.id]
ASSUME QuotaAssumption == Overhead \in Nat /\ Quotas \subseteq Nat /\ DefaultQuota \in Quotas
ASSUME WindowAssumption == Windows \subseteq Nat \ {0} /\ Windows # {}
ASSUME BoundAssumption == MaxClock \in Nat /\ MaxHistory \in Nat

VARIABLES
    db,             \* the account's committed rows
    usage,          \* the counters committed with them
    window,         \* historyVersions of the running process
    pc,             \* where the round in the write transaction stands
    req,            \* the round being served
    tx,             \* its rows, not yet committed
    tally,          \* its counters, in the handler's memory
    reply           \* the answer to the last round

vars == <<db, usage, window, pc, req, tx, tally, reply>>

HistoryRow == [hid : Nat \ {0}, slot : Slots, id : Ids]

Counters(count, bytes, versions, versionBytes) ==
    [count |-> count, bytes |-> bytes, versions |-> versions, versionBytes |-> versionBytes]

NoUsage == Counters(0, 0, 0, 0)

NoRound == [cursor |-> 0, batch |-> [uploads |-> <<>>, deletions |-> {}]]

NoTx ==
    [ envelopes |-> {}, history |-> {}, lastHid |-> 0, seq |-> 0, known |-> {}, older |-> {},
      deletions |-> {}, uploads |-> <<>> ]

\* No account, or one as an upgrade finds it.
Init ==
    /\ \E old \in OldAccounts :
        /\ db = [ exists |-> old.rows # {}, retired |-> FALSE, quota |-> DefaultQuota,
                  nextSeq |-> old.clock, envelopes |-> old.rows, history |-> {}, lastHid |-> 0 ]
        /\ usage = Counters(Cardinality(old.rows), BytesOf(old.rows), 0, 0)
    /\ window \in Windows
    /\ pc = "idle" /\ req = NoRound /\ tx = NoTx /\ tally = NoUsage
    /\ reply = NoReply

-----------------------------------------------------------------------------
\* History rows counted in the quota: versions of a live record but not its live copy.
OlderVersions(envelopes, history) ==
    { h \in history : \E e \in envelopes : e.slot = h.slot /\ e.id # h.id }

StorageBytes(count, bytes) == bytes + count * Overhead

\* Mutant of TouchedSlots: the records a batch deletes are forgotten.
UploadedSlots(batch) == { batch.uploads[i].slot : i \in DOMAIN batch.uploads }

TouchedSlots(batch) ==
    { batch.uploads[i].slot : i \in DOMAIN batch.uploads } \cup { d.slot : d \in batch.deletions }

OfSlots(history, slots) == { h \in history : h.slot \in slots }

NewerVersions(history, h) == { g \in history : g.slot = h.slot /\ g.hid > h.hid }

\* Mutant of WindowOf: the window orders a record's versions the wrong way round.
WindowOfOldest(history, slots, n) ==
    { h \in history : h.slot \in slots =>
        Cardinality(OfSlots(history, {h.slot}) \ NewerVersions(history, h)) <= n }

\* Mutant of WindowOf: one version too many stays.
WindowOfOneMore(history, slots, n) ==
    { h \in history : h.slot \in slots => Cardinality(NewerVersions(history, h)) <= n }

\* The newest n versions of the given slots, and every version of the others.
WindowOf(history, slots, n) ==
    { h \in history : h.slot \in slots => Cardinality(NewerVersions(history, h)) < n }

LiveBytes(u) == StorageBytes(u.count, u.bytes)
PastBytes(u) == StorageBytes(u.versions, u.versionBytes)

-----------------------------------------------------------------------------
(* Account rows.                                                            *)

Idle == pc = "idle"

round == <<pc, req, tx, tally, reply>>

CreateAccount ==
    /\ Idle /\ ~db.exists /\ ~db.retired
    /\ db' = [db EXCEPT !.exists = TRUE]
    /\ UNCHANGED <<usage, window, round>>

RetireAccount ==
    /\ Idle /\ ~db.retired
    /\ db' = [db EXCEPT !.retired = TRUE]
    /\ UNCHANGED <<usage, window, round>>

\* deleteAccount, or the retention sweep: every table follows by ON DELETE CASCADE.
DropAccount ==
    /\ Idle /\ db.exists
    /\ db' = [db EXCEPT !.exists = FALSE, !.quota = DefaultQuota, !.nextSeq = 0,
                        !.envelopes = {}, !.history = {}]
    /\ usage' = NoUsage
    /\ reply' = NoReply
    /\ UNCHANGED <<window, pc, req, tx, tally>>

SetAccountByteQuota(maxBytes) ==
    /\ Idle /\ db.exists
    /\ db' = [db EXCEPT !.quota = maxBytes]
    /\ UNCHANGED <<usage, window, round>>

\* The daily upkeep: the window everywhere, and the usage counted anew.
ReclaimStorage ==
    LET kept == WindowOf(db.history, Slots, window)
        older == OlderVersions(db.envelopes, kept) IN
    /\ Idle /\ db.exists
    /\ db' = [db EXCEPT !.history = kept]
    /\ usage' = Counters(usage.count, usage.bytes, Cardinality(older), BytesOf(older))
    /\ UNCHANGED <<window, round>>

-----------------------------------------------------------------------------
(* Rounds that write nothing.                                               *)

AnswerReset(cursor) ==
    /\ Idle /\ db.exists
    /\ cursor > db.nextSeq
    /\ reply' = ResetReply
    /\ UNCHANGED <<db, usage, window, pc, req, tx, tally>>

AnswerPage(cursor, batch) ==
    /\ Idle /\ db.exists
    /\ cursor <= db.nextSeq
    /\ After(db.envelopes, cursor) # {}
    /\ reply' = PageReply(db.envelopes, cursor, batch)
    /\ UNCHANGED <<db, usage, window, pc, req, tx, tally>>

AnswerConflict(cursor, batch) ==
    /\ Idle /\ db.exists
    /\ cursor <= db.nextSeq
    /\ After(db.envelopes, cursor) = {}
    /\ Conflicts(db.envelopes, batch.uploads) # {}
    /\ reply' = ConflictReply(db.envelopes, db.nextSeq, cursor, batch)
    /\ UNCHANGED <<db, usage, window, pc, req, tx, tally>>

-----------------------------------------------------------------------------
(* The writing round.                                                       *)

BeginWrites(cursor, batch) ==
    LET uploaded == { batch.uploads[i].id : i \in DOMAIN batch.uploads } IN
    /\ Idle /\ db.exists
    /\ cursor <= db.nextSeq
    /\ After(db.envelopes, cursor) = {}
    /\ Conflicts(db.envelopes, batch.uploads) = {}
    /\ db.nextSeq + Len(batch.uploads) <= MaxClock
    /\ db.lastHid + 2 * Len(batch.uploads) <= MaxHistory
    /\ pc' = "delete"
    /\ req' = [cursor |-> cursor, batch |-> batch]
    /\ tx' = [ envelopes |-> db.envelopes, history |-> db.history, lastHid |-> db.lastHid,
               seq |-> db.nextSeq,
               known |-> uploaded \cap { e.id : e \in db.envelopes },
               older |-> OfSlots(OlderVersions(db.envelopes, db.history), TouchedSlots(batch)),
               deletions |-> batch.deletions, uploads |-> batch.uploads ]
    /\ tally' = usage
    /\ UNCHANGED <<db, usage, window, reply>>

\* Mutant of SkipDeletion: a deletion that finds nothing is counted all the same.
CountSkippedDeletion(d) ==
    /\ pc = "delete" /\ Deleted(tx.envelopes, {d}) = {}
    /\ tx' = [tx EXCEPT !.deletions = @ \ {d}]
    /\ tally' = Counters(tally.count - 1, tally.bytes, tally.versions, tally.versionBytes)
    /\ UNCHANGED <<db, usage, window, pc, req, reply>>

\* A deletion that no longer names the live version is passed over.
SkipDeletion(d) ==
    /\ pc = "delete" /\ Deleted(tx.envelopes, {d}) = {}
    /\ tx' = [tx EXCEPT !.deletions = @ \ {d}]
    /\ UNCHANGED <<db, usage, window, pc, req, tally, reply>>

\* Mutant of VersionsOfOthers: only the version the deletion names goes.
VersionsNotNamed(d) == { h \in tx.history : h.id # d.id }

VersionsOfOthers(d) == { h \in tx.history : h.slot # d.slot }

\* Mutant of ApplyDeletion: the deleted id stays known, so uploading it anew writes nothing.
ForgetfulDeletion(d) ==
    /\ pc = "delete" /\ Deleted(tx.envelopes, {d}) # {}
    /\ tx' = [tx EXCEPT !.deletions = @ \ {d},
                        !.history = VersionsOfOthers(d),
                        !.envelopes = @ \ Deleted(@, {d})]
    /\ tally' = Counters(tally.count - 1, tally.bytes - Size[d.id],
                         tally.versions, tally.versionBytes)
    /\ UNCHANGED <<db, usage, window, pc, req, reply>>

\* The others take the record and all its versions.
ApplyDeletion(d) ==
    /\ pc = "delete" /\ Deleted(tx.envelopes, {d}) # {}
    /\ tx' = [tx EXCEPT !.deletions = @ \ {d},
                        !.history = VersionsOfOthers(d),
                        !.envelopes = @ \ Deleted(@, {d}),
                        !.known = @ \ {d.id}]
    /\ tally' = Counters(tally.count - 1, tally.bytes - Size[d.id],
                         tally.versions, tally.versionBytes)
    /\ UNCHANGED <<db, usage, window, pc, req, reply>>

DeletionsDone ==
    /\ pc = "delete" /\ tx.deletions = {}
    /\ pc' = "upload"
    /\ UNCHANGED <<db, usage, window, req, tx, tally, reply>>

\* Mutant of Prior: the row an upload replaces is looked up by the upload's own id.
PriorById(u) == { e \in tx.envelopes : e.id = u.id }

Prior(u) == OfSlots(tx.envelopes, {u.slot})

CountWith(u) == IF Prior(u) = {} THEN tally.count + 1 ELSE tally.count

\* Mutant of BytesWith: the replaced ciphertext is still counted.
BytesWithBoth(u) == tally.bytes + Size[u.id]

BytesWith(u) == tally.bytes + Size[u.id] - BytesOf(Prior(u))

\* Growing past the quota is refused; shrinking is not, even from above it.
OutgrowsQuota(u) ==
    /\ StorageBytes(CountWith(u), BytesWith(u)) > db.quota
    /\ StorageBytes(CountWith(u), BytesWith(u)) >= StorageBytes(tally.count, tally.bytes)

\* A live copy that a relay without history wrote is saved when it is replaced.
Unsaved(u) == { p \in Prior(u) : \A h \in tx.history : h.id # p.id }

\* A continued version is replaced in the history, any other stays there.
HistoryBefore(u) ==
    IF u.continues
    THEN { h \in tx.history : \A p \in Prior(u) : h.id # p.id }
    ELSE tx.history \cup
         { [hid |-> tx.lastHid + 1, slot |-> p.slot, id |-> p.id] : p \in Unsaved(u) }

SkipUpload ==
    /\ pc = "upload" /\ tx.uploads # <<>>
    /\ Head(tx.uploads).id \in tx.known
    /\ tx' = [tx EXCEPT !.uploads = Tail(@)]
    /\ UNCHANGED <<db, usage, window, pc, req, tally, reply>>

\* Only the order of history ids matters: two are set aside for each upload.
ApplyUpload ==
    LET u == Head(tx.uploads)
        hid == tx.lastHid + 2 IN
    /\ pc = "upload" /\ tx.uploads # <<>>
    /\ u.id \notin tx.known
    /\ ~OutgrowsQuota(u)
    /\ tx' = [tx EXCEPT
                !.uploads = Tail(@),
                !.seq = @ + 1,
                !.envelopes = (@ \ Prior(u)) \cup {[slot |-> u.slot, seq |-> tx.seq + 1, id |-> u.id]},
                !.history = HistoryBefore(u) \cup {[hid |-> hid, slot |-> u.slot, id |-> u.id]},
                !.lastHid = hid,
                !.known = (@ \ { p.id : p \in Prior(u) }) \cup {u.id}]
    /\ tally' = Counters(CountWith(u), BytesWith(u), tally.versions, tally.versionBytes)
    /\ UNCHANGED <<db, usage, window, pc, req, reply>>

EndRound == pc' = "idle" /\ tx' = NoTx /\ req' = NoRound /\ tally' = NoUsage

\* The quota error rolls the whole transaction back.
RefuseOverQuota ==
    /\ pc = "upload" /\ tx.uploads # <<>>
    /\ Head(tx.uploads).id \notin tx.known
    /\ OutgrowsQuota(Head(tx.uploads))
    /\ EndRound
    /\ reply' = QuotaReply
    /\ UNCHANGED <<db, usage, window>>

\* The window on the touched records, then the usage by what changed in them.
SettleHistory ==
    LET slots == TouchedSlots(req.batch)
        kept == WindowOf(tx.history, slots, window)
        older == OfSlots(OlderVersions(tx.envelopes, kept), slots) IN
    /\ pc = "upload" /\ tx.uploads = <<>>
    /\ pc' = "evict"
    /\ tx' = [tx EXCEPT !.history = kept]
    /\ tally' = Counters(tally.count, tally.bytes,
                         tally.versions + Cardinality(older) - Cardinality(tx.older),
                         tally.versionBytes + BytesOf(older) - BytesOf(tx.older))
    /\ UNCHANGED <<db, usage, window, req, reply>>

\* Mutant of OverBudget: older versions are left out of what the account stores.
LiveOverBudget == LiveBytes(tally) > db.quota /\ tally.versions > 0

OverBudget ==
    /\ LiveBytes(tally) + PastBytes(tally) > db.quota
    /\ tally.versions > 0

Oldest(rows) == { h \in rows : \A g \in rows : h.hid <= g.hid }

\* Older versions give way to live records, the account's oldest first.
EvictVersion ==
    LET gone == Oldest(OlderVersions(tx.envelopes, tx.history)) IN
    /\ pc = "evict" /\ OverBudget /\ gone # {}
    /\ tx' = [tx EXCEPT !.history = @ \ gone]
    /\ tally' = Counters(tally.count, tally.bytes,
                         tally.versions - 1, tally.versionBytes - BytesOf(gone))
    /\ UNCHANGED <<db, usage, window, pc, req, reply>>

\* Mutant of Commit: the answer carries the cursor read before the writes.
CommitOldCursor ==
    /\ pc = "evict"
    /\ ~OverBudget \/ OlderVersions(tx.envelopes, tx.history) = {}
    /\ db' = [db EXCEPT !.lastHid = tx.lastHid, !.nextSeq = tx.seq,
                        !.envelopes = tx.envelopes, !.history = tx.history]
    /\ usage' = tally
    /\ reply' = DoneReply(db.nextSeq, req.cursor)
    /\ EndRound
    /\ UNCHANGED window

Commit ==
    /\ pc = "evict"
    /\ ~OverBudget \/ OlderVersions(tx.envelopes, tx.history) = {}
    /\ db' = [db EXCEPT !.lastHid = tx.lastHid, !.nextSeq = tx.seq,
                        !.envelopes = tx.envelopes, !.history = tx.history]
    /\ usage' = tally
    /\ reply' = DoneReply(tx.seq, req.cursor)
    /\ EndRound
    /\ UNCHANGED window

\* A failed statement, a lost connection or a crash: nothing of the round stays.
Rollback ==
    /\ ~Idle
    /\ EndRound
    /\ UNCHANGED <<db, usage, window, reply>>

\* A restart may come with another SCRAPSCACHE_HISTORY_VERSIONS.
Restart(versions) ==
    /\ window' = versions
    /\ EndRound
    /\ UNCHANGED <<db, usage, reply>>

-----------------------------------------------------------------------------
Next ==
    \/ CreateAccount \/ RetireAccount \/ DropAccount \/ ReclaimStorage
    \/ \E maxBytes \in Quotas : SetAccountByteQuota(maxBytes)
    \/ \E cursor \in Cursors :
        \/ AnswerReset(cursor)
        \/ \E batch \in Batches :
            \/ AnswerPage(cursor, batch)
            \/ AnswerConflict(cursor, batch)
            \/ BeginWrites(cursor, batch)
    \/ \E d \in tx.deletions : SkipDeletion(d) \/ ApplyDeletion(d)
    \/ DeletionsDone \/ SkipUpload \/ ApplyUpload \/ RefuseOverQuota
    \/ SettleHistory \/ EvictVersion \/ Commit \/ Rollback
    \/ \E versions \in Windows : Restart(versions)

Spec == Init /\ [][Next]_vars

-----------------------------------------------------------------------------
(* Properties.                                                              *)

\* Every variable holds a value of its kind.  The sums of bytes are left to
\* BytesMatchRows and the cursor of a reply to Implements.
TypeOK ==
    /\ db \in [ exists : BOOLEAN, retired : BOOLEAN, quota : Quotas, nextSeq : Nat,
                envelopes : SUBSET Row, history : SUBSET HistoryRow, lastHid : Nat ]
    /\ usage.count \in Nat /\ usage.versions \in Nat
    /\ window \in Windows
    /\ pc \in {"idle", "delete", "upload", "evict"}
    /\ req \in [cursor : Nat, batch : Batch]
    /\ tx \in [ envelopes : SUBSET Row, history : SUBSET HistoryRow, lastHid : Nat, seq : Nat,
                known : SUBSET Ids, older : SUBSET HistoryRow, deletions : SUBSET Deletion,
                uploads : Seq(Upload) ]
    /\ tally.count \in Nat /\ tally.versions \in Int
    /\ reply.kind \in {"none", "reset", "quota", "page", "conflict", "done"}

\* The committed rows of an account are one per record and one per version,
\* and a sequence number is given out once and never above next_seq: a cursor
\* splits the rows into those a device has seen and those it has not.
RecordsNumbered == Numbered(db.envelopes, db.nextSeq)

\* The counters quota decisions are made from are kept by adding differences
\* in memory; after every round they are what counting the rows would give.
CountsMatchRows ==
    /\ usage.count = Cardinality(db.envelopes)
    /\ usage.versions = Cardinality(OlderVersions(db.envelopes, db.history))

\* And so are the byte sums that go with them.
BytesMatchRows ==
    /\ usage.bytes = BytesOf(db.envelopes)
    /\ usage.versionBytes = BytesOf(OlderVersions(db.envelopes, db.history))

LiveIsNewest(envelopes, history) ==
    \A e \in envelopes :
        LET own == OfSlots(history, {e.slot}) IN
        own # {} => \E h \in own : h.id = e.id /\ NewerVersions(own, h) = {}

\* Neither the window nor an eviction ever takes a record's live copy from its
\* history: a record with a history has its live version as the newest one.
LiveCopyIsNewest == LiveIsNewest(db.envelopes, db.history)

NoneLeftBehind(envelopes, history) ==
    \A h \in history : \E e \in envelopes : e.slot = h.slot

\* Deleting a record removes every version of it: no ciphertext of a deleted
\* record stays behind in the history, whichever way it got there.
DeletedLeavesNothing == NoneLeftBehind(db.envelopes, db.history)

Wrote == db'.nextSeq > db.nextSeq

WindowKept ==
    \A s \in Slots :
        LET before == OfSlots(db.history, {s})
            after == OfSlots(db'.history, {s}) IN
        IF s \in TouchedSlots(req.batch)
        THEN Cardinality(after) <= window
        ELSE \/ after = before
             \/ \E i \in Ids :
                    LiveBytes(usage') + PastBytes(usage') + Overhead + Size[i] > db.quota

QuotaKept ==
    /\ LiveBytes(usage') <= LargerOf(db.quota, LiveBytes(usage))
    /\ \/ LiveBytes(usage') + PastBytes(usage') <= db.quota
       \/ OlderVersions(db'.envelopes, db'.history) = {}

\* A round that writes leaves each record it touched within the window, and one
\* record's saves never evict another's: that takes the quota, and a round that
\* leaves room for any one version more has evicted none.  It never grows the live
\* records past the quota, and ends with the older versions inside what the
\* live records leave of it, or with none.
HistoryBounded == [][Wrote => WindowKept /\ QuotaKept]_vars

\* A history orders the versions of a record by the time they were saved.
SoundHistory(history, lastHid) ==
    /\ \A g, h \in history : g.hid = h.hid => g = h
    /\ \A h \in history : h.hid <= lastHid /\ h.slot = SlotOf[h.id]

\* What the rows of an account satisfy between any two statements of a round.
SoundRows(envelopes, history, clock, lastHid) ==
    /\ Numbered(envelopes, clock)
    /\ \A e \in envelopes : e.slot = SlotOf[e.id]
    /\ SoundHistory(history, lastHid)
    /\ IsFiniteSet(envelopes) /\ IsFiniteSet(history)
    /\ LiveIsNewest(envelopes, history)
    /\ NoneLeftBehind(envelopes, history)

\* An upload still to come that repeats a live version is known to.
KnownRepeats ==
    \A i \in DOMAIN tx.uploads, e \in tx.envelopes :
        tx.uploads[i].id = e.id => e.id \in tx.known

\* A round leaves the records it does not touch alone.
OthersUntouched ==
    LET slots == TouchedSlots(req.batch) IN
    /\ \A s \in Slots \ slots : OfSlots(tx.envelopes, {s}) = OfSlots(db.envelopes, {s})
    /\ \A s \in Slots \ slots : OfSlots(tx.history, {s}) = OfSlots(db.history, {s})
    /\ \A i \in DOMAIN tx.uploads : tx.uploads[i].slot \in slots
    /\ \A d \in tx.deletions : d.slot \in slots

\* A round in progress keeps the account's rows sound on its working copy, and
\* its counters exact but for the versions, which SettleHistory brings up to date.
RoundInv ==
    /\ SoundRows(db.envelopes, db.history, db.nextSeq, db.lastHid)
    /\ CountsMatchRows
    /\ ~Idle =>
        /\ SoundRows(tx.envelopes, tx.history, tx.seq, tx.lastHid)
        /\ tally.count = Cardinality(tx.envelopes)
        /\ KnownRepeats
        /\ pc \in {"delete", "upload"} =>
            /\ tally.versions = usage.versions
            /\ tx.older = OfSlots(OlderVersions(db.envelopes, db.history), TouchedSlots(req.batch))
            /\ OthersUntouched
        /\ pc = "evict" =>
            tally.versions = Cardinality(OlderVersions(tx.envelopes, tx.history))

\* The sums of bytes are as exact as the counts.
BytesInv ==
    /\ BytesMatchRows
    /\ ~Idle =>
        /\ tally.bytes = BytesOf(tx.envelopes)
        /\ tally.versionBytes =
             IF pc = "evict" THEN BytesOf(OlderVersions(tx.envelopes, tx.history))
             ELSE usage.versionBytes

\* A round in progress stays within the quota, or shrinks; once it has settled
\* the history, the touched records are within the window, and the versions of
\* others have gone only while one of some size was too many.
RoomInv ==
    ~Idle =>
        /\ LiveBytes(tally) <= LargerOf(db.quota, LiveBytes(usage))
        /\ pc = "evict" =>
            \A s \in Slots :
                IF s \in TouchedSlots(req.batch)
                THEN Cardinality(OfSlots(tx.history, {s})) <= window
                ELSE \/ OfSlots(tx.history, {s}) = OfSlots(db.history, {s})
                     \/ \E i \in Ids :
                            LiveBytes(tally) + PastBytes(tally) + Overhead + Size[i] > db.quota

\* The transaction implements the store that answers in one step: what a round
\* shows and what it replaces is what one moment of the account allowed.
Store == INSTANCE RecordStore WITH live <- db.envelopes, clock <- db.nextSeq
Implements == Store!Spec

\* And the moment is the round's own: what commits after all the statements is
\* what the abstract store makes in one step of the very request that began.
DoneAsAsked == [][Commit => Store!Write(req.cursor, req.batch)]_vars
===============================================================================
