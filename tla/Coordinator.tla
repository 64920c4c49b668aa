------------------------------ MODULE Coordinator ------------------------------
(***************************************************************************)
(* The relay of one account on Workers.  Its rows are in D1 and its        *)
(* ciphertexts in R2, under a key that the rows name, and no transaction   *)
(* spans the two.  The account's Durable Object (AccountCoordinator)       *)
(* serves one mutating round or deletion at a time; a round commits in one *)
(* D1 batch and cleans up after it in many steps.  The daily upkeep        *)
(* (SyncStore.reclaimStorage) runs elsewhere, beside the rounds.  Either   *)
(* may be cut short between any two steps.                                 *)
(*                                                                         *)
(* p is a round or the sweep: both clean up with the same procedures.      *)
(* A download, and a round that is refused or has nothing to change, only  *)
(* read: they are no steps.                                                *)
(***************************************************************************)
EXTENDS RelayRules

CONSTANTS
    Rounds,         \* mutating requests the object is given at a time
    Sweep,          \* the daily upkeep
    Batches,        \* the batches devices may send
    Overhead,       \* bytes charged for a row beyond its ciphertext
    Quota,          \* bytes the account may use
    Window,         \* versions a record keeps
    MaxClock,       \* bound: sequence numbers given out
    MaxKeys,        \* bound: objects ever written
    MaxCrashes      \* bound: rounds and sweeps cut short

\* A device draws a new id for every version: it never uploads one that it deletes.
ASSUME BatchAssumption ==
    \A b \in Batches : b \in Batch
        /\ \A i \in DOMAIN b.uploads : b.uploads[i].id \notin { d.id : d \in b.deletions }
ASSUME ProcessAssumption == Sweep \notin Rounds
ASSUME CountAssumption == {Overhead, Quota} \subseteq Nat /\ Window \in Nat \ {0}

VARIABLES
    account,        \* the accounts row: exists, nextSeq, count and bytes
    usage,          \* account_history_usage: versions and bytes
    live,           \* envelopes
    history,        \* envelope_history
    staged,         \* deleted_envelopes
    pending,        \* pending_envelopes
    objects,        \* R2: the keys that hold an object
    lastHid, lastKey,
    pc,             \* where the round and the sweep stand
    round,          \* what each round keeps in memory,
    hand,           \* and what each is about to delete
    crashes,
    cut,            \* ghost: an account deletion died between objects and rows
    exact,          \* ghost: nothing has disturbed the usage since it was counted
    calm            \* ghost: nothing was cut short, and no sweep met a round

tables == <<account, usage, live, history, staged, pending, lastHid>>
ghosts == <<cut, exact, calm>>
vars == <<tables, objects, lastKey, pc, round, hand, crashes, ghosts>>

Processes == Rounds \cup {Sweep}
Nothing == [hids |-> {}, keys |-> {}, rows |-> {}, then |-> "idle"]
NoUsage == [versions |-> 0, bytes |-> 0]
NoAccount == [exists |-> FALSE, nextSeq |-> 0, count |-> 0, bytes |-> 0]
NoRound ==
    [batch |-> [uploads |-> <<>>, deletions |-> {}], removed |-> {}, new |-> {}, account |-> NoAccount,
     continued |-> {}, seen |-> NoUsage, before |-> NoUsage, now |-> NoUsage]

Init ==
    /\ account = NoAccount /\ usage = NoUsage
    /\ live = {} /\ history = {} /\ staged = {} /\ pending = {} /\ objects = {}
    /\ lastHid = 0 /\ lastKey = 0
    /\ pc = [p \in Processes |-> "idle"] /\ hand = [p \in Processes |-> Nothing]
    /\ round = [r \in Rounds |-> NoRound] /\ crashes = 0
    /\ cut = FALSE /\ exact = TRUE /\ calm = TRUE

-----------------------------------------------------------------------------
Bare(rows) == { [slot |-> r.slot, seq |-> r.seq, id |-> r.id] : r \in rows }
KeysOf(rows) == { r.key : r \in rows }
SlotsOf(rows) == { r.slot : r \in rows }

\* Versions counted in the quota: those of a live record that are not its live copy.
OlderVersions(versions) == { h \in versions : \E l \in live : l.slot = h.slot /\ l.id # h.id }

Counted(versions) ==
    LET older == OlderVersions(versions)
    IN  [versions |-> Cardinality(older), bytes |-> BytesOf(older)]

OfSlots(slots) == { h \in history : h.slot \in slots }

\* Mutant of TouchedSlots: the records a batch deletes are not looked at.
UploadedSlots(b) == { b.uploads[i].slot : i \in DOMAIN b.uploads }

\* The records a batch asks for: those of every upload, also of one that is held already.
TouchedSlots(b) == { b.uploads[i].slot : i \in DOMAIN b.uploads } \cup SlotsOf(b.deletions)

\* The records a round goes on with once it has dropped the uploads that are held.
WrittenSlots(new, b) == SlotsOf(new) \cup SlotsOf(b.deletions)

\* Versions beyond the newest n of their record.
Beyond(versions, n) ==
    { h \in versions : Cardinality({ g \in versions : g.slot = h.slot /\ g.hid > h.hid }) >= n }

Past(u) == u.bytes + u.versions * Overhead

\* Bytes in use once the deletions and the first i uploads are in effect.
StorageAfter(b, i) ==
    LET first == [b EXCEPT !.uploads = SubSeq(@, 1, i)]
        rows == RowsAfter(Bare(live), account.nextSeq, first)
    IN  account.bytes + BytesOf(rows) - BytesOf(live)
        + Overhead * (account.count + Cardinality(rows) - Cardinality(live))

Refused(b) ==
    \E i \in FreshUploads(Bare(live), b) :
        StorageAfter(b, i) > Quota /\ StorageAfter(b, i) >= StorageAfter(b, i - 1)

At(p, step) == pc[p] = step
Go(p, step) == pc' = [pc EXCEPT ![p] = step]
Hold(p, held) == hand' = [hand EXCEPT ![p] = held]

-----------------------------------------------------------------------------
(* Cleaning up versions: objects first, rows second.                       *)

\* Start on some history rows, and go on with next.
CleanUp(p, hids, next) ==
    /\ Hold(p, [Nothing EXCEPT !.hids = hids, !.then = next])
    /\ Go(p, IF hids = {} THEN next ELSE "find")

\* Mutant of Unreferenced: a key is spared for the very rows that go.
UnreferencedAnywhere(hids) ==
    { h.key : h \in { g \in history : g.hid \in hids } }
        \ (KeysOf(live) \cup KeysOf(staged) \cup KeysOf(history))

\* The keys that no other row names.
Unreferenced(hids) ==
    { h.key : h \in { g \in history : g.hid \in hids } }
        \ (KeysOf(live) \cup KeysOf(staged) \cup KeysOf({ h \in history : h.hid \notin hids }))

FindUnreferenced(p) ==
    /\ At(p, "find")
    /\ Hold(p, [hand[p] EXCEPT !.keys = Unreferenced(hand[p].hids)])
    /\ Go(p, "objects")
    /\ UNCHANGED <<tables, objects, lastKey, round, crashes, ghosts>>

DeleteObjects(p) ==
    /\ At(p, "objects")
    /\ objects' = objects \ hand[p].keys
    /\ Go(p, "rows")
    /\ UNCHANGED <<tables, lastKey, round, hand, crashes, ghosts>>

DeleteRows(p) ==
    /\ At(p, "rows")
    /\ history' = { h \in history : h.hid \notin hand[p].hids }
    /\ Hold(p, Nothing)
    /\ Go(p, hand[p].then)
    /\ UNCHANGED <<account, usage, live, staged, pending, lastHid, objects, lastKey, round, crashes, ghosts>>

\* purgeDeletedRecords: the round purges what it deleted, the sweep everything.
Scope(p) ==
    IF p = Sweep THEN staged ELSE { s \in staged : s.slot \in SlotsOf(round[p].removed) }

PurgeVersions(p) ==
    /\ At(p, "purge")
    /\ CleanUp(p, { h.hid : h \in OfSlots(SlotsOf(Scope(p)) \ SlotsOf(live)) }, "staged")
    /\ UNCHANGED <<tables, objects, lastKey, round, crashes, ghosts>>

\* A record written again may still hold the old object among its versions.
ReadStaged(p) ==
    /\ At(p, "staged")
    /\ Hold(p, [Nothing EXCEPT !.rows = Scope(p),
                               !.keys = KeysOf(Scope(p)) \ (KeysOf(live) \cup KeysOf(history))])
    /\ Go(p, "erase")
    /\ UNCHANGED <<tables, objects, lastKey, round, crashes, ghosts>>

EraseStaged(p) ==
    /\ At(p, "erase")
    /\ objects' = objects \ hand[p].keys
    /\ Go(p, "unstage")
    /\ UNCHANGED <<tables, lastKey, round, hand, crashes, ghosts>>

Unstage(p) ==
    /\ At(p, "unstage")
    /\ staged' = staged \ hand[p].rows
    /\ Hold(p, Nothing)
    /\ Go(p, IF p = Sweep THEN "window" ELSE "prune")
    /\ UNCHANGED <<account, usage, live, history, pending, lastHid, objects, lastKey, round, crashes, ghosts>>

Cleaning(p) ==
    \/ FindUnreferenced(p) \/ DeleteObjects(p) \/ DeleteRows(p)
    \/ PurgeVersions(p) \/ ReadStaged(p) \/ EraseStaged(p) \/ Unstage(p)

-----------------------------------------------------------------------------
(* A round.                                                                *)

Idle == \A r \in Rounds : At(r, "idle")

\* Mutant of LockFree: rounds start from the same account and write back both.
NoLock(r) == At(r, "idle")

\* The write lock: mutating rounds and deletions line up.
LockFree(r) == Idle

CreateAccount ==
    /\ Idle /\ ~account.exists
    /\ account' = [NoAccount EXCEPT !.exists = TRUE]
    /\ UNCHANGED <<usage, live, history, staged, pending, lastHid, objects, lastKey, pc, round, hand,
                   crashes, ghosts>>

\* The steps of a sweep that change versions and count them.
SweepCounts == pc[Sweep] \notin {"idle", "abandoned", "release", "reclaim"}

\* The rows that the uploads write, each under a key of its own.
NewEnvelopes(b) ==
    { [slot |-> n.slot, seq |-> n.seq, id |-> n.id, key |-> lastKey + n.seq - account.nextSeq] :
        n \in NewRows(Bare(live), account.nextSeq, b) }

\* The round will write.  It reads the account, decides on all it will write, and finds
\* what earlier attempts at the same versions reserved.  The older versions it counts here
\* are those of every upload's record, and later only those of the records it writes: the
\* versions of an upload that is held are counted out, and not in again.
Begin(r, b) ==
    LET new == NewEnvelopes(b)
        removed == { l \in live : [slot |-> l.slot, id |-> l.id] \in b.deletions }
        rows == RowsAfter(Bare(live), account.nextSeq, b)
        replaced == { l \in live \ removed : \E i \in DOMAIN b.uploads :
                        /\ b.uploads[i].slot = l.slot /\ b.uploads[i].continues
                        /\ b.uploads[i].id \in { n.id : n \in new } }
    IN
    /\ LockFree(r) /\ account.exists /\ new \cup removed # {}
    /\ Conflicts(Bare(live), b.uploads) = {} /\ ~Refused(b)
    /\ account.nextSeq + Cardinality(new) <= MaxClock /\ lastKey + Cardinality(new) <= MaxKeys
    /\ lastKey' = lastKey + Cardinality(new)
    /\ round' = [round EXCEPT ![r] =
            [NoRound EXCEPT
                !.batch = b, !.new = new, !.removed = removed,
                !.account = [account EXCEPT
                    !.nextSeq = account.nextSeq + Cardinality(new),
                    !.count = account.count + Cardinality(rows) - Cardinality(live),
                    !.bytes = account.bytes + BytesOf(rows) - BytesOf(live)],
                !.continued = { l.id : l \in replaced },
                !.seen = usage, !.before = Counted(OfSlots(TouchedSlots(b)))]]
    /\ Hold(r, [Nothing EXCEPT !.keys = KeysOf({ p \in pending : \E n \in new : n.id = p.id })])
    /\ Go(r, IF new = {} THEN "commit" ELSE "supersede")
    /\ exact' = (exact /\ ~SweepCounts
                 /\ OlderVersions(OfSlots(TouchedSlots(b) \ WrittenSlots(new, b))) = {})
    /\ calm' = (calm /\ At(Sweep, "idle"))
    /\ UNCHANGED <<tables, objects, crashes, cut>>

DropSuperseded(r) ==
    /\ At(r, "supersede")
    /\ objects' = objects \ hand[r].keys
    /\ Hold(r, Nothing)
    /\ Go(r, "reserve")
    /\ UNCHANGED <<tables, lastKey, round, crashes, ghosts>>

Reserve(r) ==
    LET new == round[r].new IN
    /\ At(r, "reserve")
    /\ pending' = { p \in pending : \A n \in new : n.id # p.id }
                  \cup { [id |-> n.id, key |-> n.key] : n \in new }
    /\ Go(r, "put")
    /\ UNCHANGED <<account, usage, live, history, staged, lastHid, objects, lastKey, round, hand,
                   crashes, ghosts>>

\* The objects are written at once, in any order.
PutObject(r) ==
    LET keys == KeysOf(round[r].new) IN
    /\ At(r, "put")
    /\ \E k \in keys \ objects :
        /\ objects' = objects \cup {k}
        /\ Go(r, IF keys \subseteq objects' THEN "commit" ELSE "put")
    /\ UNCHANGED <<tables, lastKey, round, hand, crashes, ghosts>>

\* Versions are numbered in the order of the batch.  A replaced copy that has no version
\* yet is saved before the new one.
Rank(new, n) == Cardinality({ m \in new : m.seq <= n.seq })

Version(hid, x) == [hid |-> hid, slot |-> x.slot, id |-> x.id, key |-> x.key]

Unsaved(n, prior) ==
    { l \in prior : l.slot = n.slot /\ l.id \notin { h.id : h \in history } }

Versions(new, prior) ==
    UNION { {Version(lastHid + 2 * Rank(new, n), n)}
            \cup { Version(lastHid + 2 * Rank(new, n) - 1, l) : l \in Unsaved(n, prior) } : n \in new }

StagedCopies(removed) == { [slot |-> d.slot, id |-> d.id, key |-> d.key] : d \in removed }

\* Mutant of Staged: a record's earlier deletion stays staged.
StagedTwice(removed) == staged \cup StagedCopies(removed)

\* A record has one staged deletion, its latest.
Staged(removed) ==
    { s \in staged : s.slot \notin SlotsOf(removed) } \cup StagedCopies(removed)

\* The batch of D1 that commits what the round decided.
Commit(r) ==
    LET new == round[r].new
        removed == { l \in live : \E d \in round[r].removed : d.slot = l.slot /\ d.id = l.id }
        left == live \ removed
        prior == { l \in left : \E n \in new : n.slot = l.slot }
    IN
    /\ At(r, "commit")
    /\ live' = (left \ prior) \cup new
    /\ staged' = Staged(round[r].removed)
    /\ history' = history \cup Versions(new, prior)
    /\ lastHid' = lastHid + 2 * Cardinality(new)
    /\ pending' = { p \in pending : \A n \in new : n.id # p.id }
    /\ account' = round[r].account
    /\ Go(r, IF round[r].removed # {} THEN "purge" ELSE "prune")
    /\ UNCHANGED <<usage, objects, lastKey, round, hand, crashes, ghosts>>

\* pruneHistory: the versions that uploads continued, and of the others all but the newest.
PruneHistory(r) ==
    LET written == WrittenSlots(round[r].new, round[r].batch)
        stay == { h \in OfSlots(written) : h.id \notin round[r].continued }
        continued == { h \in history : h.id \in round[r].continued } IN
    /\ At(r, "prune")
    /\ CleanUp(r, { h.hid : h \in Beyond(stay, Window) \cup continued }, "count")
    /\ UNCHANGED <<tables, objects, lastKey, round, crashes, ghosts>>

Plus(u, v) == [versions |-> u.versions + v.versions, bytes |-> u.bytes + v.bytes]
Minus(u, v) == [versions |-> u.versions - v.versions, bytes |-> u.bytes - v.bytes]

OverBudget(u) == account.bytes + account.count * Overhead + Past(u) > Quota

\* While live records and versions exceed the quota together, the oldest version goes.
Evicted(u) ==
    IF u.versions <= 0 THEN {} ELSE
    { h \in OlderVersions(history) :
        OverBudget(Minus(u, Counted({ g \in history : g.hid < h.hid }))) }

CountVersions(r) ==
    LET after == Counted(OfSlots(WrittenSlots(round[r].new, round[r].batch)))
        now == Plus(round[r].seen, Minus(after, round[r].before)) IN
    /\ At(r, "count")
    /\ round' = [round EXCEPT ![r].now = Minus(now, Counted(Evicted(now)))]
    /\ CleanUp(r, { h.hid : h \in Evicted(now) }, "usage")
    /\ UNCHANGED <<tables, objects, lastKey, crashes, ghosts>>

\* Written only when it differs from what the round found.
WriteUsage(r) ==
    /\ At(r, "usage")
    /\ usage' = IF round[r].now # round[r].seen THEN round[r].now ELSE usage
    /\ round' = [round EXCEPT ![r] = NoRound]
    /\ Go(r, "idle")
    /\ UNCHANGED <<account, live, history, staged, pending, lastHid, objects, lastKey, hand,
                   crashes, ghosts>>

-----------------------------------------------------------------------------
(* The deletion of the account: its objects, then its rows.                *)

DeleteAccount(r) ==
    /\ LockFree(r) /\ account.exists
    /\ Hold(r, [Nothing EXCEPT !.keys =
            KeysOf(live) \cup KeysOf(staged) \cup KeysOf(history) \cup KeysOf(pending)])
    /\ Go(r, "drop")
    /\ UNCHANGED <<tables, objects, lastKey, round, crashes, ghosts>>

DropObjects(r) ==
    /\ At(r, "drop")
    /\ objects' = objects \ hand[r].keys
    /\ Go(r, "dropRows")
    /\ UNCHANGED <<tables, lastKey, round, hand, crashes, ghosts>>

DropRows(r) ==
    /\ At(r, "dropRows")
    /\ account' = NoAccount /\ usage' = NoUsage
    /\ live' = {} /\ history' = {} /\ staged' = {} /\ pending' = {}
    /\ cut' = FALSE
    /\ Hold(r, Nothing)
    /\ Go(r, "idle")
    /\ UNCHANGED <<lastHid, objects, lastKey, round, crashes, exact, calm>>

-----------------------------------------------------------------------------
(* The daily upkeep, in another Worker.                                    *)

StartSweep ==
    /\ At(Sweep, "idle")
    /\ Go(Sweep, "purge")
    /\ exact' = (exact /\ Idle) /\ calm' = (calm /\ Idle)
    /\ UNCHANGED <<tables, objects, lastKey, round, hand, crashes, cut>>

\* The window may have been lowered.
EnforceWindow ==
    /\ At(Sweep, "window")
    /\ CleanUp(Sweep, { h.hid : h \in Beyond(history, Window) }, "recount")
    /\ UNCHANGED <<tables, objects, lastKey, round, crashes, ghosts>>

Recount ==
    /\ At(Sweep, "recount")
    /\ usage' = Counted(history)
    /\ exact' = Idle
    /\ Go(Sweep, "abandoned")
    /\ UNCHANGED <<account, live, history, staged, pending, lastHid, objects, lastKey, round, hand, crashes, cut, calm>>

Committed(p) == \E l \in live : l.id = p.id

\* Mutant of Aged: reservations of a minute.
AgedTooSoon == pending

\* An hour old: none of a round still running, which is stopped after 30 seconds.
Aged == { p \in pending : \A r \in Rounds : p.key \notin KeysOf(round[r].new) }

\* purgeAbandonedUploads: some reservations are an hour old.
ReadAbandoned ==
    /\ At(Sweep, "abandoned")
    /\ \E old \in SUBSET Aged :
        Hold(Sweep, [Nothing EXCEPT !.rows = { p \in old : ~Committed(p) }])
    /\ Go(Sweep, "release")
    /\ UNCHANGED <<tables, objects, lastKey, round, crashes, ghosts>>

\* Only rows that are still the ones read.
ReleaseReservations ==
    LET mine == pending \cap hand[Sweep].rows IN
    /\ At(Sweep, "release")
    /\ pending' = { p \in pending \ mine : ~Committed(p) }
    /\ Hold(Sweep, [Nothing EXCEPT !.keys = KeysOf(mine)])
    /\ Go(Sweep, "reclaim")
    /\ UNCHANGED <<account, usage, live, history, staged, lastHid, objects, lastKey, round, crashes, ghosts>>

ReclaimObjects ==
    /\ At(Sweep, "reclaim")
    /\ objects' = objects \ hand[Sweep].keys
    /\ Hold(Sweep, Nothing)
    /\ Go(Sweep, "idle")
    /\ UNCHANGED <<tables, lastKey, round, crashes, ghosts>>

-----------------------------------------------------------------------------
\* A storage error, an eviction of the object, or its reset by the watchdog.
CutShort(p) ==
    /\ crashes < MaxCrashes /\ ~At(p, "idle")
    /\ crashes' = crashes + 1
    /\ Go(p, "idle") /\ Hold(p, Nothing)
    /\ round' = [r \in Rounds |-> IF r = p THEN NoRound ELSE round[r]]
    /\ cut' = (cut \/ At(p, "dropRows"))
    /\ exact' = (exact /\ pc[p] \in {"supersede", "reserve", "put", "commit", "drop", "dropRows",
                                     "abandoned", "release", "reclaim"})
    /\ calm' = FALSE
    /\ UNCHANGED <<tables, objects, lastKey>>

RoundStep(r) ==
    \/ \E b \in Batches : Begin(r, b)
    \/ DropSuperseded(r) \/ Reserve(r) \/ PutObject(r) \/ Commit(r)
    \/ PruneHistory(r) \/ CountVersions(r) \/ WriteUsage(r)
    \/ DeleteAccount(r) \/ DropObjects(r) \/ DropRows(r)

SweepStep ==
    StartSweep \/ EnforceWindow \/ Recount \/ ReadAbandoned \/ ReleaseReservations \/ ReclaimObjects

Next ==
    \/ CreateAccount
    \/ \E r \in Rounds : RoundStep(r)
    \/ SweepStep
    \/ \E p \in Processes : Cleaning(p) \/ CutShort(p)

Spec == Init /\ [][Next]_vars

-----------------------------------------------------------------------------
(* Properties.                                                             *)

\* Every variable holds a value of its kind; a record, a version and a sequence number
\* have one row, and the counters count the rows.
TypeOK ==
    /\ Bare(live) \subseteq Row /\ Numbered(Bare(live), account.nextSeq)
    /\ Cardinality(live) = Cardinality(Bare(live))
    /\ account.count = Cardinality(live) /\ account.bytes = BytesOf(live)
    /\ \A g, h \in history : g.hid = h.hid => g = h
    /\ \A r, s \in staged : r.slot = s.slot => r = s
    /\ \A p, q \in pending : p.id = q.id => p = q
    /\ objects \cup KeysOf(live) \cup KeysOf(history) \cup KeysOf(pending) \subseteq 1 .. lastKey

\* A live record can be read: no cleanup, of the round's, of the sweep's or of both at
\* once, ever takes its object, and none is committed before its object is there.  Only
\* a deletion of the account that died half-way leaves records without.
LiveReadable == cut \/ (\E r \in Rounds : At(r, "dropRows")) \/ KeysOf(live) \subseteq objects

\* While nothing is cut short and no sweep meets a round, between rounds R2 holds the
\* objects of live records and of their versions and nothing else, and nothing is left of
\* a deleted record.
NothingLeftBehind ==
    calm /\ (\A p \in Processes : At(p, "idle")) =>
        /\ objects = KeysOf(live) \cup KeysOf(history)
        /\ SlotsOf(history) = SlotsOf(live) /\ staged = {} /\ pending = {}

\* The quota's count of versions is right between rounds, until a round is cut short, meets
\* a sweep, or writes beside an upload that is held and has older versions; and the next
\* sweep that meets no round sets it right.
UsageExact == exact /\ Idle /\ ~SweepCounts => usage = Counted(history)

\* Though a round reads, decides and commits in separate steps, it commits what it would
\* have, had it been alone: it sees every write before its own, and none is lost.
RoundsAreSerial ==
    [][ \A r \in Rounds : At(r, "commit") /\ pc'[r] # "commit" /\ round'[r] = round[r] =>
          LET b == round[r].batch IN
          /\ Conflicts(Bare(live), b.uploads) = {}
          /\ account'.nextSeq = ClockAfter(Bare(live), account.nextSeq, b)
          /\ Bare(live') = RowsAfter(Bare(live), account.nextSeq, b) ]_vars
===============================================================================
