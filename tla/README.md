# Scraps Cache: specifications

Scraps Cache is an offline-first notes app. Every device keeps its notes in
IndexedDB and syncs them, end-to-end encrypted, through a relay that stores
opaque versions of opaque records. This directory specifies the parts of it
that lose notes or reminders when they go wrong. TLC checks the modules on
small instances; TLAPS proves most of their safety properties for every value
of their parameters.

Source paths below are relative to `src/src/lib/` unless they start otherwise.

## The modules

| Module | Models | Proofs |
| ------ | ------ | ------ |
| `RelayRules` | the rules a sync round is answered by, as operators on rows: page, conflict, deletion, numbering of new rows, replies | |
| `RecordStore` | what a relay promises its devices: each round is answered from, and written at, one moment of the account | |
| `Relay` | `server/syncStore.ts`: account rows, counters, history and quota, the sync transaction statement by statement; implements `RecordStore` | `RelayProofs` |
| `Coordinator` | the same account on Workers (`src/cf/accountCoordinator.ts`, `server/cloudflare/`): rows in D1, objects in R2, a write lock, the upkeep beside it | `WorkersProofs` |
| `AccountLife` | registration, sign-in, the owner's deletion and the sweep of one account, over two databases | `AccountLifeProofs` |
| `SyncDevices` | `stores/sync.svelte.ts`, `syncEngine.ts`, the outbox of `db/idb.ts` and the parts of `stores/notes.svelte.ts` around them: several devices and the relay they share | `SyncDevicesProofs` |
| `NoteMerge` | the copies of one note: `model/edit.ts`, `model/merge.ts`, `model/bodyDoc.ts`, `syncForcePush.ts` | `NoteMergeProofs` |
| `Wakes` | reminder wakes of one account on a self-hosted relay: the store's side (`syncStore.ts`), `wakeDispatch.ts`, `wakeTimer.ts` and the route that arms it | `WakesProofs` |
| `WakeAlarm` | the same on Workers: `src/cf/reminderScheduler.ts`, its alarm and its queue | `WorkersProofs` |
| `Receipts` | which reminders were shown and dismissed: `server/reminderHistoryRelay.ts`, `stores/reminderHistory.ts` | `ReceiptsProofs` |
| `SetFacts` | facts of finite sets and sums that several proofs need | itself |
| `MCRelay`, `MCSyncDevices`, `MCSyncNotes`, `MCWakes`, `MCReceipts`, `MCAccountLife`, `MCWorkers` | instances for TLC | |

`SyncDevices`, `Coordinator` and `Relay` share `RelayRules`: the relay the devices talk to is the
answer (`Answer`, `RowsAfter`) that `Relay` is proved to give by implementing `RecordStore`, and that
`Coordinator` is proved to commit (`RoundsAreSerial`). So no model has a relay of its own making.

Twelve runs ask the questions below. Two of them hold two models side by side: `MCSyncNotes` (`SyncDevices` and
`NoteMerge`) and `MCWorkers` (`Coordinator` and `WakeAlarm`). The two share no variable and every
property speaks of one of them, so a reachable state of the pair is a pair of reachable states; the next-state
relation moves one while the other is at its start, which reaches every state of each without their product.

## Inventory

What the repository consists of, what each part keeps, what is hard about it and
what would make it correct. `PROJECT.json` lists the same parts with their status.

### Relay (server)

- **Sync store** (`server/syncStore.ts`, `server/db.ts`, `syncLimits.ts`). State:
  `accounts` (next_seq, live counters, credential), `envelopes` (one live row per
  slot), `envelope_history` (past versions and a copy of the live one),
  `account_history_usage`, quotas, retired accounts. Operations: create, retire
  and delete an account, set and clear a quota, `sync` (one transaction of up to
  dozens of statements), `reclaimStorage`. Hard: counters moved by differences
  inside a transaction, a quota error after half a batch, versions that are kept,
  continued, trimmed and evicted in the same round, replays. Correct when a
  cursor splits the rows into seen and unseen, a write never replaces a version
  its sender had not seen, counters equal the rows, the live copy survives every
  eviction and a deletion leaves nothing behind. **`Relay`, `RecordStore`.**
- **Delta, register, account and history routes** (`src/src/routes/api/sync/`).
  Validation around the store's operations. They bound the batches, and devices send one upload per slot
  (the route does not insist on it): that is `Batch`; the history route only reads what `Relay` keeps.
  Deleting an account also clears a second, ops, database: a failure in between is finished by a queue
  (`pending_ops_deletions`). **`AccountLife`.**
- **Workers store** (`src/cf/accountCoordinator.ts`, `server/cloudflare/`): the
  same round with rows in D1, ciphertext in R2 and one Durable Object per
  account. Hard: two stores, no common transaction, and a daily upkeep that runs outside the object's lock.
  Correct when live records stay readable and rounds commit as if alone. **`Coordinator`.**
- **Reminder wakes** (`syncStore.ts`, `wakeDispatch.ts`, `wakeTimer.ts`,
  `pushWakes.ts`, `routes/api/sync/push/wakes`). State, in the ops database: the wakes of
  the newest snapshot and its revision, a marker of changes whose delivery was not yet armed,
  the registered browsers, and a row per browser and wake with its claim and its delivery;
  in memory: the one timer and the delivery it runs. Hard: a request may arrive at any
  await of a delivery, a push may arrive without an answer, claims stand for pushes
  nobody is waiting for any more. Correct when no wake is left without a timer, each
  reaches every registered browser, and none is sent again once its delivery was
  written. **`Wakes`**; on Workers an alarm per account, a queue and deliveries that may
  overlap take the timer's place: **`WakeAlarm`.**
- **Reminder receipts** (`server/reminderHistoryRelay.ts`, `stores/reminderHistory.ts`). One sealed row
  per note, replaced as a whole; deletion markers; a queue and a cursor per device. Correct when no
  receipt stays on one device and deleted notes stay without. **`Receipts`.**
- **Authentication** (`server/syncAuth.ts`): one-time challenges and sessions. Correct when
  a challenge signs in once and a deletion leaves no session. **`AccountLife`.**
- **Retention sweep, cron tick** (`server/retentionSweep.ts`, `cronTick.ts`): a
  sweep is an action of `AccountLife`, of `SyncDevices` (`Forget`) and of `Receipts`; the daily gate is left out.
- **Pairing** (`server/pairingSessions.ts`, `syncPairing.ts`): the rendezvous of two devices. *Not modelled; in the plan.*
- **Rate limits** (`server/rateLimit.ts`): a token bucket in one SQL statement. *Not modelled; in the plan.*
- **Metrics, operator status, health, hooks, history API**: read only or without state. Left out.
- **Sync events** (`server/syncEvents.ts`, `syncEventsClient.ts`): a nudge that may be
  lost. The devices' fairness does not rely on it.

### Devices (client)

- **Sync loop** (`stores/sync.svelte.ts`, `syncEngine.ts`). State of a flight: the merged
  snapshot, baseline, record ids, cursor, outbox keys read at its start, keys
  acknowledged and keys it marked itself. Durable state: baseline, record ids,
  cursor (`commitSyncControl`, one IndexedDB transaction with the acknowledgements).
  Hard: the user edits between any two awaits, other devices write between any two
  rounds, the answer to a committed round may be lost. Correct when nothing a device
  has is forgotten, nothing its cursor passes is missed, and all devices converge.
  **`SyncDevices`.**
- **Outbox** (`db/idb.ts`): keys marked with a generation, cleared up to one. **In `SyncDevices`.**
- **Notes store** (`stores/notes.svelte.ts`): memory, IndexedDB and a journal in
  localStorage. The copy a flight takes, the merge of a pull and the permanent
  deletion are in `SyncDevices`; memory and IndexedDB are one there. *The awaits between the two are in the plan.*
- **Note model and merge** (`model/edit.ts`, `model/merge.ts`, `bodyDoc.ts`, `syncForcePush.ts`): field stamps,
  writers, Yjs bodies, images and their removals. Correct when devices that merge each other's copies in any order end
  with one copy, and that copy is what the edits should have made. **`NoteMerge`.**
- **Boards, canvas library, workspaces, reminder phrases, backups, service worker**: sequential
  transformations of records or storage of their own. Left out (formats, calendar arithmetic, caching).
- **User interface and text tools**: no shared state. Left out. They are most of the source's lines, which
  is why the lines the modules stand for are a small share of the whole.

## Relay: the transaction

`db` holds the committed tables of one account (`exists`, `retired`, `quota`, `nextSeq`,
`envelopes`, `history`, `lastHid`) and `usage` its stored counters. A round is
`BeginRound` (with the answers decided before anything is written: reset, page, conflict), then
one action per statement: `ApplyDeletion`/`SkipDeletion`, `ApplyUpload`/`SkipUpload`,
`SettleHistory` (window and recount), `EvictVersion` as long as the quota asks, `Commit`.
`tx` and `tally` are the transaction's working copy and its in-memory counters;
`Rollback` and `Restart` drop them, and a quota error leaves through them as the
exception does in the code. SQLite serialises write transactions, so there is one
at a time; what interleaves with a round is failure, and between rounds
everything else (`ReclaimStorage`, quotas, deletion of the account, a restart with another window).

A ciphertext is its size, a version its id; ids determine record and size, as
random 128-bit ids of encryptions do. The bytes of a set of rows are counted as
the number of pairs of a row and a byte of it (`BytesIn`): the same sum, in a form
that needs no recursion and can be proved about.

Properties: `RecordsNumbered` (one row per record, sequence number and version, none past
`next_seq`), `CountsMatchRows` and `BytesMatchRows` (stored counters are those of the rows),
`LiveCopyIsNewest` (window and quota never take a live copy), `DeletedLeavesNothing`, and of every step
`HistoryBounded` (a round that writes leaves each record it touched within the window and evicts versions of others only when
the quota asks for it; it never grows the live rows past the quota, and ends with the older versions inside what they leave of it, or with none), `Implements` (the statements refine `RecordStore`'s one-step rounds) and
`DoneAsAsked` (what a round commits is what the abstract store makes of that very request).

| Run | Shows |
| --- | ----- |
| `relay` | all of the above over 116 thousand states |

Bounds: two records, three versions of one and two of the other, of sizes 1 and 2;
pages of one row; quota 4 or 8 with an overhead of 1 a row, so that a quota is exceeded
by live rows, by versions, and by neither; window 1 or 2; two sequence numbers and four
saves beyond those the account begins with. The batches are every single upload (fresh, over each version, continuing), every
deletion, a deletion with an upload of any version, and two uploads of which the
second can fail. The system may stop when the bounds are used up, so deadlock is not checked.

### What is proved

`RelayProofs` proves for all `Slots`, `Ids`, sizes, batches, cursors, windows and quotas
every property the run checks:

| Theorem | Property |
| ------- | -------- |
| `RoundsAreSound` | `Spec => []RoundInv` |
| `TypeCorrect` | `TypeOK` |
| `CursorsSplitRows` | `RecordsNumbered` |
| `CountsAreExact` | `CountsMatchRows` |
| `BytesAreExact` | `BytesMatchRows` |
| `LiveCopySurvives` | `LiveCopyIsNewest` |
| `DeletionIsComplete` | `DeletedLeavesNothing` |
| `HistoryStaysBounded` | `HistoryBounded` |
| `RoundsDoAsAsked` | `DoneAsAsked` |
| `RelayImplementsStore` | `Implements` |

The assumptions are the named ones of the modules: a version id determines its record
and its size, page and window are positive, and a batch has one upload per slot (devices send
no others, as they upload one version per record; the delta route itself would take them). None of the properties is inductive: between two
statements counters and rows disagree, and which rows may be written depends on what the round
read at its start. The invariant has four parts, each with its lemma per action and its `Next` lemma.

- `RoundInv` says that the *working copy* is sound at every statement;
  that `tally.count` counts it, while `tally.versions` is still the old count until `SettleHistory`;
  that `tx.older` is what the transaction counted of the touched records before it wrote; that the
  records it does not touch are as they were (so that the difference of the two
  counts is the difference of the whole); and that an upload which repeats a live version is known to.
- `BytesInv` says the same of the sums of bytes, and rests on how such a sum splits when rows are added, removed or
  replaced (`UnitsSplit`, `BytesReplaced`).
- `RoomInv` is what a commit needs for `HistoryBounded`: a round in progress stays within the quota or shrinks; records it
  touched are within the window; versions of others have gone only while one more of some size would have been too many.
- `AsAsked` relates a round in progress to the batch it was sent and the rows at its start: what the
  deletions done so far have removed, and that the uploads done so far are those of the batch that
  were fresh, numbered in order. At `Commit` this is `RowsAfter` of the whole batch, which is the abstract
  store's step; every other statement, rollback and restart is a stutter of it, and an answer given early is a step of its own.

The initial condition admits an account whose rows predate the history table, as an upgrade finds it.
Liveness and `ENABLED` are out of the prover's reach; nothing of `Relay` needs them.

## Coordinator: the account on Workers

The tables of one account in D1 (`account`, `usage`, `live`, `history`, `staged` for `deleted_envelopes`, `pending` for
`pending_envelopes`) and the keys that R2 holds (`objects`). `Rounds` are the mutating requests the Durable Object is given,
`Sweep` the daily `reclaimStorage`. `pc` says at which of its steps each is, `round` what a round keeps in memory, `hand` what each is
about to delete. A round's way:

    idle -Begin-> supersede -DropSuperseded-> reserve -Reserve-> put -PutObject-> commit -Commit->
         PurgeVersions, ReadStaged, EraseStaged, Unstage (of deleted records) -> prune -PruneHistory->
         count -CountVersions (which picks what to evict)-> usage -WriteUsage-> idle

Every cleanup is the code's own sequence of awaits: read what is unreferenced (`FindUnreferenced`), delete the objects, delete the rows.
`Begin` takes the lock (`exclusive`); the sweep takes none. `CutShort` ends a round or a sweep between any two steps.

A round has two sets of records. It counts the older versions before it writes over the records of every upload and deletion
(`TouchedSlots`, `accountCoordinator.ts:335, 373-377`); once it has dropped the uploads whose ids the account holds already, it prunes and counts
again over those that are left (`WrittenSlots`, `accountCoordinator.ts:667-678`).

- `LiveReadable`: a live record can be read: no cleanup, of the round's, of the sweep's or of both at once, takes its object, and
  none is committed before its object is there.
- `RoundsAreSerial`: a round commits what it would have, had it been alone.
- `UsageExact`: the quota's count of versions is right between rounds until a round is cut short, meets a sweep, or writes beside a
  held upload whose record has older versions; and it is right again after the next sweep that meets no round.
- `NothingLeftBehind`: while nothing is cut short and no sweep meets a round, R2 holds the objects of live records and their versions and nothing else.

The run `workers` has one record of two versions and a second record of one, two rounds and the sweep, one of them cut short; a quota of two rows, a window of two,
three sequence numbers and three objects. Each batch is an upload of the first record (fresh, over a version, continuing), its deletion, or a first upload of
both records, of which either may be held already. The first record is enough for a cleanup to meet a use of the same object, the
sweep to meet a round, and a round to be refused, to evict and to prune; the second lets a batch mix a held upload with a fresh one. Of two rounds the second waits
for the lock, which is what the lock's mutant breaks. Rounds and the first record's ids are symmetric.

What does not hold of the code, and so is in no run: *every object is named by some row*. A sweep and a round that clean up one
version at once, `INSERT OR REPLACE` into `deleted_envelopes`, and `purgeAbandonedUploads`, which deletes rows before
objects, can leave an object in R2 that nothing names. It costs storage, not data. `usage` drifts
when a round meets a sweep, until the next sweep recounts. It is also too low after a batch in which an upload that is held already, of a record with
older versions, comes beside one that is fresh: those versions are counted out and not in again, so until the next sweep the account may keep more history than its
quota, though the comment of `sync` says that usage never loses an update (`accountCoordinator.ts:329`). Without the exception in `Begin`, TLC finds this in
`workers`. `Relay` does not have it: `syncStore.ts` counts the same records twice. `deleteInactiveAccounts` does not read `last_seen` again before
it deletes. A device draws a new id for each version, so a batch that deletes an id and uploads the same one is left out.

### What is proved

`WorkersProofs` proves, for any records, batches, quotas and windows, any number of requests and of crashes and
the upkeep beside them, from `BatchAssumption`, `ProcessAssumption`, `CountAssumption` and `VersionAssumption`:

| Theorem | States |
| ------- | ------ |
| `CoordinatorTypeCorrect` | `TypeOK`; with it, that nothing has two rows and that the account's counters count its live rows |
| `LiveStaysReadable` | `LiveReadable` |
| `RoundsCommitAlone` | `RoundsAreSerial` |
| `CountIsExact` | `UsageExact`, with its three exceptions |
| `NothingIsLeft` | `NothingLeftBehind` |

`MaxClock`, `MaxKeys` and `MaxCrashes`, which bound what TLC explores, are used by no proof. The inductive invariant is `CoordinatorInv`:

- `Firm` holds through every crash and beside every upkeep. Its parts: `Shaped` (the types); `KeysSafe` (who holds the lock; a key of R2 is given out once;
  a round's keys are its own; nobody is about to delete the object of a live record or one that a round is still to commit); `Sound` (rows and versions are
  one each and dated, what a round decided when it began still holds when it commits, a version that is continued is not live any more).
  `LiveReadable` is not inductive: a cleanup deletes an object it found without a use some steps before. What rules the loss out is that no row takes up a key
  again once it has none, but for the round that reserved it, and that says something only of all who hold keys at once.
- `UsageKept` says what a round remembers of the count of versions, while nothing disturbed it: between its commit and
  `WriteUsage` the count is off by what the batch added, what pruning took and what an eviction is about to take. A record the round asked for and does not write
  has no older versions then, so that both counts are of the same versions.
- `Tidy` says, while nothing was cut short, that the one process under way holds exactly what is still to be taken away: what it superseded, staged, pruned or
  evicted and has not deleted; and that a deletion of the account ends with nothing.

There is one lemma per action and part (`...Keys`, `...Sound`, `...Usage`, `...Tidy`). TLC checked `CoordinatorInv` on an instance like that of `workers`
before it was proved. `RoundsAreSerial` then follows from `Decided`: at `commit` the rows are those of `Begin`.

## AccountLife: one account, two databases

`relay` is the relay database (the account's row, its retirement, its place in `pending_ops_deletions`), `rows` and
`auth` the ops database (wakes and browsers; challenges and sessions). No transaction spans the two, so each handler is a chain of
steps, one per await on a database: `doing[p]` says where each request and the cron tick stand.

| Model | Code |
| ----- | ---- |
| `Register` | `createAccount`, one statement |
| `AskChallenge`, `IssueChallenge` | `POST challenge`, `createSyncChallenge` |
| `AskSession`, `Exchange`, `Grant` | `POST session`: `exchangeSyncChallenge` consumes the challenge, `createSyncSession` writes the session |
| `AskPublish`, `LookUp`, `WriteRows`, `Touch` | `PUT wakes`: the account is looked up in one database, the wakes written in the other |
| `AskDevice`, `WriteRows` | `POST wakes` |
| `AskDeletion`, `Retire`, `DeleteAccount`, `Drain`, `Purge`, `Clear`, `Revoke` | `DELETE account` step by step (`DeletionStep`, `DrainStep`) |
| `StartTick`, `Sweep`, `Drain` ..., `Prune` | `runCronTick`: inactive accounts, the queue, expired challenges |
| `Fail`, `Restart` | a store error or the process dies between any two steps |

Properties: `RetiredForGood`, `PurgedOrQueued` (rows of an account that is gone are queued for deletion, except what a
request wrote that had seen the account before it went), `RevokedForGood`, `OneSessionPerChallenge`, and under fairness `QueueDrains`.

| Run | Instance | Shows |
| --- | -------- | ----- |
| `accounts` | 2 requests at a time, 3 in all, the tick, 2 failures | all of them over 475 thousand states, and no deadlock |

Two requests and the tick are two deletions beside a sweep, or a deletion beside a sign-in or a publish; the second failure meets what
the first has left. Lifetimes of 1 and a clock up to 2 let each challenge, session and account expire.
`QueueDrains` assumes that the tick comes and finishes and that a request under way goes on (`FairSpec`); nothing is assumed of
users or failures.

`DropsDuringDrain = FALSE` keeps an account from being dropped while another drain is past its reading of the queue. With
`TRUE` `PurgedOrQueued` fails: a drain that read the queue before a second deletion queued the account anew clears the entry. It takes two
deletions of one account, with a registration in between, inside one drain.

`AccountLifeProofs` proves, for any number of requests, challenges and failures and any lifetimes, `TypeCorrect`,
`RetirementSound` (`RetiredForGood`), `RevocationSound`, `ChallengesSpentOnce`, and with `~DropsDuringDrain` `PurgeSound`. The invariant's parts are what each process holds between
its awaits: `Retirement` (a deletion past `retire` finds the account retired), `Revocation` (which
sign-ins have read the credential), `SignIn` (a challenge is open, or in one hand, or spent), `Queue` (a purge in
progress stands for the rows it has read). `QueueDrains` is model-checked: liveness is out of the prover's reach.

Known gaps outside these properties: a queued deletion of a swept account that is registered again before the drain purges
the wakes of its new life; `POST wakes` registers a browser without looking the account up; with retention disabled a cut-off deletion's queue waits
for another account's deletion; a stream subscribed after the sessions ended lives until its session would have expired.

## SyncDevices: several devices and the relay

The state of a device is what IndexedDB holds (`local`, `outbox`, `control`) and its flight.
A flight goes through the stages between the awaits of `sync()`:

    idle -TakeSnapshot-> snapped -ReadControl-> ready -Round-> answered
         -ApplyPulled-> pulled -MarkDirty-> marked -NextPage/CommitSyncControl-> ready | idle

At every stage other devices go on. Users act where `UserActsAt` allows (see the findings);
`Fail` loses a request or an answer or ends the flight with an error, `Crash` kills the app,
`Forget` sweeps the account, which explicit recovery creates again.

| Model | Code |
| ----- | ---- |
| `TakeSnapshot` | `doSyncLocked` copies the notes |
| `ReadControl` | `sync` reads baseline, ids, cursor, outbox generation and keys; one step, since an edit between these reads only leaves a mark younger than the generation |
| `Round` | one request and the relay's answer. What is sent depends on the flight alone, so answering it in the step that sends it loses no behaviour; a request lost is `Fail` before it, an answer lost `Fail` after it |
| `StartOver` | an answer with `reset` |
| `ApplyPulled` | merging the envelopes, ids, cursor, and `applyPulledSnapshot` |
| `MarkDirty` | `reconcileBaseline` and `markSyncOutbox` |
| `CommitSyncControl` | `commitSyncControl`, the acknowledgements, and whether to go on |
| `Edit` | `putNote`: note and mark in one transaction |
| `DeleteNoteForever`, `QueueTombstone` | its two writes |

A mark's generation is abstracted to how it compares with the two generations a flight
knows: `queued` (not younger than the flight's reading), `internal` (the flight's own),
`later`. When no flight is on, every mark is `queued` for the next. Contents of a note are
sets of edits (what merging two of them does is `NoteMerge`'s question); a tombstone is a record of its own, as in `syncRecords.ts`.
Fields of a flight that are not read again are reset, which only merges states.

Properties:

- `NothingStranded`: what a device has and the relay never held is marked, about to be
  marked, or due because nothing was uploaded yet - at every moment, since the app may be killed at any.
- `NothingSkipped`: a durable cursor never passes a row the device has not merged.
- `KnowsWhatIsHeld`: of the rows its cursor has passed a device knows the live version's id, and
  its baseline is what that version says. Without it writes conflict for ever, or a
  change is taken for uploaded.
- `NoLostUpdate`: no write takes another device's edit from the relay.
- `Converges`: after the last edit, devices and relay come to hold the same. `FlightsEnd`: every flight ends.

| Run | Instance | Shows |
| --- | -------- | ----- |
| `sync` | 2 devices, one note made on each, one of them deleted for good, 1 failure | nothing is forgotten and both devices converge, though the notes are more records than a page or a batch holds; 208 thousand states |
| `sync_anytime` | 2 devices, 2 notes, 2 edits at any stage, 1 failure | cursors skip nothing, devices know what is held and the relay loses nothing while users edit during flights; with `NoteMerge` 371 thousand states up to symmetry of notes and edits |
| `sync_forget` | 2 devices, 1 note, 1 edit, 1 failure, 1 sweep | the account is recreated at any point: nothing is forgotten and flights end; 63 thousand states |

Bounds: two devices are enough for every conflict (an upload meets at most one other version);
two notes with pages and batches of one make every flight of the first two runs span several pages and several
upload rounds; two edits, or a note's creation and a deletion, give the versions there are to order. One failure reaches each
stage of each flight; a second one meets the same stored states. `MaxVersions` is never reached.

Fairness (`FairSpec`): a flight takes its next step while it has one (a promise chain
of one tab; `Fail` and `Crash` are not fair), a device syncs again and again (boot,
`visibilitychange`, `online`, and five seconds after an edit: `scheduleSyncPush`), and a tombstone in
the middle of being written is queued. Nothing is assumed about users, failures or sweeps.

### Disagreements with the code's own words

Two runs are refuted by TLC, with the user or the failure let in at the place it takes:

1. `sync_lost_mark`: an edit between the merge of a pull and `markSyncOutbox` loses its mark to
   the flight's own, which the same flight then clears. The follow-up pass that the
   comment of `queueSync` promises finds nothing to send.
2. `sync_first_upload`: whether all notes are uploaded is decided by an empty baseline; a
   first upload interrupted after its first committed round is never finished. Notes
   carried to a new key are not queued, so nothing else sends them.

Other values of the constants show related behaviours that have no run of their own:

- `NothingStranded`, `UserActsAt = {"idle", "ready", "marked"}`, two edits: `acknowledgedOutbox` only
  grows, so a key acknowledged in one round and dirty in the next loses its fresh mark, and the user's with
  it, at that round's commit. It is sent after all if the flight asks for another round.
- `NothingStranded`, `UserActsAt = {"idle", "snapped"}`, a note not made at the start: a note made after
  the copy and before the reading of the outbox is queued but not current, and is acknowledged as if it were gone.
- `NothingStranded`, `CrashWhileBurying = TRUE`, one failure: killed between the two writes of a
  permanent deletion, the app never uploads the tombstone.
- `Converges`, one device, two notes, one edit, `MaxForgets = 1`: told to start over with an edit queued, a
  device uploads that record, and the bootstrap pass then finds a baseline and uploads nothing else.
- `NothingSkipped`, `MaxForgets = 1`, one edit: a device whose old cursor the recreated account has
  overtaken is not told to start over, and skips the rows below it.

The passing runs keep these apart: where users act only between flights and a crash does not
split a deletion, the outbox holds what it should (`sync`, `sync_forget`); with users acting anywhere,
what does hold is checked by `sync_anytime`. So `sync` and `sync_forget` say nothing of the first five: of those TLC shows the two that have runs, and the
other three are in no run. Nor do `sync` and `sync_anytime`, which have no sweeps (`MaxForgets = 0`), say anything of the last two: `Converges` and `NothingSkipped` are claimed
of accounts that are not swept, and `sync_forget` checks through sweeps that nothing unsent loses its mark and that flights end.

Not in this model: attachments and their deletion rules, labels, boards, library items and profile names (records
like notes), quota and throttle answers, unreadable envelopes, `pullOnly` and replacing
flights, edit sessions (`continues`), cancelled flights and switched workspaces, the limit on resets
and on stalled rounds, several windows of one device, the journal of notes not yet in IndexedDB.

### What is proved

`SyncDevicesProofs` proves for any devices, finite set of notes, edits, page size, budget and bounds, with users acting at any stage
unless a theorem says otherwise:

| Theorem | Property | Holds |
| ------- | -------- | ----- |
| `DevicesTyped` | `TypeOK` | always |
| `CursorsSkipNothing` | `NothingSkipped` | until the account is swept |
| `DevicesKnowWhatIsHeld` | `KnowsWhatIsHeld` | until the account is swept |
| `NoUpdateIsLost` | `NoLostUpdate` | if it is never swept (`MaxForgets = 0`) |
| `NothingIsStranded` | `NothingStranded` | through sweeps, if users act between flights, no crash splits a deletion and no device was given a new key |

The first four rest on `IInv`, which is `Typed` and, until a sweep, `Sound`. What makes the loop right is in `DeviceOK`, a
condition on a device and its flight at each stage:

- the records a device has durably, and those a flight has merged, include every row up to their cursor (`Has`), so a cursor that lands with its
  pull skips nothing;
- of those rows the ids are the live ones and the baseline is nothing or what the row says (`Knows`). Between an answer and the marks that
  becomes `Told`: by then ids come from three places - the page, what was sent, what was known - and the baseline is still the old one. That an accepted
  round with uploads was asked with the whole account read and brings nothing (`AnswerOK`) is what allows to take what was sent for what is held;
- tombstones are never ahead of the devices' own (`Heard`): what is dropped because of one is gone for good;
- no cursor, stored, in flight or in an answer, is ahead of the account's clock (`Behind`), so new rows have numbers that no cursor has passed.

Uploads and deletions need the account read to its end, so `Has` and `Knows` hold of every row at a round that writes: that is `NoUpdateIsLost` (`RoundKeeps`).
A sweep breaks `Behind` - an old cursor may come level with or pass rows it never met, as the disagreements above say - and with it the rest.

`NothingIsStranded` has an invariant of its own, `Safe`, which compares with all the relay ever held and so survives sweeps:
a flight's copy has its device's records and nothing that neither the device had nor the relay held, and whatever the flight counts as acknowledged, uploaded or
no longer current was held (`FlightSafe`). So a mark is only taken from what was held (`CommitSafe`). The hypotheses are exactly what `sync_lost_mark`, `sync_first_upload` and the
list above break.

The assumptions are named: notes are finitely many, `NoId` is no version, page and budget are positive, the bounds are numbers. `MaxVersions` bounds the proofs
too, as a bound on the steps: any number may be chosen. `Converges` and `FlightsEnd` are liveness and stay with TLC.

## NoteMerge: the copies of one note

`copy[d]` is a device's copy of the note, `live` the one in the relay's live version. Title and secret stand for the fields
that are written as a whole (with the one field that may stay unstamped), the body is a Yjs document, images are a map
with their crops (`time`, `content`) and their removals (`buried`).

| Model | Code |
| ----- | ---- |
| `TouchNoteFields` | an edit's stamps: `touchNoteFields` |
| `EditTitle`, `ToggleSecret`, `TypePhrase`, `PutImage`, `RemoveImage`, `CropImage` | `applyNoteEdit` and what it edits, each with the stamping around it (`WriteNote`) |
| `MergeTwoNotes`, `Picked`, `MergedDoc`, `KeptImages`, `PickImage` | `mergeTwoNotes`, `pickLatest`, `mergeBodies` with its bases, `mergeImages`, `pickImage` |
| `ForcePush` | `forcePushWorkspace`, `overCloudCopy`: the cloud's copy is replaced by the device's |
| `Sync` | a device merges the relay's copy into its own and uploads the outcome, in one step: `SyncDevices` is about the steps |

A Yjs text is the items put in and the items taken out; that merging two texts on one base unites both is the library's promise.
Equal stamps leave it to the value (`equalTimestampWinner`): only that the choice does not depend on the side matters, so it is a `CHOOSE` of the two (`Either`).
`writes`, `imageWrites`, `unsynced` and `pushed` are history of no effect. Devices' clocks show any of `Times` at any moment
(`ClocksAgree = FALSE`): a device may be behind what it has merged.

- `MergesAgree`: whichever copy is merged into which, the outcome is the same, and merging it with either again changes nothing.
  Otherwise devices would go on uploading each other's results.
- `NothingMergedAway`: when all devices hold one copy, each field is the last that anyone wrote to it, and, unless a device replaced the
  cloud's copy, every phrase typed is in the text, an image nobody removed is there, and one whose removal came after all other
  edits of the images is not.
- `PushWins`: after a replacement that nothing follows, all devices come to read what that device had.

| Run | Instance | Shows |
| --- | -------- | ----- |
| `sync_anytime` | 2 devices, 3 edits or replacements, clocks of 1 or 2, two images, title and secret or body or images with replacements | the three properties |
| `note_removed` | the same with clocks that agree | the disagreement below |

Three edits are one that another has not seen and one that has seen both or either, with equal, reversed and ordered clocks. Checked as well:
3 devices with two edits, 3 devices with three edits of images, three clock values, body and replacement alone with more. Which part a behaviour edits is chosen at the start
(`Parts`), as fields share only `updatedAt`; `title` and `secret` go together for the one rule between fields, a field without a stamp.

`note_removed` is refuted: a photo removed on one device comes back when another device, which had not heard of the removal, later changes
another photo of the note, although `types.ts` says that a merge cannot bring it back. Other limits: a removal or a crop made by
a slow clock may lose to an older edit; a crop that was made after the cloud's copy was read survives a replacement.

`NoteMergeProofs` proves, for any number of devices, images and edits and whatever the clocks show (`Times` and `ClocksAgree` are arbitrary),
`MergingSettles` (`MergesAgree`) and `EditsSurvive` (`NothingMergedAway`). The first rests on two facts of all notes, reachable or not:
`MergeEitherWay`, that `MergeTwoNotes` does not depend on the side, and `MergeAgain`, that what comes of it absorbs what went in; both go
field by field, by the total order of stamps and bases. The second needs an invariant, `NoteInv`, as what one device did must be traced through
the copies of others:

- every value in a copy was written with the stamp it has there, and no write is later than all copies (`ValuesWritten`, `WritesCovered`);
- a field without a time of its own is of a note as it was made (`Aged`), so that merging invents no stamp;
- there is one base, which the first write of the note names, and a phrase typed is in some copy (`OneBase`, `PhrasesHeld`);
- an image nobody removed is buried nowhere; of a removal that all other edits of the images precede, some copy knows, and the copies that do not
  are no younger (`RemovalSeen`), which needs that a device's next edit is later than all its earlier ones (`OwnSeen`).

Each part has a lemma that says what a step does to the copies it replaces (`ValuesStep`, `BodyStep`, `ImagesStep`), so an edit, a replacement and a sync are one
argument. `PushWins` is model-checked only.

Not in this model: labels, boards, `trashedAt`, link previews, the bytes of images.

## Wakes: the reminders of one account

The store's tables are `wakes` and `revision` (`reminder_wakes`, `reminder_wake_revisions`),
`unscheduled` (`reminder_wakes_unscheduled`), `devices` (`reminder_push_devices`) and
`deliveries` (`reminder_wake_deliveries`). `timer` is `armedFor`, `rerun` the variable of that name, and
`dispatch` what `dispatchDueWakes` holds: where it is between two awaits, its round, the pushes
of the round (`due`, each with the endpoint read by the claim and the push service's answer),
`more` and `next`. `requests` are requests past their first transaction, with the step that
is still to come. `republish` and `reregister` are what devices have yet to repeat: `reminderWake.ts` remembers a publish and a
registration only when they were answered with success.

A delivery goes through these stages, and anything may happen at each:

    off -Fire-> claim -Claim-> send -(Answer, MarkDelivered | Defer | DropGone)*, RoundDone-> claim | look
        look -Look-> end -Finish-> off

| Model | Code |
| ----- | ---- |
| `Publish`, then `Arm`, then `MarkScheduled` | `PUT`: `replaceReminderWakes` (and `parseReminderWakes`' filter by retention), `scheduleDelivery`, `markReminderWakesScheduled` |
| `Register`, then `Arm` | `POST`: `savePushDevice`, with the takeover of an endpoint and the eviction of the device registered longest ago |
| `RequestFails` | the transaction is committed, and `touchAccount` on the other database fails before the arming (`syncStore.ts:1073, 1154`), or `markReminderWakesScheduled` after it: the answer is an error |
| `PublishAgain`, `RegisterAgain` | `publishReminderWakes` and `registerReminderDevice`, called after each sync, and the latter also when the app starts and is shown again (`stores/reminders.svelte.ts`) |
| `Unregister` | `DELETE`: `deletePushDevice` |
| `Discard` | `discardWakeSnapshotAfter`, called when the delta route answers `reset` |
| `Prune` | `pruneStaleWakes`, both statements of its transaction |
| `ArmNow` | `arm`; requests and the start always ask for the present moment |
| `Fire` | `fire` up to `running = true` |
| `Claim` | `claimDueWakes`, one transaction |
| `Answer` | the push service's answer, or the send's ten second timeout |
| `MarkDelivered`, `Defer`, `DropGone` | the store's write after each answer |
| `Look`, `Finish` | `nextWakeAt`; the end of `fire`, synchronous, so one step |
| `StoreFails` | the `catch` of `fire` |
| `Restart` | the process dies, `startWakeTimer` |

A wake's id is a hash of its note and its time (`model/reminderWakes.ts`), so `FireAt` is a constant of the
id. With one account the share of an account (`Share`) is reached before `CLAIM_LIMIT`. Of `ORDER BY
fire_at, wake_id, device_id` the ids are random, so `Foremost` leaves ties open. `now` is read once
in each step, as the code reads it just before each store call. The sends of a round are unordered:
more than eight at a time (`SEND_CONCURRENCY`) are sent than in the code, which only adds orders.

Properties:

- `NothingForgotten`: while a browser is owed a wake, the timer is set in time, or a delivery is
  at a point where it will still look, or was asked to run again; or the browser's registration is about to arm, or will be
  repeated; or a publish is, and the store still says that a change was not armed (`unscheduled`), without which a repetition of the same snapshot would arm
  nobody. A minute's delay is accepted after a store error, since the code accepts it.
- `ToldOnce`: nothing whose delivery was written is sent again, though browsers unregister
  and come back, snapshots drop and bring back wakes, and rows are pruned.
- `Delivered`: every due wake reaches every registered browser, or is withdrawn, or the browser is gone.

A request that fails between its commit and the arming leaves wakes or a browser for which no timer is set. Nothing on the server looks for them:
that they are not forgotten rests on the device, which asks again, and for a publish on the marker, which the store keeps until a
publish has armed. If the device never comes back, they wait for the next request or restart. A failed publish that schedules nothing leaves nothing to repeat and is not repeated in the model.

`DiscardsBeside = FALSE` keeps a snapshot from being discarded while a publish is past its transaction. With `TRUE` `NothingForgotten` fails: after a discard revisions count
anew, a device publishes at a small revision, and the older publish, whose revision is larger, takes the new change's marker away with its own
(`revision <= ?`); if the new one then fails before its arming, its repetition finds nothing unscheduled. It takes a reset of the account, two overlapping publishes and a failure.

A push that arrived and whose delivery could not be written is sent again when its claim ends:
the relay cannot know better, and `ToldOnce` counts what was written.

| Run | Instance | Shows |
| --- | -------- | ----- |
| `wakes` | 2 browsers, 2 endpoints, 2 wakes, 1 device at most, 1 request, 2 faults until time 1 | all three over 326 thousand states |
| `wakes_gone` | the same | the disagreement below |

Bounds: one device at most, so that the second evicts the first; a share of one and two
rounds, so that a round is full with more due, and the last one too. Times are units: the wakes are due at 0
and 1, lease and retention are 1, the clock ends at 2, so a claim ends, a wake and its rows are pruned, and a
snapshot still brings the younger wake back. The account is new, or has a browser and the first wake already (`Accounts`), so that one request is enough to meet a delivery that is under way
and the two faults (failed requests, store errors, restarts) come while a wake is owed: a fault, and a second one while the first is being made good. Repetitions of failed requests are not counted.
Pushes and store calls fail until `FaultsUntil` = 1, so that what they delay is
due before the clock ends; past it a failed push is put off before the clock goes on, as
otherwise its retry would lie beyond the last moment. Larger instances were checked as well: two requests and one fault (7.2 million states, safety), the same with both wakes stored at the start (9.1 million), and
three requests with a browser and a wake stored at the start, with `Delivered` (788 thousand).
The system rests when the bounds are used up, so deadlock is not checked.

Fairness: the clock moves; a timer that is due fires and a delivery takes its next step (`setTimeout`, a
chain of awaits on a local database); a request goes on after its transaction, unless it fails; a push is answered or
times out after ten seconds; a device asks again for what was answered with an error (`Retried`: after its next sync, on `focus` and `visibilitychange`, and at its
start). First requests, resets, upkeep, failures and restarts are not fair. `Deliver` is one
fairness condition: a delivery is one chain, and its writes after answers are finitely many.

`wakes_gone` is refuted: `wakeDispatch.ts` says that an endpoint the push service no longer knows is dropped;
the code drops the browser's registration by its device id, whatever endpoint it has by then. A
browser that renews its subscription while a push to the old one is under way loses the new one. It
does not register again while its page lives, as it remembers having done so (`registeredDevices` of
`reminderWake.ts`), so until then the relay no longer wakes it.

### What is proved

`WakesProofs` proves for any number of browsers, endpoints and wakes, any times, limits, lease, retention and
delays (with `Lease <= MaxRetryDelay`, which the values one minute and thirty satisfy), and without the bounds:

| Theorem | Property |
| ------- | -------- |
| `WakesTypeCorrect` | `TypeOK`, with the limit of browsers and one owner per endpoint |
| `NoWakeForgotten` | `NothingForgotten`, if `~DiscardsBeside` |
| `NeverToldTwice` | `ToldOnce` |
| `RowsStaySound` | `DeliveriesSound`: rows are dated after their wake, a push under way has its row, a written delivery outlives every snapshot that could bring its wake back |

Without `NothingForgotten`, and with the finiteness of the device table, they are `WakeInv` (`WakesAreSound`), which is inductive and holds whatever is discarded;
none of its parts is inductive alone. `ToldOnce` needs that a row which is pruned belongs to a wake too old
for any snapshot (`ExpiredStays`), and that a push is the only one of its wake to its browser. The steps that touch none of
this share two lemmas, `RowsUntouched` and `TimerUntouched`.

`NothingForgotten` needs two parts more. `MarkSound`: when a publish is about to take the marker away, every owed wake is looked after (`AllLooked`), as it has
armed and a change made since would have a marker of a later revision. `RevisionsCurrent`: no publish under way has a revision beyond the account's, which is why that
marker is of a later one. The last is what a discard breaks. They rest on `WakeInv`: pushes exist only while a delivery is in its
`send` stage, and pruning never takes the row of a wake that stays, which is where the dates of
rows come in: a claim that a retry moves is not dated before its wake because a retry is never sooner than a lease
(`RetryHoldsLease`). That `Earliest` finds a minimum at all
(`EarliestSound`) rests on `LeastNatural`, proved from the well-foundedness of inclusion.

Model-checked only: `Delivered`, as liveness is out of the prover's reach.

Not in this model: several accounts and the shares between them, the deletion of an account with its wakes (`AccountLife` has it), rate limits and
authentication of the route, what a device publishes and why (`relayReminderWakes`; that it repeats what failed is here), two servers on one
database.

## WakeAlarm: the same on Workers

`alarm` is the alarm of the account's `ReminderScheduler`. When it fires, `FireAlarm` sets a retry first and `HandOver` puts the account into the queue
(`handing` is in between); a delivery of a queue `message` goes through

    queued -BeginDelivery-> select -SelectDue-> claim -ClaimDue-> push -PushSent | PushFailed | PushGone*, LookAhead-> set
         -SetAlarm-> ack -Acknowledge-> none

`claimDueWakes` has no transaction on D1: what is due is read, and then claimed. Two deliveries of an account may be under way, as the queue
delivers at least once (`Redeliver`) and the alarm may fire during a delivery. Of the scheduler's generation only comparisons are read: `current` says whether a delivery
holds the newest. Requests (`clients`) read, write and arm in separate steps and may die in between. `DeliveryFails` and `HandOverFails` are errors anywhere;
after `MaxTries` the queue gives a message up.

- `NoWakeLost`: for each wake a browser has still to be told of, an arming is owed, or the alarm comes in time, or a delivery will still look ahead or has seen
  it (`LookedFor`); and whatever fails, an alarm stands that is at most the retry late (`AlarmStands`).

A stale delivery's late claim may make a wake that was put off claimable early; `putOff` remembers, for the property alone, until when a failed push has put it off (`DueAgain`).

The run `workers` has one wake, two clients and two messages at a time, two events and a clock up to 2; with `Coordinator` over a
million states up to symmetry. Larger instances were checked as well: two wakes, three events and two snapshots (4.5 million states), a second revision (2.6 million).

The second half of `WorkersProofs` (the two Durable Objects share a module) proves for any number of wakes, requests and messages, any times and any faults `AlarmTypeCorrect` (`AlarmTypeOK`) and, where publishes do not overlap and a registration
lives to arm the alarm, `NoWakeIsLost` (`NoWakeLost`). The invariant adds to the two: requests hold what their step needs (`RequestsSound`), rows stay dated (`RowsSound`), whatever is
marked unscheduled is armed for (`Armed`, `MarkSound`).

The two conditions are the code's: with `RegistrationsDie` a registration that ends between its write and its arming is armed by nobody until the next request, as
`POST` ignores a failed arm; with `Overlap` two publishes that overlap between their read and their write may leave the newer one's wakes unarmed. A non-atomic claim may also undo a delivery that was written, and push twice.

Not in this model: several browsers, rounds and shares, discarded snapshots (all in `Wakes`), the runtime's own retries of alarms.

## Receipts: which reminders were shown

What is known of a reminder is unknown, shown, or its first dismissal's time; two opinions meet in the one that says more (`MergeEntries`). `rows` are the relay's sealed rows,
one per note, with a marker for a note deleted for good; `entries`, `pending`, `deleted` and `cursor` what a device keeps, `flight` its exchange.

| Model | Code |
| ----- | ---- |
| `Record`, `ForgetNote` | `commitLocal`: what the user does, and its event in the queue |
| `Prepare` | `prepare`: the packet to upload |
| `Check`, `WriteRow`, `ReadPage` | `exchangeReminderHistory`, statement by statement |
| `ResetChannel`, `Receive` | `resetChannel`, `receive`: merge, answers for rows that say less, acknowledgement |
| `Exchange`, `Fail`, `Sweep` | one exchange; a lost request or answer or a closed window; the retention sweep |

- `NothingUnsent`: what a device knows of a note and the relay does not is queued, or in the way of a row the device has yet to see.
- `RelayKeeps`: replacing a note's row takes nothing from it but receipts that newer ones push out.
- `Converges`: devices come to know the same of a note.

The run `receipts` has two devices, three reminders of two notes, one receipt per note and per batch, two acts of users and one failure or sweep: 211 thousand states. One receipt per note
makes newer ones push older ones out, one per batch makes exchanges go on. Fairness (`FairSpec`): devices go on exchanging; users and failures are free.

The code has one gap, which both properties except by name (`Overtaken`): after a sweep, a device whose old cursor is at or behind the new rows takes it for a place among them,
and never sends again what the relay lost (`SentAfterSweep` fails).

### What is proved

`ReceiptsProofs` proves for any devices, notes, reminders, times, limits, failures and sweeps `ReceiptsTyped` (`TypeOK`), `NothingStaysUnsent` (`NothingUnsent`)
and `RowsKeep` (`RelayKeeps`), from the module's assumptions: finitely many reminders with times that are numbers, and limits of at least one.

- *Opinions are ordered.* `AtMost(x, y, n)`: y has all that x says of the note, but for receipts that newer ones push out. Merging forgets, so that this is an order, and that a
  merge has both of its parts (`MergeHasBoth`), rests on `LatestOfLatest`: the latest of some receipts and of the latest of others are the latest of all.
- *The invariant* `DeviceOK(d)`: what a device has seen of the rows its own opinion says (`Seen`); what it knows is queued, or is in a row that it has seen or has yet to
  see (`Sent`); an upload under way says no less than rows its sender has seen (`UploadOK`), a page has every row between two cursors (`PageOK`), and events that were sent stand
  for something that is to be written or was (`SentOK`).
- *A device at cursor 0 has everything queued.* Without this part the invariant is not inductive: a sweep takes the rows away from a device that has never heard of them,
  without the device being overtaken.
- `RelayKeeps` then follows from `UploadOK` at `WriteRow`, and `NothingUnsent` from `Sent`.

`Converges` is liveness and stays with TLC.

## What is left unproved, and why

- Liveness (`Converges`, `FlightsEnd`, `Delivered`, `QueueDrains`): out of the prover's reach.
- `PushWins`: its argument needs the text of a Yjs document to be what its phrases make it across replacements; TLC checks it.

## Known gaps that no property covers

They are listed as hazards in `PROJECT.json`: memory replaced by notes computed before an await (`stores/notes.svelte.ts`); a record over the quota that is
marked again and skipped for the flight; the overtaken cursor of a swept account; and a reset that is decided in one transaction while the wake
snapshot it outdates is discarded in another, so that a newer snapshot may go (`Wakes`' `Discard` takes any).

## Plan

1. `NotesMemory`: memory, IndexedDB and journal of one device across the awaits of `applyPulledSnapshot`.
2. `Pairing`, with an ideal key agreement; `RateLimit`.
3. `SyncDevices`: quota answers, attachments, several windows.
