------------------------------ MODULE SyncDevices ------------------------------
(***************************************************************************)
(* The devices of one account and its relay: the sync loop of              *)
(* sync.svelte.ts with the outbox of idb.ts and the notes store around it. *)
(*                                                                         *)
(* A record is a note or its tombstone.  What a note says is a set of      *)
(* edits, so that merging two copies is their union and a lost edit shows. *)
(* A device syncs in flights; a flight is a loop of rounds, and between    *)
(* the awaits of a round the user goes on editing, other devices sync, and *)
(* the connection or the device may fail.                                  *)
(***************************************************************************)
EXTENDS Integers, Sequences, FiniteSets, FiniteSetsExt, SequencesExt

CONSTANTS
    Devices,
    Notes,
    Edits,          \* the edits users will make, each once
    Doomed,         \* the notes users may delete forever
    Starts,         \* notes each device may start with
    NoId,           \* no version known
    PageRows,       \* rows of one page
    UploadBudget,   \* uploads and deletions of one round
    UserActsAt,     \* where a device's flight stands when its user acts
    Replaced,       \* devices whose notes were carried to a new key, so that none is queued
    CrashWhileBurying,
    MaxFailures,    \* bound: lost requests or answers, errors and crashes
    MaxForgets,     \* bound: times the account is swept and created again
    MaxVersions     \* bound: versions written, never reached

NoteKey(n) == <<"note", n>>
TombstoneKey(n) == <<"note-tombstone", n>>
Keys == { NoteKey(n) : n \in Notes } \cup { TombstoneKey(n) : n \in Notes }

Version == [slot : Keys, number : 1 .. MaxVersions]

INSTANCE RelayRules WITH
    Slots <- Keys,
    Ids <- Version,
    SlotOf <- [v \in Version |-> v.slot],
    Size <- [v \in Version |-> 0],
    PageBytes <- 0

Stages == {"idle", "snapped", "ready", "answered", "pulled", "marked"}

ASSUME BudgetAssumption == UploadBudget \in Nat \ {0} /\ PageRows \in Nat \ {0}
ASSUME UserAssumption == UserActsAt \subseteq Stages /\ Replaced \subseteq Devices
ASSUME CrashAssumption == CrashWhileBurying \in BOOLEAN
ASSUME RecordsAssumption == IsFiniteSet(Notes) /\ NoId \notin Version
ASSUME BoundsAssumption == {MaxFailures, MaxForgets, MaxVersions} \subseteq Nat

VARIABLES
    rows,           \* the relay: the account's rows,
    clock,          \* its last sequence number,
    body,           \* what each row says (sealed: only devices read it),
    written,        \* and the number of versions written so far
    local,          \* each device's records: memory and IndexedDB
    outbox,         \* its outbox: which keys are marked, and when
    burying,        \* notes whose tombstone is stored and not yet queued
    control,        \* its durable baseline, record ids and cursor
    flight,         \* its sync in flight
    made,           \* edits made so far
    failures, forgets,
    shared          \* what the relay has ever held (of no effect)

relay == <<rows, clock, body, written, shared>>
device == <<local, outbox, burying, control>>
bounds == <<made, failures, forgets>>
vars == <<relay, device, flight, bounds>>

-----------------------------------------------------------------------------
(* Records.  {} is the content of a record that does not exist.            *)

Origin == "made"
Dead == "deleted"

NoRecords == [k \in Keys |-> {}]
NoIds == [k \in Keys |-> NoId]

Tombstoned(records, n) == records[TombstoneKey(n)] # {}

WithoutTombstoned(records) ==
    [k \in Keys |->
        IF k[1] = "note" /\ Tombstoned(records, k[2]) THEN {} ELSE records[k]]

\* Mutant of MergeRecords: a device that has a copy keeps it and takes none.
KeepOwnRecords(mine, theirs) ==
    WithoutTombstoned([k \in Keys |-> IF mine[k] # {} THEN mine[k] ELSE theirs[k]])

MergeRecords(mine, theirs) == WithoutTombstoned([k \in Keys |-> mine[k] \cup theirs[k]])

CurrentRecordKeys(records) == { k \in Keys : records[k] # {} }

\* Keys whose rows the relay can drop: notes that have a tombstone.
PlanDeletableKeys(ids, records) ==
    { NoteKey(n) : n \in { m \in Notes : ids[NoteKey(m)] # NoId /\ Tombstoned(records, m) } }

(***************************************************************************)
(* A mark in the outbox holds the generation it was made at.  All a flight *)
(* tells of it is whether it is as old as the flight's reading of the      *)
(* outbox ("queued"), the flight's own ("internal"), or a user's since     *)
(* either of them ("later").                                               *)
(***************************************************************************)
Marks == {"none", "queued", "internal", "later"}

MarkOf(stage) == IF stage \in {"idle", "snapped"} THEN "queued" ELSE "later"

OldMarks(marks) == [k \in Keys |-> IF marks[k] = "none" THEN "none" ELSE "queued"]

MarkedKeys(marks) == { k \in Keys : marks[k] # "none" }

\* What slice(0, n) may take of a collection whose order means nothing.
Slices(S, n) == kSubset(IF n <= Cardinality(S) THEN n ELSE Cardinality(S), S)

NoFlight ==
    [ stage |-> "idle", merged |-> NoRecords, baseline |-> NoRecords, ids |-> NoIds,
      cursor |-> 0, firstFullUpload |-> FALSE, outboxKeys |-> {}, acknowledged |-> {},
      internal |-> {}, drained |-> FALSE, startedDrained |-> FALSE, current |-> {},
      sent |-> NoIds, deletable |-> {}, moreChanged |-> FALSE,
      reply |-> NoReply, remote |-> NoRecords ]

\* Notes made on the device are queued; those a new key was given for are not.
Init ==
    /\ rows = {} /\ clock = 0 /\ body = NoRecords /\ written = 0 /\ shared = NoRecords
    /\ \E start \in Starts : local = [d \in Devices |-> [k \in Keys |->
                    IF \E n \in start[d] : k = NoteKey(n) THEN {Origin} ELSE {}]]
    /\ outbox = [d \in Devices |-> [k \in Keys |->
                    IF d \notin Replaced /\ local[d][k] # {} THEN "queued" ELSE "none"]]
    /\ burying = [d \in Devices |-> {}]
    /\ control = [d \in Devices |-> [baseline |-> NoRecords, ids |-> NoIds, cursor |-> 0]]
    /\ flight = [d \in Devices |-> NoFlight]
    /\ made = {} /\ failures = 0 /\ forgets = 0

-----------------------------------------------------------------------------
(* The user.                                                               *)

UserActs(d) == flight[d].stage \in UserActsAt

\* A note's id is fresh when it is made.
Unheard(n) ==
    /\ shared[NoteKey(n)] = {}
    /\ \A d \in Devices : local[d][NoteKey(n)] = {} /\ ~Tombstoned(local[d], n)

\* putNote: the note and its mark land in one IndexedDB transaction.
Edit(d, n, e) ==
    LET k == NoteKey(n) IN
    /\ UserActs(d) /\ e \notin made
    /\ local[d][k] # {} \/ Unheard(n)
    /\ local' = [local EXCEPT ![d][k] = @ \cup {e}]
    /\ outbox' = [outbox EXCEPT ![d][k] = MarkOf(flight[d].stage)]
    /\ made' = made \cup {e}
    /\ UNCHANGED <<relay, burying, control, flight, failures, forgets>>

\* deleteNoteForever stores the tombstone and drops the note ...
DeleteNoteForever(d, n) ==
    /\ UserActs(d) /\ n \in Doomed /\ local[d][NoteKey(n)] # {}
    /\ local' = [local EXCEPT ![d][NoteKey(n)] = {}, ![d][TombstoneKey(n)] = {Dead}]
    /\ burying' = [burying EXCEPT ![d] = @ \cup {n}]
    /\ UNCHANGED <<relay, outbox, control, flight, bounds>>

\* ... and then queues the tombstone, in a write of its own.
QueueTombstone(d, n) ==
    /\ n \in burying[d]
    /\ outbox' = [outbox EXCEPT ![d][TombstoneKey(n)] = MarkOf(flight[d].stage)]
    /\ burying' = [burying EXCEPT ![d] = @ \ {n}]
    /\ UNCHANGED <<relay, local, control, flight, bounds>>

-----------------------------------------------------------------------------
(* A sync in flight.                                                       *)

\* doSyncLocked takes a copy of the device's records ...
TakeSnapshot(d) ==
    /\ flight[d].stage = "idle"
    /\ flight' = [flight EXCEPT ![d] = [NoFlight EXCEPT !.stage = "snapped", !.merged = local[d]]]
    /\ UNCHANGED <<relay, device, bounds>>

\* Mutant of ReadControl: the outbox is emptied as it is read.
DrainOutbox(d) ==
    LET own == control[d]
        first == own.baseline = NoRecords IN
    /\ flight[d].stage = "snapped"
    /\ outbox' = [outbox EXCEPT ![d] = [k \in Keys |-> "none"]]
    /\ flight' = [flight EXCEPT ![d] =
            [@ EXCEPT !.stage = "ready", !.baseline = own.baseline, !.ids = own.ids,
                      !.firstFullUpload = first, !.cursor = IF first THEN 0 ELSE own.cursor,
                      !.outboxKeys = MarkedKeys(outbox[d])]]
    /\ UNCHANGED <<relay, local, burying, control, bounds>>

\* ... and sync reads the control state and the outbox after that.
ReadControl(d) ==
    LET own == control[d]
        first == own.baseline = NoRecords IN
    /\ flight[d].stage = "snapped"
    /\ flight' = [flight EXCEPT ![d] =
            [@ EXCEPT !.stage = "ready", !.baseline = own.baseline, !.ids = own.ids,
                      !.firstFullUpload = first, !.cursor = IF first THEN 0 ELSE own.cursor,
                      !.outboxKeys = MarkedKeys(outbox[d])]]
    /\ UNCHANGED <<relay, device, bounds>>

\* Uploads wait until every download is in.
UploadKeys(f) ==
    IF ~f.drained THEN {}
    ELSE IF f.firstFullUpload THEN CurrentRecordKeys(f.merged)
    ELSE f.outboxKeys \cap CurrentRecordKeys(f.merged)

ChangedRecords(f) == { k \in UploadKeys(f) : f.merged[k] # f.baseline[k] }

\* One request and its answer.  The request depends on nothing that changes
\* while it travels, so the relay serves it in the step that sends it.
Round(d) ==
    LET f == flight[d]
        changed == ChangedRecords(f) IN
    /\ f.stage = "ready"
    /\ \E outgoing \in Slices(changed, UploadBudget) :
       \E deletable \in Slices(PlanDeletableKeys(f.ids, f.merged),
                              UploadBudget - Cardinality(outgoing)) :
        /\ written + Cardinality(outgoing) <= MaxVersions
        /\ LET order == SetToSeq(outgoing)
               id(i) == [slot |-> order[i], number |-> written + i]
               batch == [ uploads |-> [i \in DOMAIN order |->
                            [slot |-> order[i], id |-> id(i), expected |-> f.ids[order[i]],
                             continues |-> FALSE]],
                          deletions |-> {[slot |-> k, id |-> f.ids[k]] : k \in deletable} ]
               reply == Answer(rows, clock, f.cursor, batch)
               shown == reply.page \cup reply.conflicts IN
           /\ IF reply.kind = "done"
              THEN /\ rows' = RowsAfter(rows, clock, batch)
                   /\ clock' = reply.cursor
                   /\ written' = written + Len(order)
                   /\ body' = [k \in Keys |->
                                 IF k \in outgoing THEN f.merged[k]
                                 ELSE IF \E r \in rows' : r.slot = k THEN body[k] ELSE {}]
                   /\ shared' = [k \in Keys |-> shared[k] \cup body'[k]]
              ELSE UNCHANGED relay
           /\ flight' = [flight EXCEPT ![d] =
                [@ EXCEPT !.stage = "answered", !.startedDrained = f.drained,
                          !.current = CurrentRecordKeys(f.merged),
                          !.sent = [k \in Keys |-> IF \E i \in DOMAIN order : order[i] = k
                                    THEN id(CHOOSE i \in DOMAIN order : order[i] = k) ELSE NoId],
                          !.deletable = deletable,
                          !.moreChanged = Cardinality(changed) > UploadBudget,
                          !.reply = [reply EXCEPT !.page = shown, !.conflicts = {}],
                          !.remote = [k \in Keys |->
                                IF \E r \in shown : r.slot = k THEN body[k] ELSE {}]]]
    /\ UNCHANGED <<device, bounds>>

\* The relay has fewer versions than the device has seen: start over.
StartOver(d) ==
    LET f == flight[d] IN
    /\ f.stage = "answered" /\ f.reply.kind = "reset"
    /\ flight' = [flight EXCEPT ![d] =
            [@ EXCEPT !.stage = "ready", !.baseline = NoRecords, !.ids = NoIds, !.cursor = 0,
                      !.reply = NoReply, !.sent = NoIds, !.deletable = {}]]
    /\ UNCHANGED <<relay, device, bounds>>

SentKeys(f) == { k \in Keys : f.sent[k] # NoId }

RemoteKeys(f) == { k \in Keys : f.remote[k] # {} }

\* Mutant of IdsAfter: refused uploads count as the relay's versions.
IdsAfterAnyAnswer(f) ==
    [k \in Keys |->
        IF k \in SentKeys(f) THEN f.sent[k]
        ELSE IF k \in RemoteKeys(f) THEN (CHOOSE r \in f.reply.page : r.slot = k).id
        ELSE IF k \in f.deletable THEN NoId ELSE f.ids[k]]

\* The ids of the versions the relay now holds, as far as the answer tells.
IdsAfter(f) ==
    [k \in Keys |->
        IF k \in RemoteKeys(f) THEN (CHOOSE r \in f.reply.page : r.slot = k).id
        ELSE IF ~f.reply.writesAccepted THEN f.ids[k]
        ELSE IF k \in SentKeys(f) THEN f.sent[k]
        ELSE IF k \in f.deletable THEN NoId ELSE f.ids[k]]

\* Mutant of Lands: what conflicts bring after the last page never lands.
LandsOnce(f) == ~f.reply.hasMore /\ ~f.startedDrained

\* Pulled records land on the device with the last page, and with conflicts.
Lands(f) == ~f.reply.hasMore /\ (~f.startedDrained \/ RemoteKeys(f) # {})

\* Merge what came, and once everything is in, what the user did meanwhile.
ApplyPulled(d) ==
    LET f == flight[d]
        merged == MergeRecords(f.merged, f.remote)
        drained == ~f.reply.hasMore
        apply == Lands(f)
        pulled == IF apply THEN MergeRecords(local[d], merged) ELSE merged IN
    /\ f.stage = "answered" /\ f.reply.kind # "reset"
    /\ local' = [local EXCEPT ![d] = IF apply THEN pulled ELSE @]
    /\ flight' = [flight EXCEPT ![d] =
            [@ EXCEPT !.stage = "pulled", !.merged = pulled, !.ids = IdsAfter(f), !.reply.page = {},
                      !.cursor = f.reply.cursor, !.drained = drained,
                      !.current = f.current \cup RemoteKeys(f),
                      !.acknowledged = f.acknowledged \cup
                        (IF f.reply.writesAccepted THEN f.deletable ELSE {})]]
    /\ UNCHANGED <<relay, outbox, burying, control, bounds>>

-----------------------------------------------------------------------------
(* What the flight now knows the relay to hold.                            *)

\* Mutant of Uploaded: what was sent counts as held, accepted or not.
UploadedAnyway(f) == SentKeys(f)

\* An accepted round brings nothing, so what was sent is what the device merged.
Uploaded(f) == IF f.reply.writesAccepted THEN SentKeys(f) ELSE {}

\* A merge that differs from the relay's copy has to be sent.
DirtyKeys(f) ==
    { k \in RemoteKeys(f) : f.merged[k] # {} /\ f.merged[k] # f.remote[k] }

ReconciledBaseline(f) ==
    [k \in Keys |->
        IF f.merged[k] = {} THEN {}
        ELSE IF k \in DirtyKeys(f) THEN f.remote[k]
        ELSE IF k \in Uploaded(f) \cup RemoteKeys(f) THEN f.merged[k] ELSE f.baseline[k]]

\* The keys to send are marked as an edit would mark them.
MarkDirty(d) ==
    LET f == flight[d]
        dirty == DirtyKeys(f) IN
    /\ f.stage = "pulled"
    /\ outbox' = [outbox EXCEPT ![d] =
            [k \in Keys |-> IF k \in dirty THEN "internal" ELSE @[k]]]
    /\ flight' = [flight EXCEPT ![d] =
            [@ EXCEPT !.stage = "marked", !.baseline = ReconciledBaseline(f), !.remote = NoRecords,
                      !.acknowledged = f.acknowledged \cup Uploaded(f) \cup (RemoteKeys(f) \ dirty),
                      !.outboxKeys = f.outboxKeys \cup dirty,
                      !.internal = f.internal \cup dirty]]
    /\ UNCHANGED <<relay, local, burying, control, bounds>>

\* Queued keys that need no upload: gone, or held by the relay as they are.
SettledKeys(f) ==
    { k \in f.outboxKeys :
        \/ k \notin f.current
        \/ f.ids[k] # NoId /\ f.merged[k] # {} /\ f.merged[k] = f.baseline[k] }

Acknowledged(f) == f.acknowledged \cup SettledKeys(f)

\* commitSyncControl takes an acknowledged key's mark unless it is newer than
\* the flight's reading of the outbox and than the flight's own mark.
Cleared(f, marks) ==
    [k \in Keys |->
        IF /\ k \in Acknowledged(f)
           /\ marks[k] = "queued" \/ (marks[k] = "internal" /\ k \in f.internal)
        THEN "none" ELSE marks[k]]

\* Mutant of HasMore: a full upload asks for another round whatever has gone before.
HasMoreWhileFull(f, acknowledged) ==
    f.reply.hasMore \/ f.firstFullUpload \/ f.moreChanged \/ f.outboxKeys \ acknowledged # {}

HasMore(f, acknowledged) ==
    \/ f.reply.hasMore
    \/ ~f.startedDrained /\ (f.firstFullUpload \/ f.outboxKeys \ acknowledged # {})
    \/ ~f.reply.writesAccepted /\ (SentKeys(f) # {} \/ f.deletable # {})
    \/ f.moreChanged
    \/ f.drained /\ PlanDeletableKeys(f.ids, f.merged) # {}

\* The next round of the flight, or none.
Continued(f, acknowledged) ==
    IF HasMore(f, acknowledged)
    THEN [f EXCEPT !.stage = "ready", !.acknowledged = acknowledged,
                   !.internal = IF f.drained THEN @ \ acknowledged ELSE @,
                   !.reply = NoReply, !.current = {}, !.startedDrained = FALSE,
                   !.sent = NoIds, !.deletable = {}, !.moreChanged = FALSE]
    ELSE NoFlight

\* Mutant of NextPage: the cursor is committed page by page.
CommitCursorOfPage(d) ==
    LET f == flight[d] IN
    /\ f.stage = "marked" /\ ~f.drained
    /\ control' = [control EXCEPT ![d].cursor = f.cursor]
    /\ flight' = [flight EXCEPT ![d] = Continued(f, f.acknowledged)]
    /\ UNCHANGED <<relay, local, outbox, burying, bounds>>

\* The next page is asked for before anything is committed.
NextPage(d) ==
    LET f == flight[d] IN
    /\ f.stage = "marked" /\ ~f.drained
    /\ flight' = [flight EXCEPT ![d] = Continued(f, f.acknowledged)]
    /\ UNCHANGED <<relay, device, bounds>>

\* Cursor, baseline, ids and acknowledgements land in one IndexedDB transaction.
CommitSyncControl(d) ==
    LET f == flight[d]
        next == Continued(f, Acknowledged(f))
        marks == Cleared(f, outbox[d]) IN
    /\ f.stage = "marked" /\ f.drained
    /\ control' = [control EXCEPT ![d] =
            [baseline |-> f.baseline, ids |-> f.ids, cursor |-> f.cursor]]
    /\ outbox' = [outbox EXCEPT ![d] = IF next = NoFlight THEN OldMarks(marks) ELSE marks]
    /\ flight' = [flight EXCEPT ![d] = next]
    /\ UNCHANGED <<relay, local, burying, bounds>>

-----------------------------------------------------------------------------
(* Failures and the rest of the world.                                     *)

\* The request or its answer is lost, or the flight ends with an error.
Fail(d) ==
    /\ failures < MaxFailures /\ flight[d].stage # "idle"
    /\ failures' = failures + 1
    /\ flight' = [flight EXCEPT ![d] = NoFlight]
    /\ outbox' = [outbox EXCEPT ![d] = OldMarks(@)]
    /\ UNCHANGED <<relay, local, burying, control, made, forgets>>

\* The app is killed and started again: only what IndexedDB holds remains.
Crash(d) ==
    /\ failures < MaxFailures
    /\ CrashWhileBurying \/ burying[d] = {}
    /\ failures' = failures + 1
    /\ burying' = [burying EXCEPT ![d] = {}]
    /\ flight' = [flight EXCEPT ![d] = NoFlight]
    /\ outbox' = [outbox EXCEPT ![d] = OldMarks(@)]
    /\ UNCHANGED <<relay, local, control, made, forgets>>

\* The retention sweep deletes the account and a device recreates it.
Forget ==
    /\ forgets < MaxForgets
    /\ rows' = {} /\ clock' = 0 /\ body' = NoRecords
    /\ forgets' = forgets + 1
    /\ UNCHANGED <<written, shared, device, flight, made, failures>>

-----------------------------------------------------------------------------
FlightStep(d) ==
    \/ TakeSnapshot(d) \/ ReadControl(d) \/ Round(d) \/ StartOver(d)
    \/ ApplyPulled(d) \/ MarkDirty(d) \/ NextPage(d) \/ CommitSyncControl(d)

UserStep(d) ==
    \E n \in Notes :
        \/ \E e \in Edits : Edit(d, n, e)
        \/ DeleteNoteForever(d, n)
        \/ QueueTombstone(d, n)

Next == Forget \/ \E d \in Devices : FlightStep(d) \/ UserStep(d) \/ Fail(d) \/ Crash(d)

Spec == Init /\ [][Next]_vars

\* A device is opened again and again, each time it syncs, and a flight goes on
\* until it ends or fails.
Fairness ==
    \A d \in Devices :
        /\ WF_vars(FlightStep(d))
        /\ WF_vars(\E n \in Notes : QueueTombstone(d, n))

FairSpec == Spec /\ Fairness

-----------------------------------------------------------------------------
(* Properties.                                                             *)

Records == [Keys -> SUBSET (Edits \cup {Origin, Dead})]

\* Every variable holds a value of its kind.
TypeOK ==
    /\ rows \subseteq Row /\ Numbered(rows, clock)
    /\ body \in Records /\ shared \in Records
    /\ local \in [Devices -> Records]
    /\ outbox \in [Devices -> [Keys -> Marks]]
    /\ burying \in [Devices -> SUBSET Notes]
    /\ \A d \in Devices :
        /\ control[d].baseline \in Records
        /\ control[d].ids \in [Keys -> Version \cup {NoId}]
        /\ control[d].cursor \in Nat
        /\ flight[d].stage \in Stages
        /\ flight[d].merged \in Records

\* Somebody has deleted the note: what it says no longer matters.
GoneForGood(k) == k[1] = "note" /\ \E d \in Devices : Tombstoned(local[d], k[2])

\* What a device has and the relay never held is on its way: marked in the
\* outbox, about to be, or due because nothing was ever uploaded.  A failure at
\* this very moment loses nothing.
NothingStranded ==
    \A d \in Devices, k \in Keys :
        ~(local[d][k] \subseteq shared[k]) =>
            \/ outbox[d][k] # "none"
            \/ control[d].baseline = NoRecords
            \/ k[1] = "note-tombstone" /\ k[2] \in burying[d]
            \/ GoneForGood(k)

\* A device's cursor never passes a row it has not merged.
NothingSkipped ==
    \A d \in Devices, r \in rows :
        r.seq <= control[d].cursor =>
            body[r.slot] \subseteq local[d][r.slot] \/ GoneForGood(r.slot)

\* Of every row its cursor has passed, a device knows the version the relay
\* holds, and takes for the relay's copy nothing but what that version says.
KnowsWhatIsHeld ==
    \A d \in Devices, r \in rows :
        r.seq <= control[d].cursor =>
            /\ control[d].ids[r.slot] = r.id
            /\ control[d].baseline[r.slot] \in {{}, body[r.slot]}

\* A write never takes from a record what another device put there, and a
\* record goes only when a device has its tombstone.
NoLostUpdate ==
    [][ forgets' = forgets =>
          \A k \in Keys : body[k] \subseteq body'[k] \/ GoneForGood(k) ]_vars

\* A flight ends, whatever other devices write while it goes on.
FlightsEnd == \A d \in Devices : flight[d].stage # "idle" ~> flight[d].stage = "idle"

\* With no more edits, every device and the relay come to hold the same.
Settled == \A d \in Devices : local[d] = body
Converges == <>[]Settled
===============================================================================
