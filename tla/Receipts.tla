-------------------------------- MODULE Receipts --------------------------------
(***************************************************************************)
(* Reminder receipts: which reminders have been shown and dismissed.  Each *)
(* device keeps what it knows, a queue of what to upload and a cursor; the *)
(* relay keeps one sealed row per note, replaced as a whole, and a marker  *)
(* for every note deleted for good.                                        *)
(*                                                                         *)
(* What is known of a reminder is Unknown, Shown, or the time of its first *)
(* dismissal; two opinions meet in the one that says more.                 *)
(***************************************************************************)
EXTENDS Naturals, FiniteSets, FiniteSetsExt

CONSTANTS
    Devices,
    Wakes,          \* reminders: wake ids
    NoteOf,         \* the note each belongs to
    FiredAt,        \* when each was due: distinct times, of a note's wakes
    Times,          \* times of dismissal
    PerNote,        \* RECEIPTS_PER_NOTE
    Batch,          \* REMINDER_BATCH_SIZE, of uploads and of pages
    MaxRows,        \* rows an account has room for
    MaxActs,        \* bound: things users do
    MaxFailures     \* bound: requests, answers, windows and accounts lost

ASSUME WakesAssumption == IsFiniteSet(Wakes) /\ FiredAt \in [Wakes -> Nat] /\ Times \subseteq Nat
ASSUME LimitsAssumption == {PerNote, Batch, MaxRows} \subseteq Nat \ {0}

Notes == { NoteOf[w] : w \in Wakes }
WakesOf(n) == { w \in Wakes : NoteOf[w] = n }

Unknown == 0
Shown == 1
Known == {Unknown, Shown} \cup { 2 + t : t \in Times }
Opinion == [Wakes -> Known]

VARIABLES
    rows,       \* the relay's rows of the account, one per note at most,
    nextSeq,    \* and the last sequence number given
    entries,    \* what each device knows, in IndexedDB with
    pending,    \* the events queued for upload,
    deleted,    \* the notes it knows to be deleted,
    cursor,     \* and its place in the relay's rows
    flight,     \* its exchange
    slept,      \* ghost: its cursor is of rows that a sweep has taken
    acts, failures

relay == <<rows, nextSeq>>
channel == <<entries, pending, deleted, cursor>>
vars == <<relay, channel, flight, slept, acts, failures>>

-----------------------------------------------------------------------------
(* Merging what is known.                                                  *)

\* Every fact is kept, and of two dismissals the first.
MergeEntries(x, y) ==
    IF x > Shown /\ y > Shown THEN (IF x < y THEN x ELSE y)
    ELSE IF x > y THEN x ELSE y

Nothing == [w \in Wakes |-> Unknown]

\* A note's latest receipts.
Latest(known, n) ==
    { w \in WakesOf(n) : known[w] # Unknown
        /\ Cardinality({ v \in WakesOf(n) : known[v] # Unknown /\ FiredAt[v] > FiredAt[w] }) < PerNote }

\* Deleted notes have no receipts, the others their latest ones.
MergeHistory(mine, theirs, gone) ==
    LET all == [w \in Wakes |-> MergeEntries(mine[w], theirs[w])]
    IN  [w \in Wakes |->
            IF NoteOf[w] \notin gone /\ w \in Latest(all, NoteOf[w]) THEN all[w] ELSE Unknown]

NoteReceipts(known, n) == [w \in Wakes |-> IF NoteOf[w] = n THEN known[w] ELSE Unknown]

HasReceipts(known, n) == NoteReceipts(known, n) # Nothing

\* An event marks its note for upload; equal events are queued once.
Handled(w, x) == [kind |-> "handled", note |-> NoteOf[w], what |-> <<w, x>>]
DeletedEvent(n) == [kind |-> "deleted", note |-> n, what |-> <<>>]

\* One event for each note with receipts.
EveryNote(known) ==
    { Handled(w, known[w]) : w \in { v \in Wakes : known[v] # Unknown
        /\ \A u \in WakesOf(NoteOf[v]) : known[u] # Unknown => FiredAt[u] <= FiredAt[v] } }

\* Queued receipts of deleted notes are dropped.
Undeleted(events, gone) == { e \in events : e.kind = "deleted" \/ e.note \notin gone }

NoFlight == [stage |-> "idle", cursor |-> 0, upload |-> {}, sent |-> {}, more |-> FALSE,
             page |-> {}, next |-> 0, hasMore |-> FALSE, reset |-> FALSE]

Init ==
    /\ rows = {} /\ nextSeq = 0
    /\ entries = [d \in Devices |-> Nothing]
    /\ pending = [d \in Devices |-> {}]
    /\ deleted = [d \in Devices |-> {}]
    /\ cursor = [d \in Devices |-> 0]
    /\ flight = [d \in Devices |-> NoFlight]
    /\ slept = [d \in Devices |-> FALSE]
    /\ acts = 0 /\ failures = 0

-----------------------------------------------------------------------------
(* What happens on a device.  Every change is one IndexedDB transaction.   *)

\* recordFired, recordDismissed: a receipt that says something new is kept and queued.
Record(d, w, x) ==
    LET says == [Nothing EXCEPT ![w] = x] IN
    /\ acts < MaxActs
    /\ NoteOf[w] \notin deleted[d]
    /\ MergeEntries(entries[d][w], x) # entries[d][w]
    /\ entries' = [entries EXCEPT ![d] = MergeHistory(@, says, deleted[d])]
    /\ pending' = [pending EXCEPT ![d] = Undeleted(@, deleted[d]) \cup {Handled(w, x)}]
    /\ acts' = acts + 1
    /\ UNCHANGED <<relay, deleted, cursor, flight, slept, failures>>

\* forgetNotes: the note is deleted for good.  The relay is told when the device knows
\* of receipts.
ForgetNote(d, n) ==
    LET known == HasReceipts(entries[d], n) \/ \E e \in pending[d] : e.note = n
        gone == deleted[d] \cup {n} IN
    /\ acts < MaxActs
    /\ n \notin deleted[d]
    /\ deleted' = [deleted EXCEPT ![d] = gone]
    /\ entries' = [entries EXCEPT ![d] = MergeHistory(@, Nothing, gone)]
    /\ pending' = [pending EXCEPT ![d] =
            Undeleted(@, gone) \cup (IF known THEN {DeletedEvent(n)} ELSE {})]
    /\ acts' = acts + 1
    /\ UNCHANGED <<relay, cursor, flight, slept, failures>>

-----------------------------------------------------------------------------
(* An exchange.                                                            *)

\* What is uploaded for a note is all the device knows of it.
Packet(d, n) ==
    [note |-> n, deleted |-> n \in deleted[d],
     known |-> IF n \in deleted[d] THEN Nothing ELSE NoteReceipts(entries[d], n)]

\* prepare: the rows of some queued notes, and the events they answer.
Prepare(d) ==
    LET queued == { e.note : e \in pending[d] }
        size == IF Cardinality(queued) < Batch THEN Cardinality(queued) ELSE Batch IN
    /\ flight[d].stage = "idle"
    /\ \E notes \in kSubset(size, queued) :
        flight' = [flight EXCEPT ![d] =
            [NoFlight EXCEPT
                !.stage = "sent", !.cursor = cursor[d],
                !.upload = { p \in { Packet(d, n) : n \in notes } : p.deleted \/ p.known # Nothing },
                !.sent = { e \in pending[d] : e.note \in notes },
                !.more = Cardinality(queued) > Batch]]
    /\ UNCHANGED <<relay, channel, slept, acts, failures>>

RowOf(n) == { r \in rows : r.note = n }

LatestSeq == IF rows = {} THEN 0 ELSE Max({ r.seq : r \in rows })

\* The relay has fewer rows than the device has seen: it lost them.
Check(d) ==
    LET f == flight[d] IN
    /\ f.stage = "sent"
    /\ flight' = [flight EXCEPT ![d] =
            IF f.cursor > LatestSeq THEN [f EXCEPT !.stage = "answered", !.reset = TRUE]
            ELSE [f EXCEPT !.stage = "checked"]]
    /\ UNCHANGED <<relay, channel, slept, acts, failures>>

\* There is room for the note's row next to the others.
Fits(n) == Cardinality(rows \ RowOf(n)) < MaxRows

\* Mutant of Unseen: what the uploader has not seen is replaced.
NothingUnseen(n, seen) == FALSE

\* The note's row is newer than the uploader has seen.
Unseen(n, seen) == \E r \in RowOf(n) : r.seq > seen

\* The live row gives way to a deletion, or to a row whose sender has seen it.
Replaced(p, seen) ==
    { r \in RowOf(p.note) :
        ~r.deleted /\ (p.deleted \/ (Fits(p.note) /\ ~Unseen(p.note, seen))) }

\* Mutant of Inserted: next to a row that stays.
InsertedAnyway(p, seen) == Fits(p.note)

Inserted(p, seen) == RowOf(p.note) = Replaced(p, seen) /\ Fits(p.note)

\* Dropped on purpose, or this page's to deliver; anything else did not fit.
Kept(p, seen) == \E r \in RowOf(p.note) : r.deleted \/ r.seq > seen

\* One uploaded row, in one transaction; a full account ends the exchange.
WriteRow(d) ==
    LET f == flight[d] IN
    /\ f.stage = "checked"
    /\ \E p \in f.upload :
        LET left == rows \ Replaced(p, f.cursor)
            row == [note |-> p.note, seq |-> nextSeq + 1, deleted |-> p.deleted, known |-> p.known]
            full == ~Inserted(p, f.cursor) /\ ~p.deleted /\ ~Kept(p, f.cursor) IN
        /\ IF Inserted(p, f.cursor)
           THEN rows' = left \cup {row} /\ nextSeq' = nextSeq + 1
           ELSE rows' = left /\ nextSeq' = nextSeq
        /\ flight' = [flight EXCEPT ![d] = IF full THEN NoFlight ELSE [f EXCEPT !.upload = @ \ {p}]]
    /\ UNCHANGED <<channel, slept, acts, failures>>

\* The answer: the first rows past the device's cursor.
ReadPage(d) ==
    LET f == flight[d]
        new == { r \in rows : r.seq > f.cursor }
        page == { r \in new : Cardinality({ s \in new : s.seq < r.seq }) < Batch } IN
    /\ f.stage = "checked" /\ f.upload = {}
    /\ flight' = [flight EXCEPT ![d] =
            [f EXCEPT !.stage = "answered", !.page = page, !.hasMore = page # new,
                      !.next = IF page = {} THEN f.cursor ELSE Max({ r.seq : r \in page })]]
    /\ UNCHANGED <<relay, channel, slept, acts, failures>>

\* resetChannel: everything known is queued for a relay that starts over.
ResetChannel(d) ==
    /\ flight[d].stage = "answered" /\ flight[d].reset
    /\ cursor' = [cursor EXCEPT ![d] = 0]
    /\ pending' = [pending EXCEPT ![d] = @ \cup EveryNote(entries[d])]
    /\ flight' = [flight EXCEPT ![d] = NoFlight]
    /\ slept' = [slept EXCEPT ![d] = FALSE]
    /\ UNCHANGED <<relay, entries, deleted, acts, failures>>

Pulled(page) ==
    [w \in Wakes |->
        IF \E r \in page : r.note = NoteOf[w] /\ ~r.deleted
        THEN (CHOOSE r \in page : r.note = NoteOf[w]).known[w] ELSE Unknown]

\* What a row lacks is sent again: a deletion, or all this device knows of the note.
Answers(d, page, merged) ==
    { DeletedEvent(r.note) : r \in { s \in page : ~s.deleted /\ s.note \in deleted[d] } }
    \cup { e \in EveryNote(merged) :
            \E r \in page : /\ r.note = e.note /\ ~r.deleted /\ r.note \notin deleted[d]
                            /\ NoteReceipts(merged, r.note) # r.known }

\* withoutAcknowledged: what was queued since the upload was prepared stays queued.
Acknowledged(events, f) == events \ f.sent

\* Mutant of Receive: what other devices' rows lack is not sent again.
ReceiveUnanswered(d) ==
    LET f == flight[d]
        gone == deleted[d] \cup { r.note : r \in { s \in f.page : s.deleted } }
        merged == MergeHistory(entries[d], Pulled(f.page), gone) IN
    /\ f.stage = "answered" /\ ~f.reset
    /\ entries' = [entries EXCEPT ![d] = merged]
    /\ deleted' = [deleted EXCEPT ![d] = gone]
    /\ pending' = [pending EXCEPT ![d] = Undeleted(Acknowledged(@, f), gone)]
    /\ cursor' = [cursor EXCEPT ![d] = IF f.next > @ THEN f.next ELSE @]
    /\ flight' = [flight EXCEPT ![d] = NoFlight]
    /\ UNCHANGED <<relay, slept, acts, failures>>

\* receive: merge the page, take what was sent off the queue and queue the answers.
Receive(d) ==
    LET f == flight[d]
        gone == deleted[d] \cup { r.note : r \in { s \in f.page : s.deleted } }
        merged == MergeHistory(entries[d], Pulled(f.page), gone)
        answers == Answers(d, f.page, merged) IN
    /\ f.stage = "answered" /\ ~f.reset
    /\ entries' = [entries EXCEPT ![d] = merged]
    /\ deleted' = [deleted EXCEPT ![d] = gone]
    /\ pending' = [pending EXCEPT ![d] = Undeleted(Acknowledged(@, f) \cup answers, gone)]
    /\ cursor' = [cursor EXCEPT ![d] = IF f.next > @ THEN f.next ELSE @]
    /\ flight' = [flight EXCEPT ![d] = NoFlight]
    /\ UNCHANGED <<relay, slept, acts, failures>>

\* A request or an answer is lost, or the window is closed.
Fail(d) ==
    /\ failures < MaxFailures /\ flight[d].stage # "idle"
    /\ failures' = failures + 1
    /\ flight' = [flight EXCEPT ![d] = NoFlight]
    /\ UNCHANGED <<relay, channel, slept, acts>>

\* Nobody has asked for long: the sweep deletes the account, and its rows with it.
\* Sequence numbers go on where they were.
Sweep ==
    /\ failures < MaxFailures /\ rows # {}
    /\ \A d \in Devices : flight[d].stage = "idle"
    /\ failures' = failures + 1
    /\ rows' = {}
    /\ slept' = [d \in Devices |-> slept[d] \/ cursor[d] > 0]
    /\ UNCHANGED <<nextSeq, channel, flight, acts>>

-----------------------------------------------------------------------------
Exchange(d) ==
    Prepare(d) \/ Check(d) \/ WriteRow(d) \/ ReadPage(d) \/ ResetChannel(d) \/ Receive(d)

UserStep(d) ==
    \/ \E w \in Wakes, x \in Known \ {Unknown} : Record(d, w, x)
    \/ \E n \in Notes : ForgetNote(d, n)

Next ==
    \/ Sweep
    \/ \E d \in Devices : Exchange(d) \/ UserStep(d) \/ Fail(d)

Spec == Init /\ [][Next]_vars

\* The app is opened again and again, and each time it exchanges.
FairSpec == Spec /\ \A d \in Devices : WF_vars(Exchange(d))

-----------------------------------------------------------------------------
(* Properties.                                                             *)

Packets == [note : Notes, deleted : BOOLEAN, known : Opinion]

\* Every variable holds a value of its kind, and a note has one row.
TypeOK ==
    /\ \A r \in rows : /\ r.note \in Notes /\ r.seq \in 1 .. nextSeq /\ r.known \in Opinion
                       /\ RowOf(r.note) = {r}
    /\ entries \in [Devices -> Opinion]
    /\ deleted \in [Devices -> SUBSET Notes]
    /\ cursor \in [Devices -> 0 .. nextSeq]
    /\ \A d \in Devices : flight[d].upload \subseteq Packets

\* x says no more than what y, and of y only the latest, leaves of it.
Within(x, y, n) ==
    LET both == MergeHistory(NoteReceipts(x, n), y, {})
    IN  NoteReceipts(both, n) = NoteReceipts(y, n)

\* The relay's row has all that the device knows of the note.
AtRelay(d, n) == \E r \in RowOf(n) : r.deleted \/ Within(entries[d], r.known, n)

\* The cursor of a device that slept through a sweep has been overtaken by new rows: it
\* is taken for a place among them.
Overtaken(d) == slept[d] /\ cursor[d] <= LatestSeq

\* What a device knows of a note and the relay does not is queued, or in the way of a
\* row the device has yet to see and will answer, or the device will find that the
\* relay starts over.
Unsent(d, n) ==
    /\ HasReceipts(entries[d], n) /\ ~AtRelay(d, n)
    /\ \A e \in pending[d] : e.note # n
    /\ ~Unseen(n, cursor[d])
    /\ cursor[d] <= LatestSeq

\* Whatever is lost on the way, and whatever two devices upload at once, no receipt is
\* left behind on a device.
NothingUnsent == \A d \in Devices, n \in Notes : Unsent(d, n) => Overtaken(d)

\* The same after a sweep: the device uploads again what the relay has lost.
SentAfterSweep == \A d \in Devices, n \in Notes : ~Unsent(d, n)

\* Replacing a note's row takes nothing from it but receipts that newer ones push out.
RelayKeeps ==
    [][ \A r \in rows : \A s \in rows' :
          r.note = s.note /\ r # s => ~r.deleted /\ (s.deleted \/ Within(r.known, s.known, r.note)) ]_vars

\* With no more receipts, all devices come to know the same of a note: nothing once
\* one of them knows of its deletion.
Agreed ==
    \A d, e \in Devices, n \in Notes :
        IF n \in deleted[d] THEN ~HasReceipts(entries[e], n)
        ELSE NoteReceipts(entries[d], n) = NoteReceipts(entries[e], n)

Converges == <>[](Agreed \/ \E d \in Devices : Overtaken(d))
===============================================================================
