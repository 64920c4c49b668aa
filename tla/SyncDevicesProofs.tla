-------------------------- MODULE SyncDevicesProofs --------------------------
(***************************************************************************)
(* The safety of the sync loop for any devices, notes, edits, failures,    *)
(* page sizes and budgets, with users acting at any stage of a flight: as  *)
(* long as the account is not swept, no device's cursor passes a row it    *)
(* has not merged, a device knows the version of every row its cursor has  *)
(* passed, and no write takes from a record what another device put there; *)
(* and when users act between flights, nothing is stranded on a device,    *)
(* sweeps or no.                                                           *)
(*                                                                         *)
(* Typed is what the variables hold whatever happens; Sound is what makes  *)
(* the flights right, and falls with the first sweep, after which a cursor *)
(* may be ahead of the account's rows, or level with rows it never met.    *)
(* Safe, for what is still to be sent, speaks of all the relay ever held   *)
(* and so survives sweeps.                                                 *)
(***************************************************************************)
EXTENDS SyncDevices, SetFacts

-----------------------------------------------------------------------------
(* The inductive invariant.                                                *)

IdMap == [Keys -> Version \cup {NoId}]

Control == [baseline : Records, ids : IdMap, cursor : Nat]

Answers == [ kind : {"none", "reset", "page", "conflict", "done"}, cursor : Nat,
             page : SUBSET Row, conflicts : SUBSET Row,
             hasMore : BOOLEAN, writesAccepted : BOOLEAN ]

Flight ==
    [ stage : Stages, merged : Records, baseline : Records, ids : IdMap, cursor : Nat,
      firstFullUpload : BOOLEAN, outboxKeys : SUBSET Keys, acknowledged : SUBSET Keys,
      internal : SUBSET Keys, drained : BOOLEAN, startedDrained : BOOLEAN,
      current : SUBSET Keys, sent : IdMap, deletable : SUBSET Keys, moreChanged : BOOLEAN,
      reply : Answers, remote : Records ]

\* The records an answer brings are rows of its page.
Shown(f) == f.stage = "answered" => \A k \in RemoteKeys(f) : \E r \in f.reply.page : r.slot = k

\* The versions written so far are numbered from 1, and live rows are among them.
RowsWritten == \A r \in rows : r.id.number <= written

Typed ==
    /\ rows \subseteq Row /\ clock \in Nat /\ Numbered(rows, clock)
    /\ written \in Nat /\ RowsWritten
    /\ body \in Records /\ shared \in Records
    /\ local \in [Devices -> Records]
    /\ outbox \in [Devices -> [Keys -> Marks]]
    /\ burying \in [Devices -> SUBSET Notes]
    /\ control \in [Devices -> Control]
    /\ flight \in [Devices -> Flight] /\ \A d \in Devices : Shown(flight[d])
    /\ forgets \in Nat

\* What a row says is never nothing, and only rows say something.
RowsSpeak == \A k \in Keys : body[k] # {} <=> \E r \in rows : r.slot = k

Gone == { k \in Keys : GoneForGood(k) }

\* A record with a tombstone has only the tombstone.
Clean(records) == \A n \in Notes : Tombstoned(records, n) => records[NoteKey(n)] = {}

\* Tombstones come from devices, which keep them.
Heard(records, gone) == \A n \in Notes : Tombstoned(records, n) => NoteKey(n) \in gone

Within(a, b, gone) == \A k \in Keys : a[k] \subseteq b[k] \/ k \in gone

\* The records have what the rows up to the cursor say.
Has(rs, b, gone, cursor, records) ==
    \A r \in rs : r.seq <= cursor => b[r.slot] \subseteq records[r.slot] \/ r.slot \in gone

\* Of the rows up to the cursor: the ids are the live ones, and the baseline
\* has nothing or what the row says.
Knows(rs, b, cursor, ids, baseline) ==
    \A r \in rs : r.seq <= cursor =>
        ids[r.slot] = r.id /\ baseline[r.slot] \in {{}, b[r.slot]}

\* After an answer, the flight's account of the content of a row.
Tells(f, k, content) ==
    IF k \in RemoteKeys(f) THEN f.remote[k] = content
    ELSE IF k \in Uploaded(f) THEN f.merged[k] = content
    ELSE f.baseline[k] \in {{}, content}

Told(rs, b, cursor, ids, f) ==
    \A r \in rs : r.seq <= cursor => ids[r.slot] = r.id /\ Tells(f, r.slot, b[r.slot])

Merged(f) == [k \in Keys |-> f.merged[k] \cup f.remote[k]]

\* A round that uploads brings nothing and ends the download.
AnswerOK(f, rs, b, gone) ==
    /\ f.reply.kind # "reset" /\ f.startedDrained = f.drained
    /\ f.reply.writesAccepted /\ SentKeys(f) # {} =>
            f.drained /\ RemoteKeys(f) = {} /\ ~f.reply.hasMore
    /\ Has(rs, b, gone, f.reply.cursor, Merged(f))
    /\ Told(rs, b, f.reply.cursor, IdsAfter(f), f)

FlightOK(f, cursor, mine, rs, b, gone) ==
    /\ f.stage \in {"idle", "snapped"} => ~f.drained
    /\ Clean(f.merged) /\ Heard(f.merged, gone) /\ Heard(f.remote, gone)
    /\ f.drained => Within(f.merged, mine, gone)
    /\ f.stage = "snapped" => Has(rs, b, gone, cursor, f.merged)
    /\ f.stage \in {"ready", "marked"} =>
            Has(rs, b, gone, f.cursor, f.merged) /\ Knows(rs, b, f.cursor, f.ids, f.baseline)
    /\ f.stage = "answered" => AnswerOK(f, rs, b, gone)
    /\ f.stage = "pulled" =>
            Has(rs, b, gone, f.cursor, f.merged) /\ Told(rs, b, f.cursor, f.ids, f)

\* No cursor is ahead of the account.
Behind(f, cursor, last) == cursor <= last /\ f.cursor <= last /\ f.reply.cursor <= last

DeviceOK(d) ==
    /\ Clean(local[d])
    /\ Has(rows, body, Gone, control[d].cursor, local[d])
    /\ Knows(rows, body, control[d].cursor, control[d].ids, control[d].baseline)
    /\ Behind(flight[d], control[d].cursor, clock)
    /\ FlightOK(flight[d], control[d].cursor, local[d], rows, body, Gone)

Sound == RowsSpeak /\ Heard(body, Gone) /\ \A d \in Devices : DeviceOK(d)

IInv == Typed /\ (forgets = 0 => Sound)
-----------------------------------------------------------------------------
(* Keys and sets.                                                           *)

\* A key is a note's or a tombstone's, of one note.
LEMMA KeyFacts ==
    /\ \A n \in Notes : NoteKey(n) \in Keys /\ TombstoneKey(n) \in Keys
    /\ \A n : /\ NoteKey(n)[1] = "note" /\ NoteKey(n)[2] = n
              /\ TombstoneKey(n)[1] # "note" /\ TombstoneKey(n)[2] = n
    /\ \A m, n : NoteKey(m) # TombstoneKey(n)
    /\ \A k \in Keys : k[1] = "note" => k[2] \in Notes /\ k = NoteKey(k[2])
    /\ \A k \in Keys : k[1] # "note" => k[2] \in Notes /\ k = TombstoneKey(k[2])
BY DEF Keys, NoteKey, TombstoneKey

LEMMA KeysFinite == IsFiniteSet(Keys)
<1> DEFINE notes == { NoteKey(n) : n \in Notes }
           tombstones == { TombstoneKey(n) : n \in Notes }
           f == [n \in Notes |-> NoteKey(n)]
           g == [n \in Notes |-> TombstoneKey(n)]
<1>1. f \in Surjection(Notes, notes) /\ g \in Surjection(Notes, tombstones)
  BY DEF Surjection
<1>2. IsFiniteSet(notes) /\ IsFiniteSet(tombstones)
  BY <1>1, RecordsAssumption, FS_Surjection
<1> HIDE DEF notes, tombstones
<1>3. IsFiniteSet(notes \cup tombstones)
  BY <1>2, FS_Union
<1>4. Keys = notes \cup tombstones
  BY DEF Keys, notes, tombstones
<1> QED
  BY <1>3, <1>4

\* A slice of a set is a part of it.
LEMMA SliceIn == ASSUME NEW S, NEW n, NEW T \in Slices(S, n) PROVE T \subseteq S
BY DEF Slices, kSubset

\* The order a set is sent in names each member once.
Orders(order, S, n) ==
    /\ n \in Nat /\ order \in [1 .. n -> S] /\ n = Cardinality(S)
    /\ \A i, j \in 1 .. n : order[i] = order[j] => i = j
    /\ \A k \in S : \E i \in 1 .. n : order[i] = k

LEMMA SetToSeqOrders ==
    ASSUME NEW S, IsFiniteSet(S)
    PROVE  Orders(SetToSeq(S), S, Cardinality(S))
<1> DEFINE n == Cardinality(S)
           order == SetToSeq(S)
<1>1. n \in Nat /\ ExistsBijection(1 .. n, S)
  BY FS_CardinalityType
<1>2. \E f \in [1 .. n -> S] : IsInjective(f)
  BY <1>1 DEF ExistsBijection, Bijection, Injection
<1>3. order \in [1 .. n -> S] /\ IsInjective(order)
  BY <1>2 DEF SetToSeq
<1> HIDE DEF order
<1>4. order \in Injection(1 .. n, S)
  BY <1>3 DEF Injection
<1>5. Cardinality(1 .. n) = n
  BY <1>1, FS_Interval
<1> HIDE DEF n
<1>6. order \in Surjection(1 .. n, S)
  BY <1>4, <1>5, FS_Injection DEF n
<1>7. \A k \in S : \E i \in 1 .. n : order[i] = k
  BY <1>6 DEF Surjection
<1>8. \A i, j \in 1 .. n : order[i] = order[j] => i = j
  BY <1>3 DEF IsInjective
<1> QED
  BY <1>1, <1>3, <1>7, <1>8 DEF Orders, n, order

-----------------------------------------------------------------------------
(* Pages.                                                                   *)

LEMMA RowsFinite ==
    ASSUME NEW rs \in SUBSET Row, NEW last \in Nat, Numbered(rs, last)
    PROVE  IsFiniteSet(rs)
<1> DEFINE f == [r \in rs |-> r.seq]
<1>1. f \in Injection(rs, 1 .. last)
  BY DEF Injection, IsInjective, Numbered, RowsNumbered, Row
<1>2. IsFiniteSet(1 .. last)
  BY FS_Interval
<1> QED
  BY <1>1, <1>2, FS_Injection

\* The page of an account with rows after the cursor: some rows, and of those
\* up to the last of them all that the cursor has not passed.
PageIs(rs, cursor, last, page) ==
    /\ page \subseteq rs
    /\ LastSeq(page) \in Nat /\ LastSeq(page) <= last /\ LastSeq(page) > cursor
    /\ \A r \in rs : r.seq <= LastSeq(page) => r.seq <= cursor \/ r \in page

LEMMA NoBytes == ASSUME NEW rs \in SUBSET Row PROVE BytesOf(rs) = 0
<1>1. \A r \in rs : {r} \X (1 .. [v \in Version |-> 0][r.id]) = {}
  BY DEF Row
<1>2. BytesIn(rs) = {}
  BY <1>1 DEF BytesIn
<1> QED
  BY <1>2, FS_EmptySet DEF BytesOf

LEMMA PageFacts ==
    ASSUME NEW rs \in SUBSET Row, NEW last \in Nat, Numbered(rs, last),
           NEW cursor \in Nat, After(rs, cursor) # {}
    PROVE  PageIs(rs, cursor, last, Page(rs, cursor))
<1> DEFINE ahead == After(rs, cursor)
           page == Page(rs, cursor)
           seqs == { r.seq : r \in page }
           past == { last - s : s \in seqs }
<1>1. ahead \subseteq rs /\ page \subseteq ahead /\ \A r \in ahead : r.seq > cursor /\ r \in Row
  BY DEF After, Page
<1>2. \A r \in rs : r.seq \in Nat \ {0} /\ r.seq <= last
  BY DEF Row, Numbered
<1>3. PICK first \in ahead : \A r \in ahead : first.seq <= r.seq
  <2> DEFINE T == { r.seq : r \in ahead }
  <2>1. T \in SUBSET Nat /\ T # {}
    BY <1>1, <1>2
  <2>2. PICK x \in T : \A y \in T : x <= y
    BY <2>1, LeastNatural
  <2> QED
    BY <2>2
<1>4. UpTo(ahead, first.seq) = {first}
  BY <1>1, <1>2, <1>3 DEF UpTo, Numbered, RowsNumbered
<1>5. Cardinality({first}) = 1
  BY FS_Singleton
<1>6. first \in page
  BY <1>3, <1>4, <1>5, BudgetAssumption DEF Page
<1>7. past \in SUBSET Nat /\ past # {}
  BY <1>1, <1>2, <1>6
<1>8. PICK x \in past : \A y \in past : x <= y
  <2> HIDE DEF past
  <2> QED
    BY <1>7, LeastNatural
<1>9. PICK s \in seqs : x = last - s
  OBVIOUS
<1>10. \A t \in seqs : s >= t
  <2>1. \A t \in seqs : last - t \in past /\ t \in Nat
    BY <1>1, <1>2
  <2> HIDE DEF seqs, past
  <2> QED
    BY <1>8, <1>9, <2>1
<1>11. LastSeq(page) \in seqs /\ \A t \in seqs : LastSeq(page) >= t
  <2> HIDE DEF page
  <2> QED
    BY <1>9, <1>10 DEF LastSeq, Max
<1>12. PICK end \in page : LastSeq(page) = end.seq
  BY <1>11
<1>13. end \in rs /\ end.seq > cursor /\ end.seq \in Nat /\ end.seq <= last
  BY <1>1, <1>2, <1>12
<1>14. ASSUME NEW r \in ahead, r.seq < end.seq PROVE r \in page
  <2>1. UpTo(ahead, r.seq) \subseteq UpTo(ahead, end.seq)
    BY <1>1, <1>2, <1>13, <1>14 DEF UpTo
  <2>2. IsFiniteSet(UpTo(ahead, end.seq))
    BY <1>1, RowsFinite, FS_Subset DEF UpTo
  <2>3. /\ Cardinality(UpTo(ahead, r.seq)) <= Cardinality(UpTo(ahead, end.seq))
        /\ Cardinality(UpTo(ahead, r.seq)) \in Nat
        /\ Cardinality(UpTo(ahead, end.seq)) \in Nat
    BY <2>1, <2>2, FS_Subset, FS_CardinalityType
  <2>4. Cardinality(UpTo(ahead, end.seq)) <= PageRows
    BY <1>12 DEF Page
  <2>5. BytesOf(UpTo(ahead, r.seq)) = 0
    BY <1>1, NoBytes DEF UpTo
  <2> QED
    BY <2>3, <2>4, <2>5, BudgetAssumption DEF Page
<1>15. ASSUME NEW r \in rs, r.seq <= end.seq, ~(r.seq <= cursor) PROVE r \in page
  <2>1. r \in ahead
    BY <1>2, <1>15 DEF After
  <2>2. CASE r.seq = end.seq
    BY <1>12, <1>13, <2>2 DEF Numbered, RowsNumbered
  <2>3. CASE r.seq < end.seq
    BY <1>14, <2>1, <2>3
  <2> QED
    BY <1>2, <1>13, <1>15, <2>2, <2>3
<1> QED
  BY <1>1, <1>12, <1>13, <1>15 DEF PageIs

-----------------------------------------------------------------------------
(* Writes.                                                                  *)

\* The batch a device sends, and the rows its uploads become.
BatchOf(order, n, w, ids, deletable) ==
    [ uploads |-> [i \in 1 .. n |->
         [slot |-> order[i], id |-> [slot |-> order[i], number |-> w + i],
          expected |-> ids[order[i]], continues |-> FALSE]],
      deletions |-> {[slot |-> k, id |-> ids[k]] : k \in deletable} ]

NewRow(order, w, last, i) ==
    [slot |-> order[i], id |-> [slot |-> order[i], number |-> w + i], seq |-> last + i]

\* What sending S in that order makes of the rows rs.
Writes(rs, last, w, order, S, n, ids, deletable, rs2) ==
    /\ \A r \in rs2 :
        \/ r \in rs /\ r.slot \notin S /\ ~(r.slot \in deletable /\ r.id = ids[r.slot])
        \/ \E i \in 1 .. n : r = NewRow(order, w, last, i)
    /\ \A i \in 1 .. n : NewRow(order, w, last, i) \in rs2
    /\ \A r \in rs : r.slot \notin S /\ r.slot \notin deletable => r \in rs2

NewRowsOf(rs, last, w, order, n, b) ==
    /\ NewRows(rs, last, b) = { NewRow(order, w, last, i) : i \in 1 .. n }
    /\ ClockAfter(rs, last, b) = last + n

LEMMA NewRowsAre ==
    ASSUME NEW rs, NEW last \in Nat, NEW w \in Nat, \A r \in rs : r.id.number <= w,
           NEW S \in SUBSET Keys, NEW n \in Nat, NEW order, Orders(order, S, n),
           NEW ids, NEW deletable
    PROVE  NewRowsOf(rs, last, w, order, n, BatchOf(order, n, w, ids, deletable))
<1> DEFINE b == BatchOf(order, n, w, ids, deletable)
<1>1. DOMAIN b.uploads = 1 .. n /\ \A i \in 1 .. n :
        /\ b.uploads[i].slot = order[i]
        /\ b.uploads[i].id = [slot |-> order[i], number |-> w + i]
  BY DEF BatchOf
<1>2. \A i \in 1 .. n, r \in rs : r.id # [slot |-> order[i], number |-> w + i]
  <2>1. \A i \in 1 .. n : ~(w + i <= w)
    OBVIOUS
  <2> QED
    BY <2>1
<1>3. FreshUploads(rs, b) = 1 .. n
  BY <1>1, <1>2 DEF FreshUploads
<1>4. \A i \in 1 .. n : Cardinality({ j \in 1 .. n : j <= i }) = i
  <2>1. ASSUME NEW i \in 1 .. n PROVE Cardinality({ j \in 1 .. n : j <= i }) = i
    <3>1. { j \in 1 .. n : j <= i } = 1 .. i
      OBVIOUS
    <3>2. Cardinality(1 .. i) = i
      BY FS_Interval
    <3> QED
      BY <3>1, <3>2
  <2> QED
    BY <2>1
<1>5. Cardinality(1 .. n) = n
  BY FS_Interval
<1> HIDE DEF b
<1>6. \A i \in 1 .. n :
        [ slot |-> b.uploads[i].slot, id |-> b.uploads[i].id,
          seq |-> last + Cardinality({ j \in 1 .. n : j <= i }) ] = NewRow(order, w, last, i)
  BY <1>1, <1>4 DEF NewRow
<1>7. NewRows(rs, last, b) = { NewRow(order, w, last, i) : i \in 1 .. n }
  BY <1>3, <1>6 DEF NewRows
<1>8. ClockAfter(rs, last, b) = last + n
  BY <1>3, <1>5 DEF ClockAfter
<1> QED
  BY <1>7, <1>8 DEF b, NewRowsOf

LEMMA WritesFollow ==
    ASSUME NEW rs \in SUBSET Row, NEW last \in Nat, NEW w \in Nat, \A r \in rs : r.id.number <= w,
           NEW S \in SUBSET Keys, NEW n \in Nat, NEW order, Orders(order, S, n),
           NEW ids, NEW deletable \in SUBSET Keys
    PROVE  Writes(rs, last, w, order, S, n, ids, deletable,
                  RowsAfter(rs, last, BatchOf(order, n, w, ids, deletable)))
<1> DEFINE b == BatchOf(order, n, w, ids, deletable)
           new == NewRows(rs, last, b)
           rs2 == RowsAfter(rs, last, b)
<1>1. new = { NewRow(order, w, last, i) : i \in 1 .. n }
  <2>1. NewRowsOf(rs, last, w, order, n, b)
    BY NewRowsAre
  <2> QED
    BY <2>1 DEF NewRowsOf
<1>2. \A r \in rs : r \in Deleted(rs, b.deletions) <=> r.slot \in deletable /\ r.id = ids[r.slot]
  BY DEF Deleted, BatchOf
<1> HIDE DEF b, new
<1>3. rs2 = { r \in rs \ Deleted(rs, b.deletions) : \A m \in new : m.slot # r.slot } \cup new
  BY DEF RowsAfter, new
<1> HIDE DEF rs2
<1>4. \A r : (\A m \in new : m.slot # r.slot) <=> r.slot \notin S
  <2>1. \A i \in 1 .. n : order[i] \in S /\ NewRow(order, w, last, i).slot = order[i]
    BY DEF Orders, NewRow
  <2>2. \A k \in S : \E i \in 1 .. n : order[i] = k
    BY DEF Orders
  <2> QED
    BY <1>1, <2>1, <2>2
<1>5. Writes(rs, last, w, order, S, n, ids, deletable, rs2)
  BY <1>1, <1>2, <1>3, <1>4 DEF Writes
<1> QED
  BY <1>5 DEF rs2, b

NewRowIs(r, k, w, last, i) ==
    /\ r \in Row /\ r.seq = last + i /\ r.slot = k
    /\ r.id = [slot |-> k, number |-> w + i] /\ r.id \in Version

LEMMA NewRowType ==
    ASSUME NEW last \in Nat, NEW w \in Nat, NEW S \in SUBSET Keys, NEW n \in Nat,
           w + n <= MaxVersions, NEW order, Orders(order, S, n), NEW i \in 1 .. n
    PROVE  NewRowIs(NewRow(order, w, last, i), order[i], w, last, i) /\ order[i] \in S
<1>1. MaxVersions \in Nat
  BY BoundsAssumption
<1>2. order[i] \in S /\ w + i \in 1 .. MaxVersions /\ last + i \in Nat \ {0}
  BY <1>1 DEF Orders
<1> QED
  BY <1>2 DEF NewRowIs, NewRow, Row, Version

\* Written rows are numbered on from the clock, their versions from the last.
LEMMA WrittenNumbered ==
    ASSUME NEW rs \in SUBSET Row, NEW last \in Nat, NEW w \in Nat, \A r \in rs : r.id.number <= w,
           Numbered(rs, last),
           NEW S \in SUBSET Keys, NEW n \in Nat, w + n <= MaxVersions, NEW order, Orders(order, S, n),
           NEW ids, NEW deletable, NEW rs2, Writes(rs, last, w, order, S, n, ids, deletable, rs2)
    PROVE  /\ rs2 \subseteq Row /\ Numbered(rs2, last + n)
           /\ \A r \in rs2 : r.id.number <= w + n
<1> DEFINE N(i) == NewRow(order, w, last, i)
<1>1. \A i \in 1 .. n : /\ N(i) \in Row /\ N(i).seq = last + i /\ N(i).slot = order[i]
                        /\ order[i] \in S /\ N(i).id.number = w + i
  <2>1. ASSUME NEW i \in 1 .. n
        PROVE  /\ N(i) \in Row /\ N(i).seq = last + i /\ N(i).slot = order[i]
               /\ order[i] \in S /\ N(i).id.number = w + i
    <3> DEFINE r == NewRow(order, w, last, i)
    <3>1. NewRowIs(r, order[i], w, last, i) /\ order[i] \in S
      BY NewRowType
    <3> QED
      BY <3>1 DEF NewRowIs
  <2> QED
    BY <2>1
<1>2. \A r \in rs2 : (r \in rs /\ r.slot \notin S) \/ \E i \in 1 .. n : r = N(i)
  BY DEF Writes
<1>3. \A r \in rs : r.seq \in Nat /\ r.seq <= last /\ r.id.number \in Nat
  BY DEF Row, Numbered, Version
<1> HIDE DEF N
<1>4. rs2 \subseteq Row
  BY <1>1, <1>2
<1>5. \A r \in rs2 : r.id.number <= w + n /\ r.seq <= last + n
  BY <1>1, <1>2, <1>3
<1>6. ASSUME NEW p \in rs2, NEW q \in rs2, p.slot = q.slot \/ p.id = q.id \/ p.seq = q.seq
      PROVE  p = q
  <2>1. CASE p \in rs /\ q \in rs
    BY <1>6, <2>1 DEF Numbered, RowsNumbered
  <2>2. ASSUME NEW i \in 1 .. n, NEW j \in 1 .. n, p = N(i), q = N(j) PROVE p = q
    <3>1. order[i] = order[j] \/ w + i = w + j \/ last + i = last + j
      BY <1>1, <1>6, <2>2
    <3>2. i \in Nat /\ j \in Nat /\ (order[i] = order[j] => i = j)
      BY DEF Orders
    <3>3. i = j
      BY <3>1, <3>2
    <3> QED
      BY <2>2, <3>3
  <2>3. ASSUME NEW i \in 1 .. n, NEW r \in rs, r.slot \notin S
        PROVE  N(i).slot # r.slot /\ N(i).id # r.id /\ N(i).seq # r.seq
    <3>1. N(i).seq > last /\ N(i).id.number > w
      BY <1>1
    <3> QED
      BY <1>1, <1>3, <2>3, <3>1
  <2> QED
    BY <1>2, <1>6, <2>1, <2>2, <2>3
<1> QED
  BY <1>4, <1>5, <1>6 DEF Numbered, RowsNumbered

-----------------------------------------------------------------------------
(* Records.                                                                 *)

LEMMA WithinMore ==
    ASSUME NEW a, NEW b, NEW c, NEW gone, NEW more, gone \subseteq more,
           Within(a, b, gone), Within(b, c, more)
    PROVE  Within(a, c, more)
BY DEF Within

LEMMA WithinSelf == ASSUME NEW a, NEW gone PROVE Within(a, a, gone)
BY DEF Within

\* Dropping the notes that have a tombstone drops only what is gone.
LEMMA WithoutTombstonedFacts ==
    ASSUME NEW a \in Records, NEW gone, Heard(a, gone)
    PROVE  LET m == WithoutTombstoned(a) IN
           /\ m \in Records /\ Clean(m) /\ Heard(m, gone) /\ Within(a, m, gone)
           /\ \A n \in Notes : m[TombstoneKey(n)] = a[TombstoneKey(n)]
<1> DEFINE m == WithoutTombstoned(a)
<1>1. m \in Records
  BY DEF WithoutTombstoned, Records
<1>2. \A n \in Notes : /\ m[TombstoneKey(n)] = a[TombstoneKey(n)]
                       /\ Tombstoned(a, n) => m[NoteKey(n)] = {}
  BY KeyFacts DEF WithoutTombstoned
<1>3. \A n \in Notes : Tombstoned(m, n) <=> Tombstoned(a, n)
  BY <1>2 DEF Tombstoned
<1>4. Clean(m) /\ Heard(m, gone)
  BY <1>2, <1>3 DEF Clean, Heard
<1>5. \A k \in Keys : m[k] = a[k] \/ (k[1] = "note" /\ Tombstoned(a, k[2]))
  BY DEF WithoutTombstoned
<1>6. Within(a, m, gone)
  BY <1>5, KeyFacts DEF Within, Heard
<1> QED
  BY <1>1, <1>2, <1>4, <1>6

\* What a merge of two records makes of them.
MergeIs(m, a, c, gone) ==
    /\ m \in Records /\ Clean(m) /\ Heard(m, gone)
    /\ Within(a, m, gone) /\ Within(c, m, gone)
    /\ Within([k \in Keys |-> a[k] \cup c[k]], m, gone)
    /\ \A n \in Notes : Tombstoned(a, n) \/ Tombstoned(c, n) => Tombstoned(m, n)

LEMMA MergeFacts ==
    ASSUME NEW a \in Records, NEW c \in Records, NEW gone, Heard(a, gone), Heard(c, gone)
    PROVE  MergeIs(MergeRecords(a, c), a, c, gone)
<1> DEFINE both == [k \in Keys |-> a[k] \cup c[k]]
           m == WithoutTombstoned(both)
<1>1. both \in Records /\ \A k \in Keys : both[k] = a[k] \cup c[k]
  BY DEF Records
<1>2. m = MergeRecords(a, c)
  BY DEF MergeRecords
<1> HIDE DEF both
<1>3. \A n \in Notes : Tombstoned(both, n) <=> Tombstoned(a, n) \/ Tombstoned(c, n)
  BY <1>1, KeyFacts DEF Tombstoned
<1>4. Heard(both, gone)
  BY <1>3 DEF Heard
<1>5. /\ m \in Records /\ Clean(m) /\ Heard(m, gone) /\ Within(both, m, gone)
      /\ \A n \in Notes : m[TombstoneKey(n)] = both[TombstoneKey(n)]
  BY <1>1, <1>4, WithoutTombstonedFacts
<1> HIDE DEF m
<1>6. Within(a, m, gone) /\ Within(c, m, gone)
  BY <1>1, <1>5 DEF Within
<1>7. \A n \in Notes : Tombstoned(a, n) \/ Tombstoned(c, n) => Tombstoned(m, n)
  BY <1>3, <1>5 DEF Tombstoned
<1> QED
  BY <1>2, <1>5, <1>6, <1>7 DEF MergeIs, both

\* Nothing merged into clean records leaves them as they are.
LEMMA MergeNothing ==
    ASSUME NEW a \in Records, Clean(a), NEW c, \A k \in Keys : c[k] = {}
    PROVE  MergeRecords(a, c) = a
<1> DEFINE both == [k \in Keys |-> a[k] \cup c[k]]
<1>1. both = a
  BY DEF Records
<1>2. \A k \in Keys : k[1] = "note" /\ Tombstoned(a, k[2]) => a[k] = {}
  BY KeyFacts DEF Clean
<1>3. WithoutTombstoned(a) = a
  BY <1>2 DEF WithoutTombstoned, Records
<1> QED
  BY <1>1, <1>3 DEF MergeRecords

-----------------------------------------------------------------------------
(* Rows that other devices write leave what a flight knows as it is.        *)

\* Each row is as it was, or newer than the clock.
Grown(rs, b, last, rs2, b2) ==
    \A r \in rs2 : (r \in rs /\ b2[r.slot] = b[r.slot]) \/ r.seq > last

LEMMA HasKept ==
    ASSUME NEW rs, NEW b, NEW last \in Nat, NEW rs2 \in SUBSET Row, NEW b2, Grown(rs, b, last, rs2, b2),
           NEW gone, NEW more, gone \subseteq more, NEW cursor \in Nat, cursor <= last,
           NEW a, NEW c, Within(a, c, more), Has(rs, b, gone, cursor, a)
    PROVE  Has(rs2, b2, more, cursor, c)
<1>1. ASSUME NEW r \in rs2, r.seq <= cursor
      PROVE  b2[r.slot] \subseteq c[r.slot] \/ r.slot \in more
  <2>1. r.seq \in Nat /\ r.slot \in Keys
    BY DEF Row
  <2>2. r \in rs /\ b2[r.slot] = b[r.slot]
    BY <1>1, <2>1 DEF Grown
  <2> QED
    BY <1>1, <2>1, <2>2 DEF Has, Within
<1> QED
  BY <1>1 DEF Has

LEMMA KnowsKept ==
    ASSUME NEW rs, NEW b, NEW last \in Nat, NEW rs2 \in SUBSET Row, NEW b2, Grown(rs, b, last, rs2, b2),
           NEW cursor \in Nat, cursor <= last, NEW ids, NEW baseline, Knows(rs, b, cursor, ids, baseline)
    PROVE  Knows(rs2, b2, cursor, ids, baseline)
<1>1. ASSUME NEW r \in rs2, r.seq <= cursor
      PROVE  ids[r.slot] = r.id /\ baseline[r.slot] \in {{}, b2[r.slot]}
  <2>1. r.seq \in Nat
    BY DEF Row
  <2>2. r \in rs /\ b2[r.slot] = b[r.slot]
    BY <1>1, <2>1 DEF Grown
  <2> QED
    BY <1>1, <2>2 DEF Knows
<1> QED
  BY <1>1 DEF Knows

LEMMA ToldKept ==
    ASSUME NEW rs, NEW b, NEW last \in Nat, NEW rs2 \in SUBSET Row, NEW b2, Grown(rs, b, last, rs2, b2),
           NEW cursor \in Nat, cursor <= last, NEW ids, NEW f, Told(rs, b, cursor, ids, f)
    PROVE  Told(rs2, b2, cursor, ids, f)
<1>1. ASSUME NEW r \in rs2, r.seq <= cursor
      PROVE  ids[r.slot] = r.id /\ Tells(f, r.slot, b2[r.slot])
  <2>1. r.seq \in Nat
    BY DEF Row
  <2>2. r \in rs /\ b2[r.slot] = b[r.slot]
    BY <1>1, <2>1 DEF Grown
  <2> QED
    BY <1>1, <2>2 DEF Told
<1> QED
  BY <1>1 DEF Told

LEMMA FlightKept ==
    ASSUME NEW f \in Flight, NEW cursor \in Nat, NEW last \in Nat, Behind(f, cursor, last),
           NEW rs, NEW b, NEW rs2 \in SUBSET Row, NEW b2, Grown(rs, b, last, rs2, b2),
           NEW gone, NEW more, gone \subseteq more, NEW mine, NEW mine2, Within(mine, mine2, more),
           FlightOK(f, cursor, mine, rs, b, gone)
    PROVE  FlightOK(f, cursor, mine2, rs2, b2, more)
<1>1. f.cursor \in Nat /\ f.cursor <= last /\ f.reply.cursor \in Nat /\ f.reply.cursor <= last
      /\ cursor <= last
  BY DEF Behind, Flight, Answers
<1>2. Clean(f.merged) /\ Heard(f.merged, more) /\ Heard(f.remote, more)
  BY DEF FlightOK, Heard
<1>3. f.drained => Within(f.merged, mine2, more)
  BY WithinMore DEF FlightOK
<1>4. f.stage = "snapped" => Has(rs2, b2, more, cursor, f.merged)
  BY <1>1, HasKept, WithinSelf DEF FlightOK
<1>5. f.stage \in {"ready", "marked", "pulled"} => Has(rs2, b2, more, f.cursor, f.merged)
  BY <1>1, HasKept, WithinSelf DEF FlightOK
<1>6. f.stage \in {"ready", "marked"} => Knows(rs2, b2, f.cursor, f.ids, f.baseline)
  BY <1>1, KnowsKept DEF FlightOK
<1>7. f.stage = "pulled" => Told(rs2, b2, f.cursor, f.ids, f)
  BY <1>1, ToldKept DEF FlightOK
<1>8. f.stage = "answered" => AnswerOK(f, rs2, b2, more)
  <2>1. ASSUME f.stage = "answered" PROVE AnswerOK(f, rs2, b2, more)
    <3>1. AnswerOK(f, rs, b, gone)
      BY <2>1 DEF FlightOK
    <3>2. Has(rs2, b2, more, f.reply.cursor, Merged(f))
      BY <1>1, <3>1, HasKept, WithinSelf DEF AnswerOK
    <3>3. Told(rs2, b2, f.reply.cursor, IdsAfter(f), f)
      BY <1>1, <3>1, ToldKept DEF AnswerOK
    <3> QED
      BY <3>1, <3>2, <3>3 DEF AnswerOK
  <2> QED
    BY <2>1
<1> QED
  BY <1>2, <1>3, <1>4, <1>5, <1>6, <1>7, <1>8 DEF FlightOK

-----------------------------------------------------------------------------
(* Initial states.                                                          *)

LEMMA EmptyRecords ==
    /\ NoRecords \in Records /\ NoIds \in IdMap /\ \A k \in Keys : NoRecords[k] = {}
    /\ Clean(NoRecords) /\ \A gone : Heard(NoRecords, gone)
<1>1. NoRecords \in Records /\ NoIds \in IdMap /\ \A k \in Keys : NoRecords[k] = {}
  BY DEF NoRecords, NoIds, Records, IdMap
<1>2. \A n \in Notes : ~Tombstoned(NoRecords, n)
  BY <1>1, KeyFacts DEF Tombstoned
<1> QED
  BY <1>1, <1>2 DEF Clean, Heard

LEMMA NoReplyType == NoReply \in Answers /\ NoReply.cursor = 0 /\ NoReply.page = {}
BY DEF NoReply, Reply, Answers

\* A device that is not syncing knows nothing wrong.
LEMMA NoFlightFacts ==
    /\ NoFlight \in Flight /\ Shown(NoFlight) /\ NoFlight.stage = "idle"
    /\ \A cursor, mine, rs, b, gone : FlightOK(NoFlight, cursor, mine, rs, b, gone)
    /\ \A cursor, last : cursor \in Nat /\ last \in Nat /\ cursor <= last => Behind(NoFlight, cursor, last)
<1>1. NoFlight \in Flight
  BY EmptyRecords, NoReplyType DEF NoFlight, Flight, Stages
<1>2. /\ NoFlight.stage = "idle" /\ NoFlight.drained = FALSE /\ NoFlight.merged = NoRecords
      /\ NoFlight.remote = NoRecords /\ NoFlight.cursor = 0 /\ NoFlight.reply = NoReply
  BY DEF NoFlight
<1>3. Shown(NoFlight)
  BY <1>2 DEF Shown
<1>4. \A cursor, mine, rs, b, gone : FlightOK(NoFlight, cursor, mine, rs, b, gone)
  BY <1>2, EmptyRecords DEF FlightOK
<1>5. \A cursor, last : cursor \in Nat /\ last \in Nat /\ cursor <= last => Behind(NoFlight, cursor, last)
  BY <1>2, NoReplyType DEF Behind
<1> QED
  BY <1>1, <1>2, <1>3, <1>4, <1>5

LEMMA InitInv == ASSUME Init PROVE IInv
<1>1. PICK start \in Starts : local = [d \in Devices |-> [k \in Keys |->
                    IF \E n \in start[d] : k = NoteKey(n) THEN {Origin} ELSE {}]]
  BY DEF Init
<1>2. local \in [Devices -> Records]
  BY <1>1 DEF Records
<1>3. \A d \in Devices : Clean(local[d])
  <2>1. \A d \in Devices, n \in Notes : ~Tombstoned(local[d], n)
    BY <1>1, KeyFacts DEF Tombstoned
  <2> QED
    BY <2>1 DEF Clean
<1>4. outbox \in [Devices -> [Keys -> Marks]] /\ burying \in [Devices -> SUBSET Notes]
  BY DEF Init, Marks
<1>5. control \in [Devices -> Control]
      /\ \A d \in Devices : control[d].cursor = 0
  BY EmptyRecords DEF Init, Control
<1>6. flight = [d \in Devices |-> NoFlight]
  BY DEF Init
<1>7. rows = {} /\ clock = 0 /\ written = 0 /\ body = NoRecords /\ shared = NoRecords /\ forgets = 0
  BY DEF Init
<1>8. Typed
  <2>1. Numbered(rows, clock) /\ RowsWritten
    BY <1>7 DEF Numbered, RowsNumbered, RowsWritten
  <2>2. flight \in [Devices -> Flight] /\ \A d \in Devices : Shown(flight[d])
    BY <1>6, NoFlightFacts
  <2> QED
    BY <1>2, <1>4, <1>5, <1>7, <2>1, <2>2, EmptyRecords DEF Typed
<1>9. Sound
  <2>1. RowsSpeak /\ Heard(body, Gone)
    BY <1>7, EmptyRecords DEF RowsSpeak
  <2>2. ASSUME NEW d \in Devices PROVE DeviceOK(d)
    <3>1. \A gone : Has(rows, body, gone, control[d].cursor, local[d])
      BY <1>7 DEF Has
    <3>2. Knows(rows, body, control[d].cursor, control[d].ids, control[d].baseline)
      BY <1>7 DEF Knows
    <3>3. flight[d] = NoFlight /\ control[d].cursor = 0
      BY <1>5, <1>6
    <3>4. Behind(flight[d], control[d].cursor, clock)
      BY <1>7, <3>3, NoFlightFacts
    <3>5. FlightOK(flight[d], control[d].cursor, local[d], rows, body, Gone)
      BY <3>3, NoFlightFacts
    <3> QED
      BY <1>3, <3>1, <3>2, <3>4, <3>5 DEF DeviceOK
  <2> QED
    BY <2>1, <2>2 DEF Sound
<1> QED
  BY <1>8, <1>9 DEF IInv

-----------------------------------------------------------------------------
(* What a step of one device leaves as it is.                               *)

\* The flight of one device goes on to g.
LEMMA FlightGoesOn ==
    ASSUME Typed, NEW d \in Devices, NEW g \in Flight, Shown(g), flight' = [flight EXCEPT ![d] = g]
    PROVE  /\ flight' \in [Devices -> Flight] /\ \A e \in Devices : Shown(flight'[e])
           /\ flight'[d] = g /\ \A e \in Devices \ {d} : flight'[e] = flight[e]
<1>1. flight \in [Devices -> Flight] /\ \A e \in Devices : Shown(flight[e])
  BY DEF Typed
<1>2. /\ flight' \in [Devices -> Flight] /\ flight'[d] = g
      /\ \A e \in Devices \ {d} : flight'[e] = flight[e]
  BY <1>1
<1> QED
  BY <1>1, <1>2

\* Tombstones stay on the devices that have them.
TombstonesStay ==
    \A e \in Devices, n \in Notes : Tombstoned(local[e], n) => Tombstoned(local'[e], n)

LEMMA GoneGrows == ASSUME TombstonesStay PROVE Gone \subseteq Gone'
BY KeyFacts DEF TombstonesStay, Gone, GoneForGood

LEMMA OthersKept ==
    ASSUME Typed, Sound, Typed', NEW e \in Devices,
           control'[e] = control[e], flight'[e] = flight[e],
           Clean(local'[e]), Within(local[e], local'[e], Gone'), Gone \subseteq Gone',
           Grown(rows, body, clock, rows', body'), clock <= clock'
    PROVE  DeviceOK(e)'
<1> DEFINE cursor == control[e].cursor
           f == flight[e]
           gone == Gone
           more == Gone'
           mine == local[e]
           mine2 == local'[e]
<1>1. /\ Clean(mine) /\ Has(rows, body, gone, cursor, mine)
      /\ Knows(rows, body, cursor, control[e].ids, control[e].baseline)
      /\ Behind(f, cursor, clock) /\ FlightOK(f, cursor, mine, rows, body, gone)
  BY DEF Sound, DeviceOK
<1>2. /\ rows' \in SUBSET Row /\ clock \in Nat /\ clock' \in Nat /\ cursor \in Nat /\ f \in Flight
      /\ f.cursor \in Nat /\ f.reply.cursor \in Nat
  BY DEF Typed, Control, Flight, Answers
<1>3. cursor <= clock
  BY <1>1 DEF Behind
<1>4. Within(mine, mine2, more) /\ gone \subseteq more
  OBVIOUS
<1> HIDE DEF cursor, f, gone, more, mine, mine2
<1>5. Has(rows', body', more, cursor, mine2)
  BY <1>1, <1>2, <1>3, <1>4, HasKept
<1>6. Knows(rows', body', cursor, control[e].ids, control[e].baseline)
  BY <1>1, <1>2, <1>3, KnowsKept
<1>7. FlightOK(f, cursor, mine2, rows', body', more)
  BY <1>1, <1>2, <1>4, FlightKept
<1>8. Behind(f, cursor, clock')
  BY <1>1, <1>2 DEF Behind
<1> QED
  BY <1>5, <1>6, <1>7, <1>8 DEF DeviceOK, cursor, f, more, mine2

\* A step of one device is sound if it leaves the others what they know.
LEMMA StepSound ==
    ASSUME Typed, Sound, Typed', NEW d \in Devices,
           \A e \in Devices \ {d} :
                control'[e] = control[e] /\ flight'[e] = flight[e] /\ local'[e] = local[e],
           TombstonesStay, Grown(rows, body, clock, rows', body'), clock <= clock',
           RowsSpeak', Heard(body', Gone'), DeviceOK(d)'
    PROVE  Sound'
<1>1. ASSUME NEW e \in Devices \ {d} PROVE DeviceOK(e)'
  <2>1. Clean(local'[e])
    BY DEF Sound, DeviceOK
  <2>2. Within(local[e], local'[e], Gone')
    BY WithinSelf
  <2> QED
    BY <2>1, <2>2, OthersKept, GoneGrows
<1> QED
  BY <1>1 DEF Sound

LEMMA RowsStay ==
    ASSUME Typed, Sound, rows' = rows, body' = body, clock' = clock, TombstonesStay
    PROVE  /\ Grown(rows, body, clock, rows', body') /\ clock <= clock'
           /\ RowsSpeak' /\ Heard(body', Gone')
<1>1. Grown(rows, body, clock, rows', body')
  BY DEF Grown
<1>2. clock <= clock'
  BY DEF Typed
<1>3. RowsSpeak'
  BY DEF Sound, RowsSpeak
<1>4. Heard(body', Gone')
  BY GoneGrows DEF Sound, Heard
<1> QED
  BY <1>1, <1>2, <1>3, <1>4

\* A step of the user leaves flights and what was committed.
LEMMA UserSound ==
    ASSUME Typed, Sound, Typed', NEW d \in Devices, UNCHANGED <<rows, body, clock, control, flight>>,
           \A e \in Devices \ {d} : local'[e] = local[e],
           TombstonesStay, Clean(local'[d]), Within(local[d], local'[d], Gone')
    PROVE  Sound'
<1>1. /\ Grown(rows, body, clock, rows', body') /\ clock <= clock'
      /\ RowsSpeak' /\ Heard(body', Gone')
  BY RowsStay
<1>2. DeviceOK(d)'
  BY <1>1, OthersKept, GoneGrows
<1> QED
  BY <1>1, <1>2, StepSound

\* A step of a flight that changes nothing else a property is about.
LEMMA FlightSound ==
    ASSUME Typed, Sound, Typed', NEW d \in Devices, UNCHANGED <<rows, body, clock, control, local>>,
           \A e \in Devices \ {d} : flight'[e] = flight[e],
           Behind(flight'[d], control[d].cursor, clock),
           FlightOK(flight'[d], control[d].cursor, local[d], rows, body, Gone)
    PROVE  Sound'
<1>1. Gone' = Gone /\ TombstonesStay
  BY DEF Gone, GoneForGood, Tombstoned, TombstonesStay
<1>2. /\ Grown(rows, body, clock, rows', body') /\ clock <= clock'
      /\ RowsSpeak' /\ Heard(body', Gone')
  BY <1>1, RowsStay
<1>3. DeviceOK(d)'
  BY <1>1 DEF Sound, DeviceOK
<1> QED
  BY <1>1, <1>2, <1>3, StepSound

-----------------------------------------------------------------------------
(* The user's steps.                                                        *)

LEMMA EditInv ==
    ASSUME IInv, NEW d \in Devices, NEW n \in Notes, NEW e \in Edits, Edit(d, n, e)
    PROVE  IInv'
<1> DEFINE k == NoteKey(n)
           mine == [local[d] EXCEPT ![k] = @ \cup {e}]
<1>1. /\ local' = [local EXCEPT ![d] = mine]
      /\ outbox' = [outbox EXCEPT ![d][k] = MarkOf(flight[d].stage)]
      /\ UNCHANGED <<relay, burying, control, flight, failures, forgets>>
      /\ local[d][k] # {} \/ Unheard(n)
  BY DEF Edit, Typed, IInv
<1>2. k \in Keys /\ local[d] \in Records /\ outbox[d] \in [Keys -> Marks]
  BY KeyFacts DEF Typed, IInv
<1>3. mine \in Records
  BY <1>2 DEF Records
<1>4. Typed'
  <2>1. local' \in [Devices -> Records]
    BY <1>1, <1>3 DEF Typed, IInv
  <2>2. outbox' \in [Devices -> [Keys -> Marks]]
    BY <1>1, <1>2 DEF MarkOf, Marks, Typed, IInv
  <2> QED
    BY <1>1, <2>1, <2>2 DEF Typed, IInv, relay, RowsWritten
<1>5. /\ local'[d] = mine /\ \A c \in Devices \ {d} : local'[c] = local[c]
      /\ \A m \in Notes : mine[TombstoneKey(m)] = local[d][TombstoneKey(m)]
      /\ \A m \in Notes \ {n} : mine[NoteKey(m)] = local[d][NoteKey(m)]
  BY <1>1, <1>2, KeyFacts DEF Typed, IInv, Records
<1>6. TombstonesStay
  BY <1>5 DEF TombstonesStay, Tombstoned
<1>7. ASSUME Sound PROVE Sound'
  <2>1. ~Tombstoned(local[d], n)
    BY <1>1, <1>7 DEF Unheard, Sound, DeviceOK, Clean
  <2>2. Clean(mine)
    BY <1>5, <1>7, <2>1 DEF Sound, DeviceOK, Clean, Tombstoned
  <2>3. Within(local[d], mine, Gone')
    BY <1>2 DEF Within, Records
  <2> QED
    BY <1>1, <1>4, <1>5, <1>6, <1>7, <2>2, <2>3, UserSound DEF IInv, relay
<1> QED
  BY <1>1, <1>4, <1>7 DEF IInv

LEMMA DeleteInv ==
    ASSUME IInv, NEW d \in Devices, NEW n \in Notes, DeleteNoteForever(d, n)
    PROVE  IInv'
<1> DEFINE k == NoteKey(n)
           t == TombstoneKey(n)
           mine == [local[d] EXCEPT ![k] = {}, ![t] = {Dead}]
<1>1. /\ local' = [local EXCEPT ![d] = mine]
      /\ burying' = [burying EXCEPT ![d] = @ \cup {n}]
      /\ UNCHANGED <<relay, outbox, control, flight, bounds>>
  BY DEF DeleteNoteForever, Typed, IInv
<1>2. k \in Keys /\ t \in Keys /\ k # t /\ local[d] \in Records
  BY KeyFacts DEF Typed, IInv
<1>3. mine \in Records
  BY <1>2 DEF Records
<1>4. Typed'
  <2>1. local' \in [Devices -> Records]
    BY <1>1, <1>3 DEF Typed, IInv
  <2>2. burying' \in [Devices -> SUBSET Notes]
    BY <1>1 DEF Typed, IInv
  <2> QED
    BY <1>1, <2>1, <2>2 DEF Typed, IInv, relay, bounds, RowsWritten
<1>5. /\ local'[d] = mine /\ \A c \in Devices \ {d} : local'[c] = local[c]
      /\ mine[k] = {} /\ mine[t] # {}
      /\ \A m \in Notes \ {n} : /\ mine[NoteKey(m)] = local[d][NoteKey(m)]
                                /\ mine[TombstoneKey(m)] = local[d][TombstoneKey(m)]
      /\ \A c \in Keys \ {k} : local[d][c] \subseteq mine[c] \/ c = t
  <2>1. local'[d] = mine /\ \A c \in Devices \ {d} : local'[c] = local[c]
    BY <1>1 DEF Typed, IInv
  <2>2. mine[k] = {} /\ mine[t] = {Dead} /\ \A c \in Keys \ {k, t} : mine[c] = local[d][c]
    BY <1>2 DEF Records
  <2> HIDE DEF mine
  <2>3. \A m \in Notes \ {n} : NoteKey(m) \in Keys \ {k, t} /\ TombstoneKey(m) \in Keys \ {k, t}
    BY KeyFacts
  <2> QED
    BY <2>1, <2>2, <2>3
<1>6. TombstonesStay
  <2> HIDE DEF mine
  <2>1. \A m \in Notes : Tombstoned(local[d], m) => Tombstoned(mine, m)
    BY <1>5 DEF Tombstoned
  <2> QED
    BY <1>5, <2>1 DEF TombstonesStay
<1>7. ASSUME Sound PROVE Sound'
  <2>1. Clean(mine)
    BY <1>5, <1>7 DEF Sound, DeviceOK, Clean, Tombstoned
  <2>2. k \in Gone'
    BY <1>2, <1>5, KeyFacts DEF Gone, GoneForGood, Tombstoned
  <2>3. local[d][t] = {}
    BY <1>7 DEF DeleteNoteForever, Sound, DeviceOK, Clean, Tombstoned
  <2>4. Within(local[d], mine, Gone')
    BY <1>5, <2>2, <2>3 DEF Within
  <2> QED
    BY <1>1, <1>4, <1>5, <1>6, <1>7, <2>1, <2>4, UserSound DEF IInv, relay
<1> QED
  BY <1>1, <1>4, <1>7 DEF IInv, bounds

LEMMA QueueInv ==
    ASSUME IInv, NEW d \in Devices, NEW n \in Notes, QueueTombstone(d, n)
    PROVE  IInv'
<1>1. /\ outbox' = [outbox EXCEPT ![d][TombstoneKey(n)] = MarkOf(flight[d].stage)]
      /\ burying' = [burying EXCEPT ![d] = @ \ {n}]
      /\ UNCHANGED <<relay, local, control, flight, bounds>>
  BY DEF QueueTombstone
<1>2. outbox' \in [Devices -> [Keys -> Marks]] /\ burying' \in [Devices -> SUBSET Notes]
  BY <1>1, KeyFacts DEF MarkOf, Marks, Typed, IInv
<1>3. Typed'
  BY <1>1, <1>2 DEF Typed, IInv, relay, bounds, RowsWritten
<1>4. TombstonesStay
  BY <1>1 DEF TombstonesStay
<1>5. ASSUME Sound PROVE Sound'
  <2>1. Clean(local'[d]) /\ Within(local[d], local'[d], Gone')
    BY <1>1, <1>5, WithinSelf DEF Sound, DeviceOK
  <2> QED
    BY <1>1, <1>3, <1>4, <1>5, <2>1, UserSound DEF IInv, relay
<1> QED
  BY <1>1, <1>3, <1>5 DEF IInv, bounds

-----------------------------------------------------------------------------
(* A flight's own steps.                                                    *)

LEMMA TakeSnapshotInv ==
    ASSUME IInv, NEW d \in Devices, TakeSnapshot(d)
    PROVE  IInv'
<1> DEFINE g == [NoFlight EXCEPT !.stage = "snapped", !.merged = local[d]]
<1>1. flight' = [flight EXCEPT ![d] = g] /\ UNCHANGED <<relay, device, bounds>>
  BY DEF TakeSnapshot
<1>2. /\ g \in Flight /\ g.stage = "snapped" /\ g.merged = local[d] /\ g.remote = NoRecords
      /\ g.drained = FALSE /\ g.cursor = 0 /\ g.reply.cursor = 0
  <2>1. local[d] \in Records /\ NoFlight \in Flight
    BY NoFlightFacts DEF Typed, IInv
  <2>2. g \in Flight
    BY <2>1 DEF Flight, Stages
  <2>3. /\ g.stage = "snapped" /\ g.merged = local[d] /\ g.remote = NoRecords
        /\ g.drained = FALSE /\ g.cursor = 0 /\ g.reply = NoReply
    BY DEF NoFlight
  <2> QED
    BY <2>2, <2>3, NoReplyType
<1> HIDE DEF g
<1>3. /\ flight' \in [Devices -> Flight] /\ \A e \in Devices : Shown(flight'[e])
      /\ flight'[d] = g /\ \A e \in Devices \ {d} : flight'[e] = flight[e]
  BY <1>1, <1>2, FlightGoesOn DEF Shown, IInv
<1>4. Typed'
  BY <1>1, <1>3 DEF Typed, IInv, relay, device, bounds, RowsWritten
<1>5. ASSUME Sound PROVE Sound'
  <2>1. DeviceOK(d)
    BY <1>5 DEF Sound
  <2>2. Clean(g.merged) /\ Heard(g.merged, Gone) /\ Heard(g.remote, Gone)
    BY <1>2, <2>1, EmptyRecords, KeyFacts DEF DeviceOK, Heard, Gone, GoneForGood
  <2>3. FlightOK(g, control[d].cursor, local[d], rows, body, Gone)
    BY <1>2, <2>1, <2>2 DEF FlightOK, DeviceOK
  <2>4. Behind(g, control[d].cursor, clock)
    BY <1>2, <2>1 DEF Behind, DeviceOK, Typed, IInv
  <2> QED
    BY <1>1, <1>3, <1>4, <1>5, <2>3, <2>4, FlightSound DEF IInv, relay, device
<1> QED
  BY <1>1, <1>4, <1>5 DEF IInv, bounds

LEMMA ReadControlInv ==
    ASSUME IInv, NEW d \in Devices, ReadControl(d)
    PROVE  IInv'
<1> DEFINE f == flight[d]
           own == control[d]
           first == own.baseline = NoRecords
           g == [f EXCEPT !.stage = "ready", !.baseline = own.baseline, !.ids = own.ids,
                          !.firstFullUpload = first, !.cursor = IF first THEN 0 ELSE own.cursor,
                          !.outboxKeys = MarkedKeys(outbox[d])]
<1>0. f \in Flight /\ own \in Control /\ f.stage = "snapped"
  BY DEF Typed, IInv, ReadControl
<1>1. flight' = [flight EXCEPT ![d] = g] /\ UNCHANGED <<relay, device, bounds>>
  BY DEF ReadControl, Typed, IInv
<1>2. /\ g \in Flight /\ g.stage = "ready" /\ g.merged = f.merged /\ g.remote = f.remote
      /\ g.drained = f.drained /\ g.cursor \in {0, own.cursor} /\ g.reply = f.reply
      /\ g.ids = own.ids /\ g.baseline = own.baseline
  <2>1. first \in BOOLEAN /\ MarkedKeys(outbox[d]) \subseteq Keys
        /\ (IF first THEN 0 ELSE own.cursor) \in Nat
    BY <1>0 DEF MarkedKeys, Control
  <2>2. g \in Flight
    BY <1>0, <2>1 DEF Flight, Stages, Control
  <2>3. /\ g.stage = "ready" /\ g.merged = f.merged /\ g.remote = f.remote
        /\ g.drained = f.drained /\ g.cursor \in {0, own.cursor} /\ g.reply = f.reply
        /\ g.ids = own.ids /\ g.baseline = own.baseline
    BY <1>0 DEF Flight
  <2> QED
    BY <2>2, <2>3
<1> HIDE DEF g
<1>3. /\ flight' \in [Devices -> Flight] /\ \A e \in Devices : Shown(flight'[e])
      /\ flight'[d] = g /\ \A e \in Devices \ {d} : flight'[e] = flight[e]
  BY <1>1, <1>2, FlightGoesOn DEF Shown, IInv
<1>4. Typed'
  BY <1>1, <1>3 DEF Typed, IInv, relay, device, bounds, RowsWritten
<1>5. ASSUME Sound PROVE Sound'
  <2>1. /\ Has(rows, body, Gone, own.cursor, f.merged)
        /\ Knows(rows, body, own.cursor, own.ids, own.baseline)
        /\ Clean(f.merged) /\ Heard(f.merged, Gone) /\ Heard(f.remote, Gone) /\ ~f.drained
        /\ own.cursor <= clock /\ f.reply.cursor <= clock
    BY <1>0, <1>5 DEF Sound, DeviceOK, FlightOK, Behind
  <2>2. \A r \in rows : ~(r.seq <= 0)
    BY DEF Row, Typed, IInv
  <2>3. Has(rows, body, Gone, g.cursor, g.merged) /\ Knows(rows, body, g.cursor, g.ids, g.baseline)
    BY <1>2, <2>1, <2>2 DEF Has, Knows
  <2>4. FlightOK(g, own.cursor, local[d], rows, body, Gone)
    BY <1>2, <2>1, <2>3 DEF FlightOK
  <2>5. Behind(g, own.cursor, clock)
    BY <1>2, <2>1 DEF Behind, Typed, IInv
  <2> QED
    BY <1>1, <1>3, <1>4, <1>5, <2>4, <2>5, FlightSound DEF IInv, relay, device
<1> QED
  BY <1>1, <1>4, <1>5 DEF IInv, bounds

LEMMA StartOverInv ==
    ASSUME IInv, NEW d \in Devices, StartOver(d)
    PROVE  IInv'
<1> DEFINE f == flight[d]
           g == [f EXCEPT !.stage = "ready", !.baseline = NoRecords, !.ids = NoIds, !.cursor = 0,
                          !.reply = NoReply, !.sent = NoIds, !.deletable = {}]
<1>0. f \in Flight /\ f.stage = "answered" /\ f.reply.kind = "reset"
  BY DEF Typed, IInv, StartOver
<1>1. flight' = [flight EXCEPT ![d] = g] /\ UNCHANGED <<relay, device, bounds>>
  BY DEF StartOver, Typed, IInv
<1>2. g \in Flight /\ g.stage = "ready"
  BY <1>0, EmptyRecords, NoReplyType DEF Flight, Stages
<1> HIDE DEF g
<1>3. flight' \in [Devices -> Flight] /\ \A e \in Devices : Shown(flight'[e])
  BY <1>1, <1>2, FlightGoesOn DEF Shown, IInv
<1>4. Typed'
  BY <1>1, <1>3 DEF Typed, IInv, relay, device, bounds, RowsWritten
<1>5. ~Sound
  BY <1>0 DEF Sound, DeviceOK, FlightOK, AnswerOK
<1> QED
  BY <1>1, <1>4, <1>5 DEF IInv, bounds

LEMMA MergeType ==
    ASSUME NEW a \in Records, NEW c \in Records
    PROVE  MergeRecords(a, c) \in Records
BY KeyFacts, MergeFacts DEF Heard, MergeIs

\* An answer's ids are ids: what it brought has its row.
LEMMA IdsAfterType ==
    ASSUME NEW f \in Flight, f.stage = "answered", Shown(f)
    PROVE  IdsAfter(f) \in IdMap
<1>1. ASSUME NEW k \in RemoteKeys(f)
      PROVE  (CHOOSE r \in f.reply.page : r.slot = k).id \in Version
  <2>1. \E r \in f.reply.page : r.slot = k
    BY <1>1 DEF Shown
  <2>2. f.reply.page \subseteq Row
    BY DEF Flight, Answers
  <2> QED
    BY <2>1, <2>2 DEF Row
<1>2. f.sent \in IdMap /\ f.ids \in IdMap
  BY DEF Flight
<1> QED
  BY <1>1, <1>2 DEF IdsAfter, IdMap

\* What the flight has after an answer, and what becomes of the device.
Pulled(d) ==
    LET f == flight[d]
        merged == MergeRecords(f.merged, f.remote) IN
    IF Lands(f) THEN MergeRecords(local[d], merged) ELSE merged

LEMMA ApplyPulledFacts ==
    ASSUME Typed, NEW d \in Devices, ApplyPulled(d)
    PROVE  LET f == flight[d]
               g == flight'[d] IN
           /\ f \in Flight /\ f.stage = "answered" /\ Pulled(d) \in Records
           /\ g \in Flight /\ g.stage = "pulled" /\ g.merged = Pulled(d) /\ g.remote = f.remote
           /\ g.ids = IdsAfter(f) /\ g.cursor = f.reply.cursor /\ g.drained = ~f.reply.hasMore
           /\ g.baseline = f.baseline /\ g.sent = f.sent
           /\ g.reply.writesAccepted = f.reply.writesAccepted /\ g.reply.cursor = f.reply.cursor
           /\ g.acknowledged = f.acknowledged \cup (IF f.reply.writesAccepted THEN f.deletable ELSE {})
           /\ g.current = f.current \cup RemoteKeys(f)
           /\ local'[d] = IF Lands(f) THEN Pulled(d) ELSE local[d]
           /\ \A e \in Devices \ {d} : flight'[e] = flight[e] /\ local'[e] = local[e]
           /\ UNCHANGED <<relay, outbox, burying, control, bounds>>
           /\ Typed'
<1> DEFINE f == flight[d]
           pulled == Pulled(d)
           answer == [f.reply EXCEPT !.page = {}]
           drained == ~f.reply.hasMore
           ids == IdsAfter(f)
           current == f.current \cup RemoteKeys(f)
           acknowledged == f.acknowledged \cup (IF f.reply.writesAccepted THEN f.deletable ELSE {})
           g == [f EXCEPT !.stage = "pulled", !.merged = pulled, !.ids = ids, !.reply = answer,
                          !.cursor = f.reply.cursor, !.drained = drained,
                          !.current = current, !.acknowledged = acknowledged]
<1>1. f \in Flight /\ f.stage = "answered" /\ local[d] \in Records /\ Shown(f)
  BY DEF Typed, ApplyPulled
<1>2. /\ flight' = [flight EXCEPT ![d] = g]
      /\ local' = [local EXCEPT ![d] = IF Lands(f) THEN pulled ELSE @]
      /\ UNCHANGED <<relay, outbox, burying, control, bounds>>
  <2>1. g = [f EXCEPT !.stage = "pulled", !.merged = pulled, !.ids = ids, !.reply.page = {},
                      !.cursor = f.reply.cursor, !.drained = drained,
                      !.current = current, !.acknowledged = acknowledged]
    BY <1>1 DEF Flight, Answers
  <2>2. flight' = [flight EXCEPT ![d] =
                     [f EXCEPT !.stage = "pulled", !.merged = pulled, !.ids = ids, !.reply.page = {},
                               !.cursor = f.reply.cursor, !.drained = drained,
                               !.current = current, !.acknowledged = acknowledged]]
    BY DEF ApplyPulled, Pulled
  <2>3. flight' = [flight EXCEPT ![d] = g]
    <3> HIDE DEF g
    <3> QED
      BY <2>1, <2>2
  <2>4. /\ local' = [local EXCEPT ![d] = IF Lands(f) THEN pulled ELSE @]
        /\ UNCHANGED <<relay, outbox, burying, control, bounds>>
    BY DEF ApplyPulled, Pulled
  <2> QED
    BY <2>3, <2>4
<1>3. pulled \in Records
  BY <1>1, MergeType DEF Pulled, Flight
<1>4. /\ answer \in Answers /\ answer.cursor = f.reply.cursor
      /\ answer.writesAccepted = f.reply.writesAccepted
  BY <1>1 DEF Flight, Answers
<1>5. ids \in IdMap /\ drained \in BOOLEAN /\ f.reply.cursor \in Nat
  BY <1>1, IdsAfterType DEF Flight, Answers
<1>6. current \in SUBSET Keys /\ acknowledged \in SUBSET Keys
  BY <1>1 DEF Flight, RemoteKeys
<1> HIDE DEF pulled, answer, ids, current, acknowledged
<1>7. /\ g \in Flight /\ g.stage = "pulled" /\ g.merged = pulled /\ g.remote = f.remote
      /\ g.ids = ids /\ g.cursor = f.reply.cursor /\ g.drained = drained
      /\ g.baseline = f.baseline /\ g.sent = f.sent /\ g.reply = answer
      /\ g.acknowledged = acknowledged /\ g.current = current
  BY <1>1, <1>3, <1>4, <1>5, <1>6 DEF Flight, Stages
<1> HIDE DEF g
<1>8. /\ flight' \in [Devices -> Flight] /\ \A e \in Devices : Shown(flight'[e])
      /\ flight'[d] = g /\ \A e \in Devices \ {d} : flight'[e] = flight[e]
  BY <1>2, <1>7, FlightGoesOn DEF Shown
<1>9. /\ local' \in [Devices -> Records] /\ local'[d] = IF Lands(f) THEN pulled ELSE local[d]
      /\ \A e \in Devices \ {d} : local'[e] = local[e]
  BY <1>2, <1>3 DEF Typed
<1>10. Typed'
  BY <1>2, <1>8, <1>9 DEF Typed, relay, bounds, RowsWritten
<1> QED
  BY <1>1, <1>2, <1>3, <1>4, <1>7, <1>8, <1>9, <1>10 DEF pulled, ids, acknowledged, current

\* When nothing lands with the last page, nothing came.
LEMMA PulledIs ==
    ASSUME Typed, Sound, NEW d \in Devices, flight[d].stage = "answered"
    PROVE  LET f == flight[d] IN
           /\ Pulled(d) \in Records /\ Clean(Pulled(d)) /\ Heard(Pulled(d), Gone)
           /\ Within(Merged(f), Pulled(d), Gone)
           /\ Lands(f) => /\ Within(local[d], Pulled(d), Gone)
                          /\ \A n \in Notes : Tombstoned(local[d], n) => Tombstoned(Pulled(d), n)
           /\ Uploaded(f) # {} \/ (~Lands(f) /\ ~f.reply.hasMore) =>
                    f.drained /\ RemoteKeys(f) = {} /\ Pulled(d) = f.merged
<1> DEFINE f == flight[d]
           m == MergeRecords(f.merged, f.remote)
           mine == local[d]
           all == MergeRecords(mine, m)
<1>1. /\ f \in Flight /\ f.merged \in Records /\ f.remote \in Records /\ mine \in Records
      /\ f.reply.hasMore \in BOOLEAN /\ f.drained \in BOOLEAN
  BY DEF Typed, Flight, Answers
<1>2. /\ Clean(f.merged) /\ Heard(f.merged, Gone) /\ Heard(f.remote, Gone) /\ AnswerOK(f, rows, body, Gone)
  BY DEF Sound, DeviceOK, FlightOK
<1>3. Heard(mine, Gone)
  BY KeyFacts DEF Heard, Gone, GoneForGood
<1>4. Pulled(d) = IF Lands(f) THEN all ELSE m
  BY DEF Pulled
<1> HIDE DEF f, mine
<1>5. MergeIs(m, f.merged, f.remote, Gone)
  BY <1>1, <1>2, MergeFacts
<1>6. Within(Merged(f), m, Gone)
  BY <1>5 DEF MergeIs, Merged
<1>7. m \in Records /\ Heard(m, Gone)
  BY <1>5 DEF MergeIs
<1> HIDE DEF m
<1>8. MergeIs(all, mine, m, Gone)
  BY <1>1, <1>3, <1>7, MergeFacts
<1>9. Within(Merged(f), all, Gone)
  BY <1>6, <1>8, WithinMore DEF MergeIs
<1>10. Uploaded(f) # {} \/ (~Lands(f) /\ ~f.reply.hasMore) =>
            f.drained /\ RemoteKeys(f) = {} /\ ~Lands(f)
  BY <1>1, <1>2 DEF AnswerOK, Uploaded, Lands
<1>11. RemoteKeys(f) = {} => m = f.merged
  BY <1>1, <1>2, MergeNothing DEF RemoteKeys, m
<1>12. /\ Pulled(d) \in Records /\ Clean(Pulled(d)) /\ Heard(Pulled(d), Gone)
       /\ Within(Merged(f), Pulled(d), Gone)
  BY <1>4, <1>5, <1>6, <1>8, <1>9 DEF MergeIs
<1>13. Lands(f) => /\ Within(mine, Pulled(d), Gone)
                   /\ \A n \in Notes : Tombstoned(mine, n) => Tombstoned(Pulled(d), n)
  BY <1>4, <1>8 DEF MergeIs
<1> QED
  BY <1>4, <1>10, <1>11, <1>12, <1>13 DEF f, mine

LEMMA ApplyPulledInv ==
    ASSUME IInv, NEW d \in Devices, ApplyPulled(d)
    PROVE  IInv'
<1> DEFINE f == flight[d]
           g == flight'[d]
           cursor == control[d].cursor
           mine == local[d]
           mine2 == local'[d]
<1>1. /\ f \in Flight /\ f.stage = "answered" /\ Pulled(d) \in Records
      /\ g \in Flight /\ g.stage = "pulled" /\ g.merged = Pulled(d) /\ g.remote = f.remote
      /\ g.ids = IdsAfter(f) /\ g.cursor = f.reply.cursor /\ g.drained = ~f.reply.hasMore
      /\ g.baseline = f.baseline /\ g.sent = f.sent
      /\ g.reply.writesAccepted = f.reply.writesAccepted /\ g.reply.cursor = f.reply.cursor
      /\ mine2 = IF Lands(f) THEN Pulled(d) ELSE mine
      /\ \A e \in Devices \ {d} : flight'[e] = flight[e] /\ local'[e] = local[e]
      /\ UNCHANGED <<relay, outbox, burying, control, bounds>>
      /\ Typed'
  BY ApplyPulledFacts DEF IInv
<1>2. ASSUME Sound PROVE Sound'
  <2>1. /\ Clean(Pulled(d)) /\ Heard(Pulled(d), Gone) /\ Within(Merged(f), Pulled(d), Gone)
        /\ Lands(f) => /\ Within(mine, Pulled(d), Gone)
                       /\ \A n \in Notes : Tombstoned(mine, n) => Tombstoned(Pulled(d), n)
        /\ Uploaded(f) # {} \/ (~Lands(f) /\ ~f.reply.hasMore) =>
                    f.drained /\ RemoteKeys(f) = {} /\ Pulled(d) = f.merged
    BY <1>1, <1>2, PulledIs DEF IInv
  <2>2. /\ Clean(mine) /\ Has(rows, body, Gone, cursor, mine)
        /\ Knows(rows, body, cursor, control[d].ids, control[d].baseline)
        /\ Behind(f, cursor, clock) /\ FlightOK(f, cursor, mine, rows, body, Gone)
        /\ AnswerOK(f, rows, body, Gone)
    BY <1>1, <1>2 DEF Sound, DeviceOK, FlightOK
  <2>3. TombstonesStay
    BY <1>1, <2>1 DEF TombstonesStay
  <2>4. /\ Grown(rows, body, clock, rows', body') /\ clock <= clock'
        /\ RowsSpeak' /\ Heard(body', Gone') /\ Gone \subseteq Gone'
        /\ rows' = rows /\ body' = body /\ clock' = clock /\ control' = control
    BY <1>1, <1>2, <2>3, RowsStay, GoneGrows DEF IInv, relay
  <2>5. Clean(mine2) /\ Within(mine, mine2, Gone)
    BY <1>1, <2>1, <2>2, WithinSelf
  <2> DEFINE gone == Gone
             more == Gone'
  <2>6. /\ rows \in SUBSET Row /\ clock \in Nat /\ cursor \in Nat /\ f.reply.cursor \in Nat
        /\ cursor <= clock /\ f.reply.cursor <= clock
        /\ Grown(rows, body, clock, rows, body) /\ gone \subseteq more
    BY <1>1, <2>2, <2>4 DEF Typed, IInv, Control, Behind, Flight, Answers
  <2>7. Within(mine, mine2, more) /\ Within(Merged(f), Pulled(d), more)
    BY <2>1, <2>5, <2>6 DEF Within
  <2> HIDE DEF gone, more, f, g, mine, mine2, cursor
  <2>8. Has(rows, body, more, cursor, mine2)
    BY <2>2, <2>6, <2>7, HasKept DEF gone
  <2>9. Has(rows, body, more, g.cursor, g.merged)
    BY <1>1, <2>2, <2>6, <2>7, HasKept DEF AnswerOK, gone
  <2>10. Told(rows, body, g.cursor, g.ids, g)
    <3>1. RemoteKeys(g) = RemoteKeys(f) /\ Uploaded(g) = Uploaded(f)
      BY <1>1 DEF RemoteKeys, Uploaded, SentKeys
    <3>2. \A k, content : Tells(f, k, content) => Tells(g, k, content)
      BY <1>1, <2>1, <3>1 DEF Tells
    <3> QED
      BY <1>1, <2>2, <3>2 DEF AnswerOK, Told
  <2>11. g.drained => Within(g.merged, mine2, more)
    <3>1. CASE Lands(f)
      BY <1>1, <3>1, WithinSelf
    <3>2. ASSUME ~Lands(f), g.drained PROVE Within(g.merged, mine2, more)
      <4>1. ~f.reply.hasMore /\ f.drained /\ g.merged = f.merged /\ mine2 = mine
        BY <1>1, <2>1, <3>2 DEF Flight, Answers
      <4>2. Within(f.merged, mine, gone)
        BY <2>2, <4>1 DEF FlightOK, gone
      <4> QED
        BY <2>6, <4>1, <4>2 DEF Within
    <3> QED
      BY <3>1, <3>2
  <2>12. Heard(g.merged, more) /\ Heard(g.remote, more) /\ Clean(g.merged)
    BY <1>1, <2>1, <2>2, <2>6 DEF Heard, FlightOK, gone
  <2>13. FlightOK(g, cursor, mine2, rows, body, more)
    BY <1>1, <2>9, <2>10, <2>11, <2>12 DEF FlightOK
  <2>14. Behind(g, cursor, clock)
    BY <1>1, <2>6 DEF Behind
  <2>15. DeviceOK(d)'
    BY <2>2, <2>4, <2>5, <2>8, <2>13, <2>14 DEF DeviceOK, g, mine2, cursor, more
  <2> QED
    BY <1>1, <1>2, <2>3, <2>4, <2>15, StepSound DEF IInv
<1> QED
  BY <1>1, <1>2 DEF IInv, bounds

LEMMA MarkDirtyInv ==
    ASSUME IInv, NEW d \in Devices, MarkDirty(d)
    PROVE  IInv'
<1> DEFINE f == flight[d]
           dirty == DirtyKeys(f)
           baseline == ReconciledBaseline(f)
           acknowledged == f.acknowledged \cup Uploaded(f) \cup (RemoteKeys(f) \ dirty)
           g == [f EXCEPT !.stage = "marked", !.baseline = baseline, !.remote = NoRecords,
                          !.acknowledged = acknowledged, !.outboxKeys = f.outboxKeys \cup dirty,
                          !.internal = f.internal \cup dirty]
<1>0. f \in Flight /\ f.stage = "pulled"
  BY DEF Typed, IInv, MarkDirty
<1>1. /\ flight' = [flight EXCEPT ![d] = g]
      /\ outbox' = [outbox EXCEPT ![d] = [k \in Keys |-> IF k \in dirty THEN "internal" ELSE @[k]]]
      /\ UNCHANGED <<relay, local, burying, control, bounds>>
  BY DEF MarkDirty
<1>2. /\ g \in Flight /\ g.stage = "marked" /\ g.merged = f.merged /\ g.remote = NoRecords
      /\ g.drained = f.drained /\ g.cursor = f.cursor /\ g.reply = f.reply
      /\ g.ids = f.ids /\ g.baseline = baseline
  <2>1. baseline \in Records
    BY <1>0 DEF ReconciledBaseline, Records, Flight
  <2>2. acknowledged \in SUBSET Keys /\ dirty \in SUBSET Keys
    BY <1>0 DEF DirtyKeys, RemoteKeys, Uploaded, SentKeys, Flight
  <2> HIDE DEF baseline, acknowledged, dirty
  <2>3. g \in Flight
    BY <1>0, <2>1, <2>2, EmptyRecords DEF Flight, Stages
  <2>4. /\ g.stage = "marked" /\ g.merged = f.merged /\ g.remote = NoRecords
        /\ g.drained = f.drained /\ g.cursor = f.cursor /\ g.reply = f.reply
        /\ g.ids = f.ids /\ g.baseline = baseline
    BY <1>0 DEF Flight
  <2> QED
    BY <2>3, <2>4
<1> HIDE DEF g
<1>3. /\ flight' \in [Devices -> Flight] /\ \A e \in Devices : Shown(flight'[e])
      /\ flight'[d] = g /\ \A e \in Devices \ {d} : flight'[e] = flight[e]
  BY <1>1, <1>2, FlightGoesOn DEF Shown, IInv
<1>4. outbox' \in [Devices -> [Keys -> Marks]]
  BY <1>1 DEF Typed, IInv, Marks
<1>5. Typed'
  BY <1>1, <1>3, <1>4 DEF Typed, IInv, relay, bounds, RowsWritten
<1>6. ASSUME Sound PROVE Sound'
  <2>1. /\ Has(rows, body, Gone, f.cursor, f.merged) /\ Told(rows, body, f.cursor, f.ids, f)
        /\ Clean(f.merged) /\ Heard(f.merged, Gone)
        /\ f.drained => Within(f.merged, local[d], Gone)
        /\ Behind(f, control[d].cursor, clock)
    BY <1>0, <1>6 DEF Sound, DeviceOK, FlightOK
  <2>2. \A k \in Keys : \A content : Tells(f, k, content) => baseline[k] \in {{}, content}
    BY DEF Tells, ReconciledBaseline, DirtyKeys
  <2>3. Knows(rows, body, f.cursor, f.ids, baseline)
    BY <2>1, <2>2 DEF Knows, Told, Row, Typed, IInv
  <2>4. FlightOK(g, control[d].cursor, local[d], rows, body, Gone)
    BY <1>2, <2>1, <2>3, EmptyRecords DEF FlightOK
  <2>5. Behind(g, control[d].cursor, clock)
    BY <1>2, <2>1 DEF Behind
  <2> QED
    BY <1>1, <1>3, <1>5, <1>6, <2>4, <2>5, FlightSound DEF IInv, relay
<1> QED
  BY <1>1, <1>5, <1>6 DEF IInv, bounds

\* The next round starts from what the last one left, and nothing is a flight
\* that has ended.
LEMMA ContinuedFacts ==
    ASSUME NEW f \in Flight, f.stage = "marked", NEW acknowledged \in SUBSET Keys,
           NEW cursor, NEW mine, NEW rs, NEW b, NEW gone, NEW last
    PROVE  LET g == Continued(f, acknowledged) IN
           /\ g \in Flight /\ g.stage # "answered"
           /\ FlightOK(f, cursor, mine, rs, b, gone) => FlightOK(g, cursor, mine, rs, b, gone)
           /\ cursor \in Nat /\ last \in Nat /\ Behind(f, cursor, last) => Behind(g, cursor, last)
<1> DEFINE internal == IF f.drained THEN f.internal \ acknowledged ELSE f.internal
           h == [f EXCEPT !.stage = "ready", !.acknowledged = acknowledged, !.internal = internal,
                          !.reply = NoReply, !.current = {}, !.startedDrained = FALSE,
                          !.sent = NoIds, !.deletable = {}, !.moreChanged = FALSE]
           g == Continued(f, acknowledged)
<1>1. g \in {h, NoFlight}
  BY DEF Continued
<1>2. internal \in SUBSET Keys
  BY DEF Flight
<1> HIDE DEF internal, g
<1>3. h \in Flight
  BY <1>2, EmptyRecords, NoReplyType DEF Flight, Stages
<1>4. /\ h.stage = "ready" /\ h.merged = f.merged /\ h.remote = f.remote
      /\ h.drained = f.drained /\ h.cursor = f.cursor /\ h.reply = NoReply
      /\ h.ids = f.ids /\ h.baseline = f.baseline
  BY DEF Flight
<1> HIDE DEF h
<1>5. FlightOK(f, cursor, mine, rs, b, gone) => FlightOK(h, cursor, mine, rs, b, gone)
  BY <1>4 DEF FlightOK
<1>6. cursor \in Nat /\ last \in Nat /\ Behind(f, cursor, last) => Behind(h, cursor, last)
  BY <1>4, NoReplyType DEF Behind
<1>7. CASE g = h
  BY <1>3, <1>4, <1>5, <1>6, <1>7 DEF g
<1>8. CASE g = NoFlight
  <2>1. FlightOK(g, cursor, mine, rs, b, gone)
    BY <1>8, NoFlightFacts
  <2>2. cursor \in Nat /\ last \in Nat /\ Behind(f, cursor, last) => Behind(g, cursor, last)
    BY <1>8, NoFlightFacts DEF Behind
  <2> QED
    BY <1>8, <2>1, <2>2, NoFlightFacts DEF g
<1> QED
  BY <1>1, <1>7, <1>8

LEMMA NextPageInv ==
    ASSUME IInv, NEW d \in Devices, NextPage(d)
    PROVE  IInv'
<1> DEFINE f == flight[d]
           g == Continued(f, f.acknowledged)
<1>0. f \in Flight /\ f.stage = "marked" /\ f.acknowledged \in SUBSET Keys
  BY DEF Typed, IInv, NextPage, Flight
<1>1. flight' = [flight EXCEPT ![d] = g] /\ UNCHANGED <<relay, device, bounds>>
  BY DEF NextPage
<1> HIDE DEF f, g
<1>2. /\ g \in Flight /\ g.stage # "answered"
      /\ FlightOK(f, control[d].cursor, local[d], rows, body, Gone) =>
            FlightOK(g, control[d].cursor, local[d], rows, body, Gone)
      /\ control[d].cursor \in Nat /\ clock \in Nat /\ Behind(f, control[d].cursor, clock) =>
            Behind(g, control[d].cursor, clock)
  BY <1>0, ContinuedFacts DEF g
<1>3. /\ flight' \in [Devices -> Flight] /\ \A e \in Devices : Shown(flight'[e])
      /\ flight'[d] = g /\ \A e \in Devices \ {d} : flight'[e] = flight[e]
  BY <1>1, <1>2, FlightGoesOn DEF Shown, IInv
<1>4. Typed'
  BY <1>1, <1>3 DEF Typed, IInv, relay, device, bounds, RowsWritten
<1>5. ASSUME Sound PROVE Sound'
  <2>1. /\ FlightOK(f, control[d].cursor, local[d], rows, body, Gone)
        /\ Behind(f, control[d].cursor, clock)
        /\ control[d].cursor \in Nat /\ clock \in Nat
    BY <1>5 DEF Sound, DeviceOK, Typed, IInv, Control, f
  <2> QED
    BY <1>1, <1>2, <1>3, <1>4, <1>5, <2>1, FlightSound DEF IInv, relay, device
<1> QED
  BY <1>1, <1>4, <1>5 DEF IInv, bounds

LEMMA CommitInv ==
    ASSUME IInv, NEW d \in Devices, CommitSyncControl(d)
    PROVE  IInv'
<1> DEFINE f == flight[d]
           acknowledged == Acknowledged(f)
           g == Continued(f, acknowledged)
           marks == Cleared(f, outbox[d])
           own == [baseline |-> f.baseline, ids |-> f.ids, cursor |-> f.cursor]
<1>0. f \in Flight /\ f.stage = "marked" /\ f.drained
  BY DEF Typed, IInv, CommitSyncControl
<1>1. /\ flight' = [flight EXCEPT ![d] = g] /\ control' = [control EXCEPT ![d] = own]
      /\ outbox' = [outbox EXCEPT ![d] = IF g = NoFlight THEN OldMarks(marks) ELSE marks]
      /\ UNCHANGED <<relay, local, burying, bounds>>
  BY DEF CommitSyncControl
<1>2. acknowledged \in SUBSET Keys
  BY <1>0 DEF Acknowledged, SettledKeys, Flight
<1>3. marks \in [Keys -> Marks] /\ OldMarks(marks) \in [Keys -> Marks]
  BY DEF Cleared, OldMarks, Marks, Typed, IInv
<1>4. own \in Control
  BY <1>0 DEF Control, Flight
<1> HIDE DEF f, acknowledged, g, marks, own
<1>5. outbox' \in [Devices -> [Keys -> Marks]]
  BY <1>1, <1>3 DEF Typed, IInv
<1>6. control' \in [Devices -> Control] /\ control'[d] = own
      /\ \A e \in Devices \ {d} : control'[e] = control[e]
  BY <1>1, <1>4 DEF Typed, IInv
<1>7. /\ g \in Flight /\ g.stage # "answered"
      /\ FlightOK(f, f.cursor, local[d], rows, body, Gone) =>
            FlightOK(g, f.cursor, local[d], rows, body, Gone)
      /\ f.cursor \in Nat /\ clock \in Nat /\ Behind(f, f.cursor, clock) => Behind(g, f.cursor, clock)
  BY <1>0, <1>2, ContinuedFacts DEF g
<1>8. /\ flight' \in [Devices -> Flight] /\ \A e \in Devices : Shown(flight'[e])
      /\ flight'[d] = g /\ \A e \in Devices \ {d} : flight'[e] = flight[e]
  BY <1>1, <1>7, FlightGoesOn DEF Shown, IInv
<1>9. Typed'
  BY <1>1, <1>5, <1>6, <1>8 DEF Typed, IInv, relay, bounds, RowsWritten
<1>10. ASSUME Sound PROVE Sound'
  <2>1. /\ Clean(local[d]) /\ FlightOK(f, control[d].cursor, local[d], rows, body, Gone)
        /\ Behind(f, control[d].cursor, clock)
    BY <1>10 DEF Sound, DeviceOK, f
  <2>2. /\ Has(rows, body, Gone, f.cursor, f.merged) /\ Within(f.merged, local[d], Gone)
        /\ Knows(rows, body, f.cursor, f.ids, f.baseline)
    BY <1>0, <2>1 DEF FlightOK
  <2>3. rows \in SUBSET Row /\ clock \in Nat /\ f.cursor \in Nat /\ f.cursor <= clock
    BY <1>0, <2>1 DEF Typed, IInv, Flight, Behind
  <2>4. Gone' = Gone /\ TombstonesStay
    BY <1>1 DEF Gone, GoneForGood, Tombstoned, TombstonesStay
  <2>5. /\ Grown(rows, body, clock, rows', body') /\ clock <= clock'
        /\ RowsSpeak' /\ Heard(body', Gone')
    BY <1>1, <1>10, <2>4, RowsStay DEF IInv, relay
  <2>6. Has(rows, body, Gone, f.cursor, local[d])
    BY <2>2, <2>3 DEF Has, Within, Row
  <2>7. FlightOK(f, f.cursor, local[d], rows, body, Gone) /\ Behind(f, f.cursor, clock)
    BY <1>0, <2>1 DEF FlightOK, Behind
  <2>8. FlightOK(g, f.cursor, local[d], rows, body, Gone) /\ Behind(g, f.cursor, clock)
    BY <1>7, <2>3, <2>7
  <2>9. own.cursor = f.cursor /\ own.ids = f.ids /\ own.baseline = f.baseline
    BY DEF own
  <2>10. DeviceOK(d)'
    BY <1>1, <1>6, <1>8, <2>1, <2>2, <2>4, <2>6, <2>8, <2>9 DEF DeviceOK, relay
  <2> QED
    BY <1>1, <1>6, <1>8, <1>9, <1>10, <2>4, <2>5, <2>10, StepSound DEF IInv
<1> QED
  BY <1>1, <1>9, <1>10 DEF IInv, bounds

-----------------------------------------------------------------------------
(* Failures and the sweep.                                                  *)

\* A flight that ends early leaves what was committed.
LEMMA EndedInv ==
    ASSUME IInv, NEW d \in Devices, flight' = [flight EXCEPT ![d] = NoFlight],
           outbox' = [outbox EXCEPT ![d] = OldMarks(@)], burying' \in [Devices -> SUBSET Notes],
           UNCHANGED <<relay, local, control, made, forgets>>
    PROVE  IInv'
<1>1. /\ flight' \in [Devices -> Flight] /\ \A e \in Devices : Shown(flight'[e])
      /\ flight'[d] = NoFlight /\ \A e \in Devices \ {d} : flight'[e] = flight[e]
  BY FlightGoesOn, NoFlightFacts DEF IInv
<1>2. outbox' \in [Devices -> [Keys -> Marks]]
  BY DEF OldMarks, Marks, Typed, IInv
<1>3. Typed'
  BY <1>1, <1>2 DEF Typed, IInv, relay, RowsWritten
<1>4. ASSUME Sound PROVE Sound'
  <2>1. FlightOK(NoFlight, control[d].cursor, local[d], rows, body, Gone)
    BY NoFlightFacts
  <2>2. control[d].cursor \in Nat /\ clock \in Nat /\ control[d].cursor <= clock
    BY <1>4 DEF Typed, IInv, Control, Sound, DeviceOK, Behind
  <2>3. Behind(NoFlight, control[d].cursor, clock)
    BY <2>2, NoFlightFacts
  <2> QED
    BY <1>1, <1>3, <1>4, <2>1, <2>3, FlightSound DEF IInv, relay
<1> QED
  BY <1>3, <1>4 DEF IInv

LEMMA FailInv == ASSUME IInv, NEW d \in Devices, Fail(d) PROVE IInv'
<1>1. burying' \in [Devices -> SUBSET Notes]
  BY DEF Fail, Typed, IInv
<1> QED
  BY <1>1, EndedInv DEF Fail

LEMMA CrashInv == ASSUME IInv, NEW d \in Devices, Crash(d) PROVE IInv'
<1>1. burying' \in [Devices -> SUBSET Notes]
  BY DEF Crash, Typed, IInv
<1> QED
  BY <1>1, EndedInv DEF Crash

LEMMA ForgetInv == ASSUME IInv, Forget PROVE IInv'
<1>1. Typed'
  BY EmptyRecords DEF Forget, Typed, IInv, device, Numbered, RowsNumbered, RowsWritten
<1>2. forgets' # 0
  BY DEF Forget, Typed, IInv
<1> QED
  BY <1>1, <1>2 DEF IInv

-----------------------------------------------------------------------------
(* A round.                                                                 *)

LEMMA ReplyFields ==
    ASSUME NEW kind, NEW cursor, NEW page, NEW conflicts, NEW more, NEW accepted
    PROVE  LET reply == Reply(kind, cursor, page, conflicts, more, accepted) IN
           /\ reply.kind = kind /\ reply.cursor = cursor /\ reply.page = page
           /\ reply.conflicts = conflicts /\ reply.hasMore = more
           /\ reply.writesAccepted = accepted
BY DEF Reply

\* The four answers a round may get.
AnswerIs(reply, rs, last, cursor, b, n) ==
    \/ cursor > last /\ reply = ResetReply
    \/ /\ cursor <= last /\ PageIs(rs, cursor, last, reply.page)
       /\ reply = Reply("page", LastSeq(reply.page), reply.page, {},
                        reply.page # After(rs, cursor), ~WritesAsked(b))
    \/ /\ cursor <= last /\ After(rs, cursor) = {}
       /\ reply = Reply("conflict", last, {}, Conflicts(rs, b.uploads), FALSE, FALSE)
    \/ /\ cursor <= last /\ After(rs, cursor) = {}
       /\ reply = Reply("done", last + n, {}, {}, FALSE, TRUE)

LEMMA AnswerFacts ==
    ASSUME NEW rs \in SUBSET Row, NEW last \in Nat, Numbered(rs, last), NEW cursor \in Nat,
           NEW b, NEW n \in Nat, ClockAfter(rs, last, b) = last + n
    PROVE  AnswerIs(Answer(rs, last, cursor, b), rs, last, cursor, b, n)
<1> DEFINE reply == Answer(rs, last, cursor, b)
<1>1. CASE cursor > last
  <2>1. reply = ResetReply
    BY <1>1 DEF Answer
  <2> QED
    BY <1>1, <2>1 DEF AnswerIs
<1>2. CASE cursor <= last /\ After(rs, cursor) # {}
  <2>1. reply = PageReply(rs, cursor, b)
    BY <1>2 DEF Answer
  <2>2. reply = Reply("page", LastSeq(Page(rs, cursor)), Page(rs, cursor), {},
                      Page(rs, cursor) # After(rs, cursor), ~WritesAsked(b))
    BY <2>1 DEF PageReply
  <2>3. reply.page = Page(rs, cursor)
    BY <2>2, ReplyFields
  <2>4. PageIs(rs, cursor, last, Page(rs, cursor))
    BY <1>2, PageFacts
  <2> HIDE DEF reply
  <2>5. AnswerIs(reply, rs, last, cursor, b, n)
    BY <1>2, <2>2, <2>3, <2>4 DEF AnswerIs
  <2> QED
    BY <2>5 DEF reply
<1>3. CASE cursor <= last /\ After(rs, cursor) = {}
  <2>1. \/ reply = ConflictReply(rs, last, cursor, b)
        \/ reply = DoneReply(last + n, cursor)
    BY <1>3 DEF Answer
  <2>2. LargerOf(cursor, last) = last /\ LargerOf(cursor, last + n) = last + n
    BY <1>3 DEF LargerOf
  <2> HIDE DEF reply
  <2>3. AnswerIs(reply, rs, last, cursor, b, n)
    BY <1>3, <2>1, <2>2 DEF AnswerIs, ConflictReply, DoneReply
  <2> QED
    BY <2>3 DEF reply
<1> QED
  BY <1>1, <1>2, <1>3

\* The versions sent, by key.
SentBy(order, n, w) ==
    [k \in Keys |-> IF \E i \in 1 .. n : order[i] = k
                    THEN LET j == CHOOSE i \in 1 .. n : order[i] = k IN
                         [slot |-> order[j], number |-> w + j]
                    ELSE NoId]

Brought(shown, b) == [k \in Keys |-> IF \E r \in shown : r.slot = k THEN b[k] ELSE {}]

\* What a round that sends S in that order does to the relay.
RelayMoves(f, S, order, n, deletable) ==
    /\ rows' = RowsAfter(rows, clock, BatchOf(order, n, written, f.ids, deletable))
    /\ clock' = clock + n
    /\ written' = written + n
    /\ body' = [k \in Keys |-> IF k \in S THEN f.merged[k]
                               ELSE IF \E r \in rows' : r.slot = k THEN body[k] ELSE {}]
    /\ shared' = [k \in Keys |-> shared[k] \cup body'[k]]

\* ... and to the flight.
RoundIs(d, S, order, n, deletable, reply) ==
    LET f == flight[d]
        g == flight'[d]
        shown == reply.page \cup reply.conflicts IN
    /\ S \subseteq ChangedRecords(f) /\ deletable \subseteq PlanDeletableKeys(f.ids, f.merged)
    /\ Orders(order, S, n) /\ written + n <= MaxVersions
    /\ AnswerIs(reply, rows, clock, f.cursor, BatchOf(order, n, written, f.ids, deletable), n)
    /\ reply.kind = "done" => RelayMoves(f, S, order, n, deletable)
    /\ reply.kind # "done" => UNCHANGED relay
    /\ g \in Flight /\ g.stage = "answered" /\ g.startedDrained = f.drained
    /\ g.merged = f.merged /\ g.baseline = f.baseline /\ g.ids = f.ids /\ g.cursor = f.cursor
    /\ g.drained = f.drained /\ g.sent = SentBy(order, n, written) /\ g.deletable = deletable
    /\ g.acknowledged = f.acknowledged /\ g.current = CurrentRecordKeys(f.merged)
    /\ g.reply.kind = reply.kind /\ g.reply.cursor = reply.cursor /\ g.reply.page = shown
    /\ g.reply.hasMore = reply.hasMore /\ g.reply.writesAccepted = reply.writesAccepted
    /\ g.remote = Brought(shown, body)
    /\ flight' = [flight EXCEPT ![d] = g]

SentIs(sent, order, S, n, w) ==
    /\ sent \in IdMap
    /\ \A k \in Keys : sent[k] # NoId <=> k \in S
    /\ \A i \in 1 .. n : sent[order[i]] = [slot |-> order[i], number |-> w + i]

LEMMA SentByType ==
    ASSUME NEW S \in SUBSET Keys, NEW n, NEW order, Orders(order, S, n), NEW w \in Nat,
           w + n <= MaxVersions
    PROVE  SentIs(SentBy(order, n, w), order, S, n, w)
<1> DEFINE sent == SentBy(order, n, w)
<1>1. n \in Nat /\ MaxVersions \in Nat
  BY BoundsAssumption DEF Orders
<1>2. \A i \in 1 .. n : order[i] \in S /\ order[i] \in Keys /\ [slot |-> order[i], number |-> w + i] \in Version
  BY <1>1 DEF Orders, Version
<1>3. ASSUME NEW i \in 1 .. n PROVE sent[order[i]] = [slot |-> order[i], number |-> w + i]
  <2>1. (CHOOSE j \in 1 .. n : order[j] = order[i]) = i
    BY DEF Orders
  <2> QED
    BY <1>2, <2>1 DEF SentBy
<1>4. \A k \in Keys : ~(\E i \in 1 .. n : order[i] = k) => sent[k] = NoId
  BY DEF SentBy
<1>5. \A k \in Keys : (\E i \in 1 .. n : order[i] = k) <=> k \in S
  BY <1>2 DEF Orders
<1>6. DOMAIN sent = Keys /\ sent = [k \in Keys |-> sent[k]]
  BY DEF SentBy
<1> HIDE DEF sent
<1>7. \A k \in Keys : (sent[k] \in Version /\ k \in S) \/ (sent[k] = NoId /\ k \notin S)
  <2>1. ASSUME NEW k \in S PROVE sent[k] \in Version
    <3>1. PICK i \in 1 .. n : order[i] = k
      BY DEF Orders
    <3>2. sent[order[i]] = [slot |-> order[i], number |-> w + i]
      BY <1>3
    <3>3. [slot |-> order[i], number |-> w + i] \in Version
      BY <1>2
    <3> QED
      BY <3>1, <3>2, <3>3
  <2> QED
    BY <1>4, <1>5, <2>1
<1>8. sent \in IdMap
  BY <1>6, <1>7 DEF IdMap
<1>9. \A k \in Keys : sent[k] # NoId <=> k \in S
  BY <1>7, RecordsAssumption
<1>10. SentIs(sent, order, S, n, w)
  BY <1>3, <1>8, <1>9 DEF SentIs
<1> QED
  BY <1>10 DEF sent

LEMMA LengthOfOrder ==
    ASSUME NEW S, NEW n, NEW order, Orders(order, S, n)
    PROVE  Len(order) = n /\ DOMAIN order = 1 .. n
<1>1. n \in Nat /\ order \in [1 .. n -> S]
  BY DEF Orders
<1>2. order \in Seq(S)
  BY <1>1
<1> QED
  BY <1>1, <1>2

\* An answer shows rows of the relay.
Answered(reply) ==
    /\ reply.kind \in {"none", "reset", "page", "conflict", "done"} /\ reply.cursor \in Nat
    /\ reply.hasMore \in BOOLEAN /\ reply.writesAccepted \in BOOLEAN
    /\ reply.page \cup reply.conflicts \subseteq rows
    /\ [reply EXCEPT !.page = reply.page \cup reply.conflicts, !.conflicts = {}] =
            Reply(reply.kind, reply.cursor, reply.page \cup reply.conflicts, {},
                  reply.hasMore, reply.writesAccepted)

LEMMA ReplyAnswered ==
    ASSUME NEW kind \in {"none", "reset", "page", "conflict", "done"}, NEW cursor \in Nat,
           NEW page, page \subseteq rows, NEW conflicts, conflicts \subseteq rows,
           NEW more \in BOOLEAN, NEW accepted \in BOOLEAN
    PROVE  Answered(Reply(kind, cursor, page, conflicts, more, accepted))
<1> DEFINE reply == Reply(kind, cursor, page, conflicts, more, accepted)
<1>1. /\ reply.kind = kind /\ reply.cursor = cursor /\ reply.page = page
      /\ reply.conflicts = conflicts /\ reply.hasMore = more /\ reply.writesAccepted = accepted
  BY ReplyFields
<1>2. [reply EXCEPT !.page = page \cup conflicts, !.conflicts = {}] =
            Reply(kind, cursor, page \cup conflicts, {}, more, accepted)
  <2> DEFINE all == page \cup conflicts
             none == {}
             shown == [reply EXCEPT !.page = all, !.conflicts = none]
             R(p, c) == [ kind : {kind}, cursor : {cursor}, page : {p}, conflicts : {c},
                          hasMore : {more}, writesAccepted : {accepted} ]
  <2> HIDE DEF all, none
  <2>1. reply \in R(page, conflicts)
    BY DEF Reply
  <2> HIDE DEF reply
  <2>2. shown \in R(all, none)
    BY <2>1
  <2> HIDE DEF shown
  <2>3. shown = Reply(kind, cursor, all, none, more, accepted)
    BY <2>2 DEF Reply
  <2> QED
    BY <2>3 DEF all, none, shown
<1> HIDE DEF reply
<1>3. Answered(reply)
  BY <1>1, <1>2 DEF Answered
<1> QED
  BY <1>3 DEF reply

LEMMA AnswerType ==
    ASSUME Typed, NEW cursor \in Nat, NEW b, NEW n \in Nat, NEW reply,
           AnswerIs(reply, rows, clock, cursor, b, n)
    PROVE  Answered(reply)
<1>1. clock \in Nat /\ clock + n \in Nat /\ Conflicts(rows, b.uploads) \subseteq rows
  BY DEF Typed, Conflicts
<1>2. CASE reply = ResetReply
  BY <1>2, ReplyAnswered DEF ResetReply
<1>3. CASE /\ PageIs(rows, cursor, clock, reply.page)
           /\ reply = Reply("page", LastSeq(reply.page), reply.page, {},
                            reply.page # After(rows, cursor), ~WritesAsked(b))
  <2> DEFINE last == LastSeq(reply.page)
             page == reply.page
             more == reply.page # After(rows, cursor)
             accepted == ~WritesAsked(b)
  <2>1. more \in BOOLEAN /\ accepted \in BOOLEAN /\ last \in Nat /\ page \subseteq rows
    BY <1>3 DEF WritesAsked, PageIs
  <2>2. reply = Reply("page", last, page, {}, more, accepted)
    BY <1>3
  <2> HIDE DEF last, page, more, accepted
  <2>3. Answered(Reply("page", last, page, {}, more, accepted))
    BY <2>1, ReplyAnswered
  <2> QED
    BY <2>2, <2>3
<1>4. CASE reply = Reply("conflict", clock, {}, Conflicts(rows, b.uploads), FALSE, FALSE)
  <2> DEFINE c == Conflicts(rows, b.uploads)
  <2> HIDE DEF c
  <2>1. Answered(Reply("conflict", clock, {}, c, FALSE, FALSE))
    BY <1>1, ReplyAnswered DEF c
  <2> QED
    BY <1>4, <2>1 DEF c
<1>5. CASE reply = Reply("done", clock + n, {}, {}, FALSE, TRUE)
  BY <1>1, <1>5, ReplyAnswered
<1> QED
  BY <1>2, <1>3, <1>4, <1>5 DEF AnswerIs

\* What a round does once it is chosen what it sends.
RoundSends(d, S, order, deletable) ==
    LET f == flight[d]
        id(i) == [slot |-> order[i], number |-> written + i]
        batch == [ uploads |-> [i \in DOMAIN order |->
                     [slot |-> order[i], id |-> id(i), expected |-> f.ids[order[i]],
                      continues |-> FALSE]],
                   deletions |-> {[slot |-> k, id |-> f.ids[k]] : k \in deletable} ]
        reply == Answer(rows, clock, f.cursor, batch)
        shown == reply.page \cup reply.conflicts IN
    /\ written + Cardinality(S) <= MaxVersions
    /\ IF reply.kind = "done"
       THEN /\ rows' = RowsAfter(rows, clock, batch)
            /\ clock' = reply.cursor
            /\ written' = written + Len(order)
            /\ body' = [k \in Keys |->
                          IF k \in S THEN f.merged[k]
                          ELSE IF \E r \in rows' : r.slot = k THEN body[k] ELSE {}]
            /\ shared' = [k \in Keys |-> shared[k] \cup body'[k]]
       ELSE UNCHANGED relay
    /\ flight' = [flight EXCEPT ![d] =
         [f EXCEPT !.stage = "answered", !.startedDrained = f.drained,
                   !.current = CurrentRecordKeys(f.merged),
                   !.sent = [k \in Keys |-> IF \E i \in DOMAIN order : order[i] = k
                             THEN id(CHOOSE i \in DOMAIN order : order[i] = k) ELSE NoId],
                   !.deletable = deletable,
                   !.moreChanged = Cardinality(ChangedRecords(f)) > UploadBudget,
                   !.reply = [reply EXCEPT !.page = shown, !.conflicts = {}],
                   !.remote = [k \in Keys |->
                         IF \E r \in shown : r.slot = k THEN body[k] ELSE {}]]]

LEMMA RoundFacts ==
    ASSUME Typed, NEW d \in Devices, Round(d)
    PROVE  /\ \E S, order, n, deletable, reply : RoundIs(d, S, order, n, deletable, reply)
           /\ flight[d] \in Flight /\ flight[d].stage = "ready" /\ UNCHANGED <<device, bounds>>
<1> DEFINE f == flight[d]
           changed == ChangedRecords(f)
<1>1. f \in Flight /\ f.stage = "ready" /\ UNCHANGED <<device, bounds>>
  BY DEF Typed, Round
<1>2. PICK S \in Slices(changed, UploadBudget) :
         \E deletable \in Slices(PlanDeletableKeys(f.ids, f.merged), UploadBudget - Cardinality(S)) :
            RoundSends(d, S, SetToSeq(S), deletable)
  BY DEF Round, RoundSends
<1>3. PICK deletable \in Slices(PlanDeletableKeys(f.ids, f.merged), UploadBudget - Cardinality(S)) :
         RoundSends(d, S, SetToSeq(S), deletable)
  BY <1>2
<1> DEFINE order == SetToSeq(S)
           n == Cardinality(S)
           b == BatchOf(order, n, written, f.ids, deletable)
           reply == Answer(rows, clock, f.cursor, b)
           shown == reply.page \cup reply.conflicts
           answer == [reply EXCEPT !.page = shown, !.conflicts = {}]
           sent == SentBy(order, n, written)
           remote == Brought(shown, body)
           more == Cardinality(changed) > UploadBudget
           current == CurrentRecordKeys(f.merged)
           g == [f EXCEPT !.stage = "answered", !.startedDrained = f.drained, !.current = current,
                          !.sent = sent, !.deletable = deletable, !.moreChanged = more,
                          !.reply = answer, !.remote = remote]
<1>4. S \subseteq changed /\ deletable \subseteq PlanDeletableKeys(f.ids, f.merged)
  BY SliceIn
<1>5. changed \subseteq Keys /\ PlanDeletableKeys(f.ids, f.merged) \subseteq Keys /\ current \subseteq Keys
  BY <1>1, KeyFacts DEF ChangedRecords, UploadKeys, CurrentRecordKeys, PlanDeletableKeys, Flight
<1>6. Orders(order, S, n)
  BY <1>4, <1>5, KeysFinite, FS_Subset, SetToSeqOrders
<1>7. Len(order) = n /\ DOMAIN order = 1 .. n /\ n \in Nat
  <2> HIDE DEF order, n
  <2> QED
    BY <1>6, LengthOfOrder DEF Orders
<1>8. /\ IF reply.kind = "done"
         THEN /\ rows' = RowsAfter(rows, clock, b)
              /\ clock' = reply.cursor
              /\ written' = written + n
              /\ body' = [k \in Keys |->
                            IF k \in S THEN f.merged[k]
                            ELSE IF \E r \in rows' : r.slot = k THEN body[k] ELSE {}]
              /\ shared' = [k \in Keys |-> shared[k] \cup body'[k]]
         ELSE UNCHANGED relay
      /\ flight' = [flight EXCEPT ![d] = g]
      /\ written + n <= MaxVersions
  <2>1. RoundSends(d, S, order, deletable) /\ Cardinality(S) = n
    BY <1>3
  <2> HIDE DEF order, n
  <2> QED
    BY <1>7, <2>1, ZenonT(60) DEF RoundSends, BatchOf, SentBy, Brought
<1>9. ClockAfter(rows, clock, b) = clock + n /\ Numbered(rows, clock)
  <2>1. /\ rows \in SUBSET Row /\ clock \in Nat /\ written \in Nat /\ Numbered(rows, clock)
        /\ \A r \in rows : r.id.number <= written
    BY DEF Typed, RowsWritten
  <2>2. S \in SUBSET Keys
    BY <1>4, <1>5
  <2> HIDE DEF order, n
  <2>3. n \in Nat
    BY <1>7
  <2> QED
    <3>1. NewRowsOf(rows, clock, written, order, n, BatchOf(order, n, written, f.ids, deletable))
      BY <1>6, <2>1, <2>2, <2>3, NewRowsAre
    <3> QED
      BY <2>1, <3>1 DEF NewRowsOf
<1> HIDE DEF b, n, order
<1>10. AnswerIs(reply, rows, clock, f.cursor, b, n)
  BY <1>1, <1>7, <1>9, AnswerFacts DEF Typed, Flight
<1> HIDE DEF reply
<1>11. Answered(reply)
  BY <1>1, <1>7, <1>10, AnswerType DEF Flight
<1>12. /\ answer = Reply(reply.kind, reply.cursor, shown, {}, reply.hasMore, reply.writesAccepted)
       /\ answer \in Answers
  <2>1. answer = Reply(reply.kind, reply.cursor, shown, {}, reply.hasMore, reply.writesAccepted)
    BY <1>11 DEF Answered
  <2>2. shown \subseteq Row
    BY <1>11 DEF Answered, Typed
  <2> HIDE DEF shown, answer
  <2>3. Reply(reply.kind, reply.cursor, shown, {}, reply.hasMore, reply.writesAccepted) \in Answers
    BY <1>11, <2>2 DEF Answered, Reply, Answers
  <2> QED
    BY <2>1, <2>3
<1>13. /\ answer.kind = reply.kind /\ answer.cursor = reply.cursor /\ answer.page = shown
       /\ answer.hasMore = reply.hasMore /\ answer.writesAccepted = reply.writesAccepted
  <2> HIDE DEF shown, answer
  <2> QED
    BY <1>12, ReplyFields
<1>14. sent \in IdMap
  BY <1>4, <1>5, <1>6, <1>8, SentByType DEF Typed, SentIs
<1>15. remote \in Records
  BY DEF Brought, Records, Typed
<1>16. more \in BOOLEAN
  OBVIOUS
<1> HIDE DEF sent, answer, shown, more, current, remote
<1>17. /\ g \in Flight /\ g.stage = "answered" /\ g.startedDrained = f.drained
       /\ g.merged = f.merged /\ g.baseline = f.baseline /\ g.ids = f.ids /\ g.cursor = f.cursor
       /\ g.drained = f.drained /\ g.sent = sent /\ g.deletable = deletable
       /\ g.reply = answer /\ g.remote = remote
       /\ g.acknowledged = f.acknowledged /\ g.current = current
  <2>1. g \in Flight
    BY <1>1, <1>4, <1>5, <1>12, <1>14, <1>15, <1>16 DEF Flight, Stages
  <2>2. /\ g.stage = "answered" /\ g.startedDrained = f.drained
        /\ g.merged = f.merged /\ g.baseline = f.baseline /\ g.ids = f.ids /\ g.cursor = f.cursor
        /\ g.drained = f.drained /\ g.sent = sent /\ g.deletable = deletable
        /\ g.reply = answer /\ g.remote = remote
        /\ g.acknowledged = f.acknowledged /\ g.current = current
    BY <1>1 DEF Flight
  <2> QED
    BY <2>1, <2>2
<1> HIDE DEF g
<1>18. flight'[d] = g
  BY <1>8 DEF Typed
<1>19. reply.kind = "done" => reply.cursor = clock + n
  <2>1. CASE reply = ResetReply
    BY <2>1 DEF ResetReply, Reply
  <2>2. CASE reply = Reply("page", LastSeq(reply.page), reply.page, {},
                           reply.page # After(rows, f.cursor), ~WritesAsked(b))
    <3>1. PICK c, p, m, a : reply = Reply("page", c, p, {}, m, a)
      BY <2>2
    <3>2. reply.kind = "page"
      BY <3>1 DEF Reply
    <3> QED
      BY <3>2
  <2>3. CASE reply = Reply("conflict", clock, {}, Conflicts(rows, b.uploads), FALSE, FALSE)
    BY <2>3 DEF Reply
  <2>4. CASE reply = Reply("done", clock + n, {}, {}, FALSE, TRUE)
    BY <2>4 DEF Reply
  <2> QED
    BY <1>10, <2>1, <2>2, <2>3, <2>4 DEF AnswerIs
<1>20. /\ reply.kind = "done" => RelayMoves(f, S, order, n, deletable)
       /\ reply.kind # "done" => UNCHANGED relay
  BY <1>8, <1>19 DEF RelayMoves, b
<1>21. RoundIs(d, S, order, n, deletable, reply)
  BY <1>4, <1>6, <1>8, <1>10, <1>13, <1>17, <1>18, <1>20 DEF RoundIs, b, sent, remote, shown, current
<1> QED
  BY <1>1, <1>21

LEMMA RoundWrites ==
    ASSUME Typed, NEW d \in Devices, flight[d] \in Flight,
           NEW S, NEW order, NEW n, NEW deletable, NEW reply,
           RoundIs(d, S, order, n, deletable, reply), reply.kind = "done"
    PROVE  LET f == flight[d] IN
           /\ Writes(rows, clock, written, order, S, n, f.ids, deletable, rows')
           /\ RelayMoves(f, S, order, n, deletable) /\ n \in Nat /\ S \subseteq Keys
           /\ rows' \subseteq Row /\ Numbered(rows', clock') /\ RowsWritten'
           /\ body' \in Records /\ shared' \in Records
           /\ clock' = clock + n /\ written' = written + n
<1> DEFINE f == flight[d]
<1>1. /\ RelayMoves(f, S, order, n, deletable) /\ Orders(order, S, n) /\ n \in Nat
      /\ written + n <= MaxVersions
      /\ S \in SUBSET Keys /\ deletable \in SUBSET Keys
  BY KeyFacts DEF RoundIs, ChangedRecords, UploadKeys, CurrentRecordKeys, PlanDeletableKeys, Orders, Flight
<1>2. /\ rows \in SUBSET Row /\ clock \in Nat /\ written \in Nat /\ Numbered(rows, clock)
      /\ \A r \in rows : r.id.number <= written
      /\ body \in Records /\ shared \in Records /\ f.merged \in Records
  BY DEF Typed, RowsWritten, Flight
<1> HIDE DEF f
<1> DEFINE ids == f.ids
<1>3. Writes(rows, clock, written, order, S, n, ids, deletable, rows')
  <2>1. rows' = RowsAfter(rows, clock, BatchOf(order, n, written, ids, deletable))
    BY <1>1 DEF RelayMoves
  <2>2. n \in Nat
    BY <1>1
  <2> HIDE DEF ids
  <2>3. Writes(rows, clock, written, order, S, n, ids, deletable,
               RowsAfter(rows, clock, BatchOf(order, n, written, ids, deletable)))
    BY <1>1, <1>2, <2>2, WritesFollow
  <2> QED
    BY <2>1, <2>3
<1>4. /\ rows' \subseteq Row /\ Numbered(rows', clock + n)
      /\ \A r \in rows' : r.id.number <= written + n
  <2> DEFINE rs2 == rows'
  <2> HIDE DEF ids, rs2
  <2>1. Writes(rows, clock, written, order, S, n, ids, deletable, rs2)
    BY <1>3 DEF rs2
  <2>2. n \in Nat
    BY <1>1
  <2>3. /\ rs2 \subseteq Row /\ Numbered(rs2, clock + n)
        /\ \A r \in rs2 : r.id.number <= written + n
    BY <1>1, <1>2, <2>1, <2>2, WrittenNumbered
  <2> QED
    BY <2>3 DEF rs2
<1>5. body' \in Records
  BY <1>1, <1>2 DEF RelayMoves, Records
<1>6. shared' \in Records
  BY <1>1, <1>2, <1>5 DEF RelayMoves, Records
<1>7. clock' = clock + n /\ written' = written + n
  BY <1>1 DEF RelayMoves
<1>8. Numbered(rows', clock') /\ RowsWritten'
  BY <1>4, <1>7 DEF RowsWritten
<1> QED
  BY <1>1, <1>3, <1>4, <1>5, <1>6, <1>7, <1>8 DEF f

LEMMA RoundTyped == ASSUME Typed, NEW d \in Devices, Round(d) PROVE Typed'
<1> DEFINE f == flight[d]
           g == flight'[d]
<1>1. PICK S, order, n, deletable, reply : RoundIs(d, S, order, n, deletable, reply)
  BY RoundFacts
<1>2. f \in Flight /\ UNCHANGED <<device, bounds>>
  BY RoundFacts
<1>3. /\ g \in Flight /\ g.reply.page = reply.page \cup reply.conflicts
      /\ g.remote = Brought(g.reply.page, body) /\ flight' = [flight EXCEPT ![d] = g]
      /\ reply.kind # "done" => UNCHANGED relay
  BY <1>1 DEF RoundIs
<1>4. Shown(g)
  BY <1>3 DEF Shown, Brought, RemoteKeys
<1>5. flight' \in [Devices -> Flight] /\ \A e \in Devices : Shown(flight'[e])
  <2> DEFINE h == flight'[d]
  <2>1. h \in Flight /\ Shown(h) /\ flight' = [flight EXCEPT ![d] = h]
    BY <1>3, <1>4
  <2> HIDE DEF h
  <2> QED
    BY <2>1, FlightGoesOn
<1>6. /\ rows' \subseteq Row /\ clock' \in Nat /\ Numbered(rows', clock')
      /\ written' \in Nat /\ RowsWritten' /\ body' \in Records /\ shared' \in Records
  <2>1. CASE reply.kind = "done"
    <3>1. /\ rows' \subseteq Row /\ Numbered(rows', clock') /\ RowsWritten'
          /\ body' \in Records /\ shared' \in Records
          /\ clock' = clock + n /\ written' = written + n /\ n \in Nat
      BY <1>1, <1>2, <2>1, RoundWrites
    <3> QED
      BY <3>1 DEF Typed
  <2>2. CASE reply.kind # "done"
    BY <1>3, <2>2 DEF Typed, relay, RowsWritten
  <2> QED
    BY <2>1, <2>2
<1> QED
  BY <1>2, <1>5, <1>6 DEF Typed, device, bounds

\* What an answer brings the flight has, and knows as the relay holds it.
LEMMA ShownOK ==
    ASSUME Typed, Sound, NEW g \in Flight, g.reply.page \subseteq rows,
           g.remote = Brought(g.reply.page, body), Uploaded(g) = {},
           g.reply.writesAccepted => SentKeys(g) = {} /\ g.deletable = {},
           NEW cursor, Has(rows, body, Gone, cursor, g.merged),
           Knows(rows, body, cursor, g.ids, g.baseline),
           \A r \in rows : r.seq <= g.reply.cursor => r.seq <= cursor \/ r \in g.reply.page
    PROVE  /\ Has(rows, body, Gone, g.reply.cursor, Merged(g))
           /\ Told(rows, body, g.reply.cursor, IdsAfter(g), g)
           /\ Heard(g.remote, Gone)
<1>1. /\ \A r \in rows : r.slot \in Keys /\ body[r.slot] # {}
      /\ \A r, p \in rows : r.slot = p.slot => r = p
  BY DEF Typed, Row, Sound, RowsSpeak, Numbered, RowsNumbered
<1>2. \A k \in Keys : Merged(g)[k] = g.merged[k] \cup g.remote[k]
  BY DEF Merged
<1>3. \A k \in Keys : g.remote[k] = IF \E r \in g.reply.page : r.slot = k THEN body[k] ELSE {}
  BY DEF Brought
<1>4. ASSUME NEW r \in rows, r.seq <= g.reply.cursor, r \in g.reply.page
      PROVE  /\ body[r.slot] \subseteq Merged(g)[r.slot]
             /\ IdsAfter(g)[r.slot] = r.id /\ Tells(g, r.slot, body[r.slot])
  <2>1. r.slot \in Keys /\ g.remote[r.slot] = body[r.slot] /\ r.slot \in RemoteKeys(g)
    BY <1>1, <1>3, <1>4 DEF RemoteKeys
  <2>2. (CHOOSE p \in g.reply.page : p.slot = r.slot) = r
    BY <1>1, <1>4
  <2>3. IdsAfter(g)[r.slot] = r.id
    BY <2>1, <2>2 DEF IdsAfter
  <2>4. Tells(g, r.slot, body[r.slot])
    BY <2>1 DEF Tells
  <2> QED
    BY <1>2, <2>1, <2>3, <2>4
<1>5. ASSUME NEW r \in rows, r.seq <= g.reply.cursor, r \notin g.reply.page
      PROVE  /\ body[r.slot] \subseteq Merged(g)[r.slot] \/ r.slot \in Gone
             /\ IdsAfter(g)[r.slot] = r.id /\ Tells(g, r.slot, body[r.slot])
  <2>1. r.slot \in Keys /\ r.slot \notin RemoteKeys(g)
    BY <1>1, <1>3, <1>5 DEF RemoteKeys
  <2>2. r.seq <= cursor
    BY <1>5
  <2>3. IdsAfter(g)[r.slot] = g.ids[r.slot]
    BY <2>1 DEF IdsAfter
  <2>4. g.ids[r.slot] = r.id /\ g.baseline[r.slot] \in {{}, body[r.slot]}
    BY <2>2 DEF Knows
  <2>5. Tells(g, r.slot, body[r.slot])
    BY <2>1, <2>4 DEF Tells
  <2>6. body[r.slot] \subseteq g.merged[r.slot] \/ r.slot \in Gone
    BY <2>2 DEF Has
  <2> QED
    BY <1>2, <2>1, <2>3, <2>4, <2>5, <2>6
<1>6. Heard(g.remote, Gone)
  <2>1. \A n \in Notes : Tombstoned(g.remote, n) => Tombstoned(body, n)
    BY <1>3, KeyFacts DEF Tombstoned
  <2> QED
    BY <2>1 DEF Heard, Sound
<1> QED
  BY <1>4, <1>5, <1>6 DEF Has, Told

\* A round that is answered with records changes nothing but the flight.
LEMMA RoundShows ==
    ASSUME Typed, Sound, Typed', NEW d \in Devices, flight[d] \in Flight,
           flight[d].stage = "ready", UNCHANGED device,
           NEW S, NEW order, NEW n, NEW deletable, NEW reply,
           RoundIs(d, S, order, n, deletable, reply), reply.kind # "done"
    PROVE  Sound'
<1> DEFINE f == flight[d]
           g == flight'[d]
           b == BatchOf(order, n, written, f.ids, deletable)
           page == reply.page \cup reply.conflicts
<1>1. /\ UNCHANGED <<rows, body, clock, control, local>> /\ \A e \in Devices \ {d} : flight'[e] = flight[e]
      /\ flight' = [flight EXCEPT ![d] = g]
  BY DEF RoundIs, relay, device, Typed
<1>2. /\ Has(rows, body, Gone, f.cursor, f.merged) /\ Knows(rows, body, f.cursor, f.ids, f.baseline)
      /\ Clean(f.merged) /\ Heard(f.merged, Gone) /\ (f.drained => Within(f.merged, local[d], Gone))
      /\ Behind(f, control[d].cursor, clock)
  BY DEF Sound, DeviceOK, FlightOK
<1>3. /\ g \in Flight /\ g.stage = "answered" /\ g.startedDrained = f.drained
      /\ g.merged = f.merged /\ g.baseline = f.baseline /\ g.ids = f.ids /\ g.cursor = f.cursor
      /\ g.drained = f.drained /\ g.sent = SentBy(order, n, written) /\ g.deletable = deletable
      /\ g.reply.kind = reply.kind /\ g.reply.cursor = reply.cursor /\ g.reply.page = page
      /\ g.reply.writesAccepted = reply.writesAccepted /\ g.remote = Brought(page, body)
      /\ AnswerIs(reply, rows, clock, f.cursor, b, n) /\ n \in Nat
  BY DEF RoundIs, Orders
<1>4. f.cursor \in Nat /\ clock \in Nat /\ f.cursor <= clock
  BY <1>2 DEF Behind, Typed, Flight
<1>5. /\ page \subseteq rows /\ reply.cursor \in Nat /\ reply.cursor <= clock /\ reply.kind # "reset"
      /\ \A r \in rows : r.seq <= reply.cursor => r.seq <= f.cursor \/ r \in page
      /\ reply.writesAccepted => ~WritesAsked(b)
  <2>1. CASE f.cursor > clock
    BY <1>4, <2>1
  <2>2. CASE /\ PageIs(rows, f.cursor, clock, reply.page)
             /\ reply = Reply("page", LastSeq(reply.page), reply.page, {},
                              reply.page # After(rows, f.cursor), ~WritesAsked(b))
    <3> DEFINE last == LastSeq(reply.page)
               p == reply.page
               more == reply.page # After(rows, f.cursor)
               accepted == ~WritesAsked(b)
    <3>1. reply = Reply("page", last, p, {}, more, accepted)
      BY <2>2
    <3> HIDE DEF last, p, more, accepted
    <3>2. /\ reply.kind = "page" /\ reply.cursor = last /\ reply.conflicts = {}
          /\ reply.writesAccepted = accepted /\ reply.page = p
      BY <3>1, ReplyFields
    <3> QED
      BY <2>2, <3>2 DEF PageIs, last, p, accepted
  <2>3. CASE After(rows, f.cursor) = {}
             /\ reply = Reply("conflict", clock, {}, Conflicts(rows, b.uploads), FALSE, FALSE)
    <3> DEFINE c == Conflicts(rows, b.uploads)
    <3>1. c \subseteq rows
      BY DEF Conflicts
    <3>2. reply = Reply("conflict", clock, {}, c, FALSE, FALSE)
      BY <2>3
    <3> HIDE DEF c
    <3>3. /\ reply.kind = "conflict" /\ reply.cursor = clock /\ reply.page = {}
          /\ reply.conflicts = c /\ ~reply.writesAccepted
      BY <3>2 DEF Reply
    <3>4. \A r \in rows : r.seq <= f.cursor
      BY <1>4, <2>3 DEF After, Typed, Row
    <3> QED
      BY <1>4, <3>1, <3>3, <3>4
  <2>4. CASE reply = Reply("done", clock + n, {}, {}, FALSE, TRUE)
    BY <2>4 DEF Reply
  <2>5. AnswerIs(reply, rows, clock, f.cursor, b, n)
    BY <1>3
  <2> QED
    BY <2>1, <2>2, <2>3, <2>4, <2>5 DEF AnswerIs
<1>6. reply.writesAccepted => SentKeys(g) = {} /\ g.deletable = {}
  <2>1. ASSUME ~WritesAsked(b) PROVE SentKeys(g) = {} /\ deletable = {}
    <3>1. b.uploads = <<>> /\ b.deletions = {}
      BY <2>1 DEF WritesAsked
    <3>2. deletable = {}
      <4>1. b.deletions = {[slot |-> k, id |-> f.ids[k]] : k \in deletable}
        BY DEF BatchOf
      <4> HIDE DEF b, f
      <4> QED
        BY <3>1, <4>1
    <3>3. DOMAIN b.uploads = 1 .. n
      BY DEF BatchOf
    <3>4. ~(\E i \in 1 .. n : TRUE)
      BY <1>3, <3>1, <3>3
    <3>5. \A k \in Keys : g.sent[k] = NoId
      BY <1>3, <3>4 DEF SentBy
    <3> QED
      BY <3>2, <3>5 DEF SentKeys
  <2> QED
    BY <1>3, <1>5, <2>1
<1>7. Uploaded(g) = {}
  BY <1>3, <1>6 DEF Uploaded
<1> DEFINE h == flight'[d]
<1> HIDE DEF h, b, page
<1>8. /\ h \in Flight /\ h.reply.page \subseteq rows /\ h.remote = Brought(h.reply.page, body)
      /\ Uploaded(h) = {} /\ (h.reply.writesAccepted => SentKeys(h) = {} /\ h.deletable = {})
      /\ Has(rows, body, Gone, f.cursor, h.merged) /\ Knows(rows, body, f.cursor, h.ids, h.baseline)
      /\ \A r \in rows : r.seq <= h.reply.cursor => r.seq <= f.cursor \/ r \in h.reply.page
  BY <1>2, <1>3, <1>5, <1>6, <1>7 DEF h
<1>9. /\ Has(rows, body, Gone, h.reply.cursor, Merged(h))
      /\ Told(rows, body, h.reply.cursor, IdsAfter(h), h) /\ Heard(h.remote, Gone)
  BY <1>8, ShownOK
<1>10. AnswerOK(h, rows, body, Gone)
  BY <1>3, <1>5, <1>6, <1>9 DEF AnswerOK, h
<1>11. FlightOK(h, control[d].cursor, local[d], rows, body, Gone)
  BY <1>2, <1>3, <1>9, <1>10 DEF FlightOK, h
<1>12. Behind(h, control[d].cursor, clock)
  BY <1>2, <1>3, <1>5 DEF Behind, h
<1> QED
  BY <1>1, <1>11, <1>12, FlightSound DEF h

\* The rows after a round that writes, as the flight knows them.
RowAfter(d, r, S, order, n, deletable) ==
    \/ /\ r \in rows /\ r.slot \notin S /\ r.slot \notin deletable
       /\ r.seq <= flight[d].cursor /\ flight[d].ids[r.slot] = r.id
       /\ body'[r.slot] = body[r.slot] /\ flight[d].baseline[r.slot] \in {{}, body[r.slot]}
       /\ body[r.slot] \subseteq flight[d].merged[r.slot] \/ r.slot \in Gone
    \/ /\ r.slot \in S /\ r.seq > clock /\ body'[r.slot] = flight[d].merged[r.slot]
       /\ SentBy(order, n, written)[r.slot] = r.id

RowsAfterRound(d, S, order, n, deletable, reply) ==
    /\ \A r \in rows' : r.slot \in Keys /\ RowAfter(d, r, S, order, n, deletable)
    /\ \A k \in S : \E r \in rows' : r.slot = k
    /\ \A r \in rows : r.seq <= flight[d].cursor /\ (r \in rows' \/ r.slot \in S \cup deletable)
    /\ \A k \in Keys : body'[k] = IF k \in S THEN flight[d].merged[k]
                                  ELSE IF \E r \in rows' : r.slot = k THEN body[k] ELSE {}
    /\ \A k \in S : k \in Keys /\ flight[d].drained /\ flight[d].merged[k] # {}
    /\ reply = Reply("done", clock + n, {}, {}, FALSE, TRUE) /\ n \in Nat
    /\ clock' = clock + n

LEMMA RoundRows ==
    ASSUME Typed, Sound, NEW d \in Devices, flight[d] \in Flight, flight[d].stage = "ready",
           NEW S, NEW order, NEW n, NEW deletable, NEW reply,
           RoundIs(d, S, order, n, deletable, reply), reply.kind = "done"
    PROVE  RowsAfterRound(d, S, order, n, deletable, reply)
<1> DEFINE f == flight[d]
           ids == f.ids
           b == BatchOf(order, n, written, f.ids, deletable)
           sent == SentBy(order, n, written)
<1>1. /\ Orders(order, S, n) /\ n \in Nat /\ written + n <= MaxVersions /\ S \subseteq ChangedRecords(f)
      /\ AnswerIs(reply, rows, clock, f.cursor, b, n)
  BY DEF RoundIs, Orders
<1>2. /\ Has(rows, body, Gone, f.cursor, f.merged) /\ Knows(rows, body, f.cursor, ids, f.baseline)
      /\ Behind(f, control[d].cursor, clock)
  BY DEF Sound, DeviceOK, FlightOK
<1>3. f.cursor \in Nat /\ clock \in Nat /\ written \in Nat /\ rows \subseteq Row
  BY DEF Typed, Flight
<1>4. After(rows, f.cursor) = {} /\ reply = Reply("done", clock + n, {}, {}, FALSE, TRUE)
  <2>1. CASE reply = ResetReply
    BY <2>1 DEF ResetReply, Reply
  <2>2. CASE reply = Reply("page", LastSeq(reply.page), reply.page, {},
                           reply.page # After(rows, f.cursor), ~WritesAsked(b))
    <3>1. PICK c, p, m, a : reply = Reply("page", c, p, {}, m, a)
      BY <2>2
    <3>2. reply.kind = "page"
      BY <3>1 DEF Reply
    <3> QED
      BY <3>2
  <2>3. CASE reply = Reply("conflict", clock, {}, Conflicts(rows, b.uploads), FALSE, FALSE)
    BY <2>3 DEF Reply
  <2> QED
    BY <1>1, <2>1, <2>2, <2>3 DEF AnswerIs
<1>5. \A r \in rows : r.seq <= f.cursor /\ r.slot \in Keys
  BY <1>3, <1>4 DEF After, Row
<1>6. /\ Writes(rows, clock, written, order, S, n, ids, deletable, rows')
      /\ RelayMoves(f, S, order, n, deletable) /\ S \subseteq Keys /\ clock' = clock + n
  BY RoundWrites
<1>7. \A k \in Keys : body'[k] = IF k \in S THEN f.merged[k]
                                 ELSE IF \E r \in rows' : r.slot = k THEN body[k] ELSE {}
  BY <1>6 DEF RelayMoves
<1>8. \A k \in S : k \in Keys /\ f.drained /\ f.merged[k] # {}
  BY <1>1, <1>6 DEF ChangedRecords, UploadKeys, CurrentRecordKeys
<1>9. ASSUME NEW i \in 1 .. n
      PROVE  /\ NewRowIs(NewRow(order, written, clock, i), order[i], written, clock, i) /\ order[i] \in S
             /\ sent[order[i]] = [slot |-> order[i], number |-> written + i]
  <2>1. S \in SUBSET Keys /\ n \in Nat
    BY <1>1, <1>6
  <2>2. NewRowIs(NewRow(order, written, clock, i), order[i], written, clock, i) /\ order[i] \in S
    BY <1>1, <1>3, <2>1, NewRowType
  <2>3. SentIs(sent, order, S, n, written)
    BY <1>1, <1>3, <2>1, SentByType
  <2> HIDE DEF sent
  <2> QED
    BY <2>2, <2>3 DEF SentIs
<1> HIDE DEF f, ids, b, sent
<1>10. ASSUME NEW r \in rows'
       PROVE  r.slot \in Keys /\ RowAfter(d, r, S, order, n, deletable)
  <2>1. CASE r \in rows /\ r.slot \notin S /\ ~(r.slot \in deletable /\ r.id = ids[r.slot])
    <3>1. r.slot \in Keys /\ r.seq <= f.cursor
      BY <1>5, <2>1
    <3>2. ids[r.slot] = r.id /\ f.baseline[r.slot] \in {{}, body[r.slot]}
      BY <1>2, <2>1, <3>1 DEF Knows
    <3>3. body[r.slot] \subseteq f.merged[r.slot] \/ r.slot \in Gone
      BY <1>2, <2>1, <3>1 DEF Has
    <3>4. body'[r.slot] = body[r.slot]
      BY <1>7, <2>1, <3>1
    <3> QED
      BY <2>1, <3>1, <3>2, <3>3, <3>4 DEF RowAfter, f, ids
  <2>2. CASE \E i \in 1 .. n : r = NewRow(order, written, clock, i)
    <3>1. PICK i \in 1 .. n : r = NewRow(order, written, clock, i)
      BY <2>2
    <3>2. /\ r.slot = order[i] /\ order[i] \in S /\ r.seq = clock + i
          /\ r.id = [slot |-> order[i], number |-> written + i] /\ sent[order[i]] = r.id
      BY <1>9, <3>1 DEF NewRowIs
    <3>3. r.seq > clock
      BY <1>1, <1>3, <3>2
    <3>4. body'[r.slot] = f.merged[r.slot] /\ r.slot \in Keys
      BY <1>7, <1>8, <3>2
    <3> QED
      BY <3>2, <3>3, <3>4 DEF RowAfter, f, sent
  <2> QED
    BY <1>6, <2>1, <2>2 DEF Writes
<1>11. ASSUME NEW k \in S PROVE \E r \in rows' : r.slot = k
  <2>1. PICK i \in 1 .. n : order[i] = k
    BY <1>1 DEF Orders
  <2>2. NewRow(order, written, clock, i) \in rows' /\ NewRow(order, written, clock, i).slot = k
    BY <1>6, <2>1 DEF Writes, NewRow
  <2> QED
    BY <2>2
<1>12. \A r \in rows : r \in rows' \/ r.slot \in S \cup deletable
  BY <1>6 DEF Writes
<1> QED
  BY <1>1, <1>4, <1>5, <1>6, <1>7, <1>8, <1>10, <1>11, <1>12 DEF f, RowsAfterRound

\* A round that writes.
LEMMA RoundDone ==
    ASSUME Typed, Sound, Typed', NEW d \in Devices, flight[d] \in Flight,
           flight[d].stage = "ready", UNCHANGED device,
           NEW S, NEW order, NEW n, NEW deletable, NEW reply,
           RoundIs(d, S, order, n, deletable, reply), reply.kind = "done"
    PROVE  Sound'
<1> DEFINE f == flight[d]
           g == flight'[d]
<1>1. /\ UNCHANGED <<control, local>> /\ Gone' = Gone /\ TombstonesStay
      /\ \A e \in Devices \ {d} : flight'[e] = flight[e]
  BY DEF RoundIs, device, Typed, Gone, GoneForGood, Tombstoned, TombstonesStay
<1>2. /\ Clean(f.merged) /\ Heard(f.merged, Gone) /\ (f.drained => Within(f.merged, local[d], Gone))
      /\ Behind(f, control[d].cursor, clock) /\ RowsSpeak /\ Heard(body, Gone)
      /\ Clean(local[d]) /\ Has(rows, body, Gone, control[d].cursor, local[d])
      /\ Knows(rows, body, control[d].cursor, control[d].ids, control[d].baseline)
  BY DEF Sound, DeviceOK, FlightOK
<1>3. /\ g \in Flight /\ g.stage = "answered" /\ g.startedDrained = f.drained
      /\ g.merged = f.merged /\ g.baseline = f.baseline /\ g.ids = f.ids /\ g.cursor = f.cursor
      /\ g.drained = f.drained /\ g.sent = SentBy(order, n, written) /\ g.deletable = deletable
      /\ g.reply.kind = reply.kind /\ g.reply.cursor = reply.cursor
      /\ g.reply.hasMore = reply.hasMore /\ g.reply.writesAccepted = reply.writesAccepted
      /\ g.remote = Brought(reply.page \cup reply.conflicts, body)
      /\ Orders(order, S, n) /\ written + n <= MaxVersions
  BY DEF RoundIs
<1>4. /\ clock \in Nat /\ written \in Nat /\ control[d].cursor \in Nat /\ rows' \in SUBSET Row
      /\ clock' \in Nat /\ f.cursor \in Nat /\ f.reply.cursor \in Nat
  BY DEF Typed, Control, Flight, Answers
<1>5. /\ \A r \in rows' : r.slot \in Keys /\ RowAfter(d, r, S, order, n, deletable)
      /\ \A k \in S : \E r \in rows' : r.slot = k
      /\ \A k \in Keys : body'[k] = IF k \in S THEN f.merged[k]
                                    ELSE IF \E r \in rows' : r.slot = k THEN body[k] ELSE {}
      /\ \A k \in S : k \in Keys /\ f.drained /\ f.merged[k] # {}
      /\ reply = Reply("done", clock + n, {}, {}, FALSE, TRUE) /\ n \in Nat
      /\ clock' = clock + n
  <2>1. RowsAfterRound(d, S, order, n, deletable, reply)
    BY RoundRows
  <2> QED
    BY <2>1 DEF RowsAfterRound
<1>6. /\ reply.kind = "done" /\ reply.cursor = clock' /\ reply.page = {} /\ reply.conflicts = {}
      /\ ~reply.hasMore /\ reply.writesAccepted
  BY <1>5 DEF Reply
<1>7. RowsSpeak'
  <2>1. ASSUME NEW k \in S, k \in Keys PROVE body'[k] # {} /\ \E r \in rows' : r.slot = k
    BY <1>5, <2>1
  <2>2. ASSUME NEW k \in Keys \ S, NEW r \in rows', r.slot = k PROVE body'[k] # {}
    <3>1. r \in rows /\ body'[k] = body[k]
      BY <1>5, <2>2 DEF RowAfter
    <3> QED
      BY <1>2, <2>2, <3>1 DEF RowsSpeak
  <2>3. ASSUME NEW k \in Keys \ S, body'[k] # {} PROVE \E r \in rows' : r.slot = k
    BY <1>5, <2>3
  <2> QED
    BY <2>1, <2>2, <2>3 DEF RowsSpeak
<1>8. Heard(body', Gone')
  <2>1. ASSUME NEW m \in Notes, Tombstoned(body', m) PROVE NoteKey(m) \in Gone
    <3>1. Tombstoned(f.merged, m) \/ Tombstoned(body, m)
      BY <1>5, <2>1, KeyFacts DEF Tombstoned
    <3> QED
      BY <1>2, <3>1 DEF Heard
  <2> QED
    BY <1>1, <2>1 DEF Heard
<1>9. Grown(rows, body, clock, rows', body') /\ clock <= clock'
  BY <1>4, <1>5 DEF Grown, RowAfter
<1>10. /\ SentBy(order, n, written) \in IdMap
       /\ \A k \in Keys : SentBy(order, n, written)[k] # NoId <=> k \in S
  <2>1. S \in SUBSET Keys /\ Orders(order, S, n) /\ written \in Nat /\ written + n <= MaxVersions
    BY <1>3, <1>4, <1>5
  <2>2. SentIs(SentBy(order, n, written), order, S, n, written)
    BY <2>1, SentByType
  <2> QED
    BY <2>2 DEF SentIs
<1>11. RemoteKeys(g) = {} /\ SentKeys(g) = S /\ Uploaded(g) = S
  <2>1. \A k \in Keys : g.remote[k] = {}
    BY <1>3, <1>6 DEF Brought
  <2>2. SentKeys(g) = S
    BY <1>3, <1>5, <1>10 DEF SentKeys
  <2> QED
    BY <1>3, <1>6, <2>1, <2>2 DEF RemoteKeys, Uploaded
<1>12. \A k \in Keys : IdsAfter(g)[k] = IF k \in S THEN SentBy(order, n, written)[k]
                                        ELSE IF k \in deletable THEN NoId ELSE f.ids[k]
  BY <1>3, <1>6, <1>11 DEF IdsAfter
<1>13. Has(rows', body', Gone, clock', Merged(g))
  <2>1. \A k \in Keys : f.merged[k] \subseteq Merged(g)[k]
    BY <1>3 DEF Merged
  <2> QED
    BY <1>5, <2>1 DEF Has, RowAfter
<1>14. Told(rows', body', clock', IdsAfter(g), g)
  <2>1. ASSUME NEW r \in rows' PROVE IdsAfter(g)[r.slot] = r.id /\ Tells(g, r.slot, body'[r.slot])
    <3>1. r.slot \in Keys /\ RowAfter(d, r, S, order, n, deletable)
      BY <1>5
    <3>2. IdsAfter(g)[r.slot] = r.id
      BY <1>12, <3>1 DEF RowAfter
    <3>3. Tells(g, r.slot, body'[r.slot])
      BY <1>3, <1>11, <3>1 DEF Tells, RowAfter
    <3> QED
      BY <3>2, <3>3
  <2> QED
    BY <2>1 DEF Told
<1>15. AnswerOK(g, rows', body', Gone)
  <2>1. /\ g.reply.kind # "reset" /\ g.startedDrained = f.drained /\ g.drained = f.drained
        /\ RemoteKeys(g) = {} /\ ~g.reply.hasMore /\ g.reply.cursor = clock'
    BY <1>3, <1>6, <1>11
  <2>2. SentKeys(g) # {} => f.drained
    BY <1>5, <1>11
  <2> HIDE DEF f, g
  <2> QED
    BY <1>13, <1>14, <2>1, <2>2 DEF AnswerOK
<1>16. Heard(g.remote, Gone)
  BY <1>3, <1>6, KeyFacts DEF Brought, Heard, Tombstoned
<1>17. FlightOK(g, control[d].cursor, local[d], rows', body', Gone)
  BY <1>2, <1>3, <1>15, <1>16 DEF FlightOK
<1>18. Behind(g, control[d].cursor, clock')
  BY <1>2, <1>3, <1>4, <1>6, <1>9 DEF Behind
<1>19. /\ Has(rows', body', Gone, control[d].cursor, local[d])
       /\ Knows(rows', body', control[d].cursor, control[d].ids, control[d].baseline)
  <2> DEFINE rs2 == rows'
             b2 == body'
             cursor == control[d].cursor
             mine == local[d]
             gone == Gone
  <2>1. /\ rs2 \in SUBSET Row /\ Grown(rows, body, clock, rs2, b2) /\ cursor \in Nat /\ cursor <= clock
        /\ Has(rows, body, gone, cursor, mine) /\ clock \in Nat
        /\ Knows(rows, body, cursor, control[d].ids, control[d].baseline)
    BY <1>2, <1>4, <1>9 DEF Behind
  <2> HIDE DEF rs2, b2, cursor, mine, gone
  <2>2. Has(rs2, b2, gone, cursor, mine)
    BY <2>1, HasKept, WithinSelf
  <2>3. Knows(rs2, b2, cursor, control[d].ids, control[d].baseline)
    BY <2>1, KnowsKept
  <2> QED
    BY <2>2, <2>3 DEF rs2, b2, cursor, mine, gone
<1>20. DeviceOK(d)'
  BY <1>1, <1>2, <1>17, <1>18, <1>19 DEF DeviceOK
<1> QED
  BY <1>1, <1>7, <1>8, <1>9, <1>20, StepSound

LEMMA RoundInv == ASSUME IInv, NEW d \in Devices, Round(d) PROVE IInv'
<1>1. Typed'
  BY RoundTyped DEF IInv
<1>2. PICK S, order, n, deletable, reply : RoundIs(d, S, order, n, deletable, reply)
  BY RoundFacts DEF IInv
<1>3. flight[d] \in Flight /\ flight[d].stage = "ready" /\ UNCHANGED <<device, bounds>>
  BY RoundFacts DEF IInv
<1>4. ASSUME Sound PROVE Sound'
  BY <1>1, <1>2, <1>3, <1>4, RoundShows, RoundDone DEF IInv
<1> QED
  BY <1>1, <1>3, <1>4 DEF IInv, bounds

-----------------------------------------------------------------------------
(* Every step.                                                              *)

LEMMA StutterInv == ASSUME IInv, UNCHANGED vars PROVE IInv'
<1>1. UNCHANGED <<rows, clock, body, written, shared, local, outbox, burying, control, flight, forgets>>
  BY DEF vars, relay, device, bounds
<1>2. Typed'
  BY <1>1 DEF IInv, Typed, RowsWritten
<1>3. ASSUME Sound PROVE Sound'
  <2>1. Typed /\ TombstonesStay
    BY <1>1 DEF IInv, TombstonesStay
  <2>2. /\ Grown(rows, body, clock, rows', body') /\ clock <= clock'
        /\ RowsSpeak' /\ Heard(body', Gone')
    BY <1>1, <1>3, <2>1, RowsStay
  <2>3. ASSUME NEW e \in Devices PROVE DeviceOK(e)'
    <3>1. control'[e] = control[e] /\ flight'[e] = flight[e] /\ local'[e] = local[e]
      BY <1>1
    <3>2. Clean(local'[e])
      BY <1>3, <3>1 DEF Sound, DeviceOK
    <3>3. Within(local[e], local'[e], Gone')
      BY <3>1, WithinSelf
    <3> QED
      BY <1>2, <1>3, <2>1, <2>2, <3>1, <3>2, <3>3, OthersKept, GoneGrows
  <2> QED
    BY <2>2, <2>3 DEF Sound
<1> QED
  BY <1>1, <1>2, <1>3 DEF IInv

LEMMA NextInv == ASSUME IInv, [Next]_vars PROVE IInv'
<1>1. CASE UNCHANGED vars
  BY <1>1, StutterInv
<1>2. CASE Forget
  BY <1>2, ForgetInv
<1>3. ASSUME NEW d \in Devices, FlightStep(d) PROVE IInv'
  BY <1>3, TakeSnapshotInv, ReadControlInv, RoundInv, StartOverInv, ApplyPulledInv,
     MarkDirtyInv, NextPageInv, CommitInv DEF FlightStep
<1>4. ASSUME NEW d \in Devices, UserStep(d) PROVE IInv'
  <2>1. PICK n \in Notes :
            (\E e \in Edits : Edit(d, n, e)) \/ DeleteNoteForever(d, n) \/ QueueTombstone(d, n)
    BY <1>4 DEF UserStep
  <2> QED
    BY <2>1, EditInv, DeleteInv, QueueInv
<1>5. ASSUME NEW d \in Devices, Fail(d) \/ Crash(d) PROVE IInv'
  BY <1>5, FailInv, CrashInv
<1> QED
  BY <1>1, <1>2, <1>3, <1>4, <1>5 DEF Next

LEMMA Invariant == Spec => []IInv
<1>1. Init => IInv
  BY InitInv
<1>2. IInv /\ [Next]_vars => IInv'
  BY NextInv
<1> QED
  BY <1>1, <1>2, PTL DEF Spec

-----------------------------------------------------------------------------
(* The theorems.                                                            *)

\* Whatever devices, users and the connection do, sweeps included, every
\* variable holds a value of its kind: rows stay one per record, version and
\* sequence number, and no number is ahead of the account's clock.
THEOREM DevicesTyped == Spec => []TypeOK
<1>1. IInv => TypeOK
  BY DEF IInv, Typed, TypeOK, Control, Flight, IdMap
<1> QED
  BY <1>1, Invariant, PTL

\* As long as the account is not swept, no device's cursor passes a row it has
\* not merged, whenever users act and wherever a flight fails.
THEOREM CursorsSkipNothing == Spec => [](forgets = 0 => NothingSkipped)
<1>1. IInv => (forgets = 0 => NothingSkipped)
  <2>1. ASSUME Typed, Sound PROVE NothingSkipped
    <3>1. \A r \in rows : r.slot \in Keys
      BY <2>1 DEF Typed, Row
    <3> QED
      BY <2>1, <3>1 DEF Sound, DeviceOK, Has, NothingSkipped, Gone
  <2> QED
    BY <2>1 DEF IInv
<1> QED
  BY <1>1, Invariant, PTL

\* As long as the account is not swept, a device knows the live version of
\* every row its cursor has passed, and never takes for the relay's copy what
\* the relay does not hold: an upload it skips is one the relay has.
THEOREM DevicesKnowWhatIsHeld == Spec => [](forgets = 0 => KnowsWhatIsHeld)
<1>1. IInv => (forgets = 0 => KnowsWhatIsHeld)
  BY DEF IInv, Sound, DeviceOK, Knows, KnowsWhatIsHeld
<1> QED
  BY <1>1, Invariant, PTL

\* A round takes nothing from a record but what a tombstone condemns: what it
\* writes has what the row it replaces said, and it drops only such notes.
LEMMA RoundKeeps ==
    ASSUME Typed, Sound, NEW d \in Devices, Round(d), NEW k \in Keys
    PROVE  body[k] \subseteq body'[k] \/ k \in Gone
<1> DEFINE f == flight[d]
<1>1. PICK S, order, n, deletable, reply : RoundIs(d, S, order, n, deletable, reply)
  BY RoundFacts
<1>2. f \in Flight /\ f.stage = "ready"
  BY RoundFacts
<1>3. CASE reply.kind # "done"
  BY <1>1, <1>3 DEF RoundIs, relay
<1>4. CASE reply.kind = "done" /\ body[k] # {}
  <2>1. RowsAfterRound(d, S, order, n, deletable, reply)
    BY <1>1, <1>2, <1>4, RoundRows
  <2>2. PICK r \in rows : r.slot = k
    BY <1>4 DEF Sound, RowsSpeak
  <2>3. Has(rows, body, Gone, f.cursor, f.merged) /\ Heard(f.merged, Gone)
    BY <1>2 DEF Sound, DeviceOK, FlightOK
  <2>4. CASE k \in S
    <3>1. body'[k] = f.merged[k] /\ r.seq <= f.cursor
      BY <2>1, <2>4 DEF RowsAfterRound
    <3> QED
      BY <2>2, <2>3, <3>1 DEF Has
  <2>5. CASE k \notin S /\ r \in rows'
    <3>1. body'[k] = body[k]
      BY <2>1, <2>2, <2>5 DEF RowsAfterRound
    <3> QED
      BY <3>1
  <2>6. CASE k \in deletable
    <3>1. deletable \subseteq PlanDeletableKeys(f.ids, f.merged)
      BY <1>1 DEF RoundIs
    <3>2. PICK m \in Notes : k = NoteKey(m) /\ Tombstoned(f.merged, m)
      BY <2>6, <3>1 DEF PlanDeletableKeys
    <3> QED
      BY <2>3, <3>2 DEF Heard
  <2>7. r \in rows' \/ k \in S \cup deletable
    BY <2>1, <2>2 DEF RowsAfterRound
  <2> QED
    BY <2>4, <2>5, <2>6, <2>7
<1> QED
  BY <1>3, <1>4

\* But for the sweep, only rounds change what the relay holds.
LEMMA OnlyRoundsWrite ==
    ASSUME Next
    PROVE  Forget \/ (forgets' = forgets /\ (body' = body \/ \E d \in Devices : Round(d)))
<1>1. ASSUME NEW d \in Devices, FlightStep(d)
      PROVE  forgets' = forgets /\ (body' = body \/ Round(d))
  <2>1. CASE Round(d)
    BY <2>1 DEF Round, bounds
  <2>2. CASE TakeSnapshot(d) \/ ReadControl(d)
    BY <2>2 DEF TakeSnapshot, ReadControl, relay, bounds
  <2>3. CASE StartOver(d) \/ ApplyPulled(d)
    BY <2>3 DEF StartOver, ApplyPulled, relay, bounds
  <2>4. CASE MarkDirty(d) \/ NextPage(d) \/ CommitSyncControl(d)
    BY <2>4 DEF MarkDirty, NextPage, CommitSyncControl, relay, bounds
  <2> QED
    BY <1>1, <2>1, <2>2, <2>3, <2>4 DEF FlightStep
<1>2. ASSUME NEW d \in Devices, UserStep(d) PROVE forgets' = forgets /\ body' = body
  BY <1>2 DEF UserStep, Edit, DeleteNoteForever, QueueTombstone, relay, bounds
<1>3. ASSUME NEW d \in Devices, Fail(d) \/ Crash(d) PROVE forgets' = forgets /\ body' = body
  BY <1>3 DEF Fail, Crash, relay
<1> QED
  BY <1>1, <1>2, <1>3 DEF Next

\* A write never takes from a record what another device put there, and a
\* record goes only when a device has its tombstone.  MaxForgets = 0: once the
\* account is swept and made again, a device that was away may find its cursor
\* level with rows it never met, and write over them.
THEOREM NoUpdateIsLost == ASSUME MaxForgets = 0 PROVE Spec => NoLostUpdate
<1> DEFINE Unswept == forgets = 0
           Keeps == forgets' = forgets => \A k \in Keys : body[k] \subseteq body'[k] \/ GoneForGood(k)
<1>1. Init => Unswept
  BY DEF Init
<1>2. Unswept /\ [Next]_vars => Unswept'
  BY OnlyRoundsWrite DEF Forget, vars, bounds
<1>3. IInv /\ Unswept /\ [Next]_vars => Keeps
  <2> SUFFICES ASSUME IInv, Unswept, Next, NEW k \in Keys
               PROVE  body[k] \subseteq body'[k] \/ GoneForGood(k)
    BY DEF vars, relay
  <2>1. CASE body' = body
    BY <2>1
  <2>2. CASE \E d \in Devices : Round(d)
    BY <2>2, RoundKeeps DEF IInv, Gone
  <2>3. ~Forget
    BY DEF Forget
  <2>4. body' = body \/ \E d \in Devices : Round(d)
    BY <2>3, OnlyRoundsWrite
  <2> QED
    BY <2>1, <2>2, <2>4
<1>4. IInv /\ Unswept /\ [Next]_vars => [Keeps]_vars
  BY <1>3
<1> HIDE DEF Unswept
<1>5. Spec => [][Keeps]_vars
  BY <1>1, <1>2, <1>4, Invariant, PTL DEF Spec
<1> QED
  BY <1>5 DEF NoLostUpdate

-----------------------------------------------------------------------------
(* What a device still has to send, when users act between flights: the     *)
(* invariant of NothingStranded.  It holds through sweeps too, as it speaks *)
(* of what the relay has ever held.                                         *)

\* The relay has held what the flight has of these records.
Held(f, S, held, gone) == \A k \in S : f.merged[k] \subseteq held[k] \/ k \in gone

Both(a, b) == [k \in Keys |-> a[k] \cup b[k]]

\* The flight has its device's records and what the relay has held, and what
\* it takes for sent was held: nothing it acknowledges is left to send.
FlightSafe(f, mine, held, gone) ==
    /\ Heard(f.merged, gone) /\ Heard(f.remote, gone)
    /\ Within(f.baseline, held, gone) /\ Within(f.remote, held, gone)
    /\ f.stage # "idle" => Within(mine, f.merged, gone) /\ Within(f.merged, Both(mine, held), gone)
    /\ Held(f, f.acknowledged, held, gone)
    /\ f.stage \in {"answered", "pulled"} => Held(f, Uploaded(f), held, gone)
    /\ f.stage = "answered" /\ f.reply.writesAccepted => f.deletable \subseteq gone
    /\ f.stage \in {"answered", "pulled", "marked"} => Held(f, Keys \ f.current, held, gone)

Buried(notes) == { TombstoneKey(n) : n \in notes }

\* A record the relay never held is marked, or about to be.
Due(mine, marks, tombstones, held, gone) ==
    \A k \in Keys : mine[k] \subseteq held[k] \/ marks[k] # "none" \/ k \in tombstones \/ k \in gone

DeviceSafe(d) ==
    /\ Within(control[d].baseline, shared, Gone)
    /\ FlightSafe(flight[d], local[d], shared, Gone)
    /\ Due(local[d], outbox[d], Buried(burying[d]), shared, Gone)

BodyShared == \A k \in Keys : body[k] \subseteq shared[k]

Safe == BodyShared /\ Heard(body, Gone) /\ \A d \in Devices : DeviceSafe(d)

SInv == IInv /\ Safe

LEMMA FlightSafeKept ==
    ASSUME NEW f \in Flight, NEW mine, NEW held, NEW gone, FlightSafe(f, mine, held, gone),
           NEW held2, \A k \in Keys : held[k] \subseteq held2[k], NEW more, gone \subseteq more
    PROVE  FlightSafe(f, mine, held2, more)
<1>1. /\ f.acknowledged \subseteq Keys /\ Uploaded(f) \subseteq Keys
      /\ \A k \in Keys : Both(mine, held)[k] \subseteq Both(mine, held2)[k]
  BY DEF Flight, Uploaded, SentKeys, Both
<1>2. \A S : S \subseteq Keys /\ Held(f, S, held, gone) => Held(f, S, held2, more)
  BY DEF Held
<1>3. \A a : Within(a, held, gone) => Within(a, held2, more)
  BY DEF Within
<1>4. \A a, b : Within(a, b, gone) => Within(a, b, more)
  BY DEF Within
<1>5. \A a : Within(a, Both(mine, held), gone) => Within(a, Both(mine, held2), more)
  BY <1>1 DEF Within
<1>6. \A a : Heard(a, gone) => Heard(a, more)
  BY DEF Heard
<1>7. Keys \ f.current \subseteq Keys
  OBVIOUS
<1> QED
  BY <1>1, <1>2, <1>3, <1>4, <1>5, <1>6, <1>7 DEF FlightSafe

LEMMA DueKept ==
    ASSUME NEW mine, NEW marks, NEW tombstones, NEW held, NEW gone, Due(mine, marks, tombstones, held, gone),
           NEW held2, \A k \in Keys : held[k] \subseteq held2[k], NEW more, gone \subseteq more
    PROVE  Due(mine, marks, tombstones, held2, more)
BY DEF Due

LEMMA NoFlightSafe == \A mine, held, gone : FlightSafe(NoFlight, mine, held, gone)
<1>1. /\ NoFlight.stage = "idle" /\ NoFlight.merged = NoRecords /\ NoFlight.remote = NoRecords
      /\ NoFlight.baseline = NoRecords /\ NoFlight.acknowledged = {}
  BY DEF NoFlight
<1> QED
  BY <1>1, EmptyRecords DEF FlightSafe, Held, Within

\* A step of one device is safe if that device is, as what the relay has held
\* and what is gone only grow.
LEMMA StepSafe ==
    ASSUME SInv, Typed', NEW d \in Devices,
           \A e \in Devices \ {d} :
                /\ control'[e] = control[e] /\ flight'[e] = flight[e] /\ local'[e] = local[e]
                /\ outbox'[e] = outbox[e] /\ burying'[e] = burying[e],
           TombstonesStay, \A k \in Keys : shared[k] \subseteq shared'[k],
           BodyShared', Heard(body', Gone'), DeviceSafe(d)'
    PROVE  Safe'
<1>1. ASSUME NEW e \in Devices \ {d} PROVE DeviceSafe(e)'
  <2> DEFINE f == flight[e]
             own == control[e]
             mine == local[e]
             marks == outbox[e]
             tombstones == Buried(burying[e])
             gone == Gone
             more == Gone'
             held == shared
             held2 == shared'
  <2>1. /\ Within(own.baseline, held, gone) /\ FlightSafe(f, mine, held, gone)
        /\ Due(mine, marks, tombstones, held, gone)
    BY DEF SInv, Safe, DeviceSafe
  <2>2. gone \subseteq more /\ (\A k \in Keys : held[k] \subseteq held2[k]) /\ f \in Flight
    BY GoneGrows DEF SInv, IInv, Typed
  <2> HIDE DEF f, own, mine, marks, tombstones, gone, more, held, held2
  <2>3. FlightSafe(f, mine, held2, more)
    BY <2>1, <2>2, FlightSafeKept
  <2>4. Due(mine, marks, tombstones, held2, more)
    BY <2>1, <2>2, DueKept
  <2>5. Within(own.baseline, held2, more)
    BY <2>1, <2>2 DEF Within
  <2> QED
    BY <1>1, <2>3, <2>4, <2>5 DEF DeviceSafe, f, own, mine, marks, tombstones, more, held2
<1> QED
  BY <1>1 DEF Safe

\* A step of a flight that leaves the relay and the device's records.
LEMMA FlightStepSafe ==
    ASSUME SInv, Typed', NEW d \in Devices, UNCHANGED <<relay, local, burying>>,
           \A e \in Devices \ {d} :
                control'[e] = control[e] /\ flight'[e] = flight[e] /\ outbox'[e] = outbox[e],
           Within(control'[d].baseline, shared, Gone),
           FlightSafe(flight'[d], local[d], shared, Gone),
           Due(local[d], outbox'[d], Buried(burying[d]), shared, Gone)
    PROVE  Safe'
<1>1. Gone' = Gone /\ TombstonesStay /\ shared' = shared /\ body' = body
  BY DEF Gone, GoneForGood, Tombstoned, TombstonesStay, relay
<1>2. BodyShared' /\ Heard(body', Gone')
  BY <1>1 DEF SInv, Safe, BodyShared
<1>3. DeviceSafe(d)'
  BY <1>1 DEF DeviceSafe
<1> QED
  BY <1>1, <1>2, <1>3, StepSafe

LEMMA InitSafe == ASSUME Init, Replaced = {} PROVE Safe
<1>1. PICK start \in Starts : local = [d \in Devices |-> [k \in Keys |->
                    IF \E n \in start[d] : k = NoteKey(n) THEN {Origin} ELSE {}]]
  BY DEF Init
<1>2. body = NoRecords /\ shared = NoRecords
  BY DEF Init
<1>3. ASSUME NEW d \in Devices PROVE DeviceSafe(d)
  <2>1. flight[d] = NoFlight /\ control[d].baseline = NoRecords
    BY DEF Init
  <2>2. \A k \in Keys : local[d][k] = {} \/ outbox[d][k] = "queued"
    BY DEF Init
  <2>3. Due(local[d], outbox[d], Buried(burying[d]), shared, Gone)
    BY <2>2 DEF Due
  <2>4. Within(control[d].baseline, shared, Gone)
    BY <1>2, <2>1 DEF Within
  <2> QED
    BY <2>1, <2>3, <2>4, NoFlightSafe DEF DeviceSafe
<1>4. BodyShared /\ Heard(body, Gone)
  BY <1>2, EmptyRecords DEF BodyShared
<1> QED
  BY <1>3, <1>4 DEF Safe

-----------------------------------------------------------------------------
(* The user's steps.                                                        *)

\* What the user does between flights is marked, or about to be.
LEMMA UserSafe ==
    ASSUME SInv, Typed', NEW d \in Devices, UNCHANGED <<relay, control, flight>>,
           \A e \in Devices \ {d} : local'[e] = local[e] /\ outbox'[e] = outbox[e] /\ burying'[e] = burying[e],
           TombstonesStay, local'[d] = local[d] \/ flight[d].stage = "idle",
           Due(local'[d], outbox'[d], Buried(burying'[d]), shared, Gone')
    PROVE  Safe'
<1> DEFINE f == flight[d]
           mine == local[d]
           mine2 == local'[d]
           gone == Gone
           more == Gone'
<1>1. gone \subseteq more /\ shared' = shared /\ body' = body /\ f \in Flight
  BY GoneGrows DEF relay, SInv, IInv, Typed
<1>2. FlightSafe(f, mine, shared, gone) /\ Within(control[d].baseline, shared, gone)
  BY DEF SInv, Safe, DeviceSafe
<1> HIDE DEF f, mine, mine2, gone, more
<1>3. FlightSafe(f, mine, shared, more)
  BY <1>1, <1>2, FlightSafeKept
<1>4. FlightSafe(f, mine2, shared, more)
  BY <1>3 DEF FlightSafe, f, mine, mine2
<1>5. Within(control[d].baseline, shared, more)
  BY <1>1, <1>2 DEF Within
<1>6. DeviceSafe(d)'
  BY <1>1, <1>4, <1>5 DEF DeviceSafe, f, mine2, more
<1>7. BodyShared' /\ Heard(body', Gone')
  BY <1>1 DEF SInv, Safe, BodyShared, Heard, gone, more
<1> QED
  BY <1>1, <1>6, <1>7, StepSafe

LEMMA EditSafe ==
    ASSUME SInv, IInv', UserActsAt \subseteq {"idle"},
           NEW d \in Devices, NEW n \in Notes, NEW e \in Edits, Edit(d, n, e)
    PROVE  Safe'
<1> DEFINE k == NoteKey(n)
<1>1. /\ flight[d].stage = "idle" /\ UNCHANGED <<relay, burying, control, flight>>
      /\ local' = [local EXCEPT ![d][k] = @ \cup {e}]
      /\ outbox' = [outbox EXCEPT ![d][k] = "queued"]
  BY DEF Edit, UserActs, MarkOf
<1>2. k \in Keys /\ local \in [Devices -> Records] /\ outbox \in [Devices -> [Keys -> Marks]]
  BY KeyFacts DEF SInv, IInv, Typed
<1>3. /\ \A c \in Devices \ {d} : local'[c] = local[c] /\ outbox'[c] = outbox[c]
      /\ \A c \in Keys \ {k} : local'[d][c] = local[d][c] /\ outbox'[d][c] = outbox[d][c]
      /\ local[d][k] \subseteq local'[d][k] /\ outbox'[d][k] = "queued"
  BY <1>1, <1>2 DEF Records
<1> HIDE DEF k
<1>4. TombstonesStay
  BY <1>3 DEF TombstonesStay, Tombstoned, k, NoteKey, TombstoneKey, Keys
<1>5. Due(local'[d], outbox'[d], Buried(burying'[d]), shared, Gone')
  <2>1. Due(local[d], outbox[d], Buried(burying[d]), shared, Gone) /\ Gone \subseteq Gone'
    BY <1>4, GoneGrows DEF SInv, Safe, DeviceSafe
  <2> QED
    BY <1>1, <1>3, <2>1 DEF Due
<1> QED
  BY <1>1, <1>3, <1>4, <1>5, UserSafe DEF IInv

LEMMA DeleteSafe ==
    ASSUME SInv, IInv', UserActsAt \subseteq {"idle"},
           NEW d \in Devices, NEW n \in Notes, DeleteNoteForever(d, n)
    PROVE  Safe'
<1> DEFINE k == NoteKey(n)
           t == TombstoneKey(n)
<1>1. /\ flight[d].stage = "idle" /\ UNCHANGED <<relay, outbox, control, flight>>
      /\ local' = [local EXCEPT ![d][k] = {}, ![d][t] = {Dead}]
      /\ burying' = [burying EXCEPT ![d] = @ \cup {n}]
  BY DEF DeleteNoteForever, UserActs
<1>2. /\ k \in Keys /\ t \in Keys /\ k # t /\ local \in [Devices -> Records]
      /\ burying \in [Devices -> SUBSET Notes]
  BY KeyFacts DEF SInv, IInv, Typed
<1>3. /\ \A c \in Devices \ {d} : local'[c] = local[c] /\ burying'[c] = burying[c]
      /\ \A c \in Keys \ {k, t} : local'[d][c] = local[d][c]
      /\ local'[d][k] = {} /\ local'[d][t] = {Dead} /\ burying'[d] = burying[d] \cup {n}
  BY <1>1, <1>2 DEF Records
<1>4. \A m \in Notes : TombstoneKey(m) \in Keys \ {k}
  BY KeyFacts
<1>5. t \in Buried(burying'[d]) /\ Buried(burying[d]) \subseteq Buried(burying'[d])
  BY <1>3 DEF Buried
<1> HIDE DEF k, t
<1>6. TombstonesStay
  <2>1. \A m \in Notes : Tombstoned(local[d], m) => Tombstoned(local'[d], m)
    BY <1>3, <1>4 DEF Tombstoned
  <2> QED
    BY <1>3, <2>1 DEF TombstonesStay
<1>7. Due(local'[d], outbox'[d], Buried(burying'[d]), shared, Gone')
  <2>1. Due(local[d], outbox[d], Buried(burying[d]), shared, Gone) /\ Gone \subseteq Gone'
    BY <1>6, GoneGrows DEF SInv, Safe, DeviceSafe
  <2> QED
    BY <1>1, <1>3, <1>5, <2>1 DEF Due
<1> QED
  BY <1>1, <1>3, <1>6, <1>7, UserSafe DEF IInv

LEMMA QueueSafe ==
    ASSUME SInv, IInv', NEW d \in Devices, NEW n \in Notes, QueueTombstone(d, n)
    PROVE  Safe'
<1> DEFINE t == TombstoneKey(n)
<1>1. /\ UNCHANGED <<relay, local, control, flight>>
      /\ outbox' = [outbox EXCEPT ![d][t] = MarkOf(flight[d].stage)]
      /\ burying' = [burying EXCEPT ![d] = @ \ {n}]
  BY DEF QueueTombstone
<1>2. /\ t \in Keys /\ outbox \in [Devices -> [Keys -> Marks]] /\ MarkOf(flight[d].stage) # "none"
      /\ burying \in [Devices -> SUBSET Notes]
  BY KeyFacts DEF SInv, IInv, Typed, MarkOf
<1>3. /\ \A c \in Devices \ {d} : outbox'[c] = outbox[c] /\ burying'[c] = burying[c]
      /\ \A c \in Keys \ {t} : outbox'[d][c] = outbox[d][c]
      /\ outbox'[d][t] # "none" /\ burying'[d] = burying[d] \ {n}
  BY <1>1, <1>2
<1>4. Buried(burying[d]) \ {t} \subseteq Buried(burying'[d])
  BY <1>3 DEF Buried
<1>5. TombstonesStay
  BY <1>1 DEF TombstonesStay
<1>6. Due(local'[d], outbox'[d], Buried(burying'[d]), shared, Gone')
  <2>1. Due(local[d], outbox[d], Buried(burying[d]), shared, Gone) /\ Gone \subseteq Gone'
    BY <1>5, GoneGrows DEF SInv, Safe, DeviceSafe
  <2> HIDE DEF t
  <2> QED
    BY <1>1, <1>3, <1>4, <2>1 DEF Due
<1> QED
  BY <1>1, <1>3, <1>5, <1>6, UserSafe DEF IInv

-----------------------------------------------------------------------------
(* A flight's own steps.                                                    *)

LEMMA SnapshotSafe == ASSUME SInv, IInv', NEW d \in Devices, TakeSnapshot(d) PROVE Safe'
<1> DEFINE g == [NoFlight EXCEPT !.stage = "snapped", !.merged = local[d]]
<1>1. flight' = [flight EXCEPT ![d] = g] /\ UNCHANGED <<relay, device, bounds>>
  BY DEF TakeSnapshot
<1>2. /\ g.stage = "snapped" /\ g.merged = local[d] /\ g.remote = NoRecords
      /\ g.baseline = NoRecords /\ g.acknowledged = {}
  BY DEF NoFlight
<1> HIDE DEF g
<1>3. flight'[d] = g /\ \A e \in Devices \ {d} : flight'[e] = flight[e]
  BY <1>1 DEF SInv, IInv, Typed
<1>4. Heard(local[d], Gone)
  BY KeyFacts DEF Heard, Gone, GoneForGood
<1>5. Within(local[d], Both(local[d], shared), Gone) /\ Within(local[d], local[d], Gone)
  BY DEF Within, Both
<1>6. FlightSafe(g, local[d], shared, Gone)
  BY <1>2, <1>4, <1>5, EmptyRecords DEF FlightSafe, Within, Held
<1> QED
  BY <1>1, <1>3, <1>6, FlightStepSafe DEF SInv, IInv, Safe, DeviceSafe, device

LEMMA ReadSafe == ASSUME SInv, IInv', NEW d \in Devices, ReadControl(d) PROVE Safe'
<1> DEFINE f == flight[d]
           own == control[d]
           first == own.baseline = NoRecords
           g == [f EXCEPT !.stage = "ready", !.baseline = own.baseline, !.ids = own.ids,
                          !.firstFullUpload = first, !.cursor = IF first THEN 0 ELSE own.cursor,
                          !.outboxKeys = MarkedKeys(outbox[d])]
<1>1. /\ flight' = [flight EXCEPT ![d] = g] /\ UNCHANGED <<relay, device, bounds>>
      /\ f.stage = "snapped" /\ f \in Flight
  BY DEF ReadControl, SInv, IInv, Typed
<1>2. /\ g.stage = "ready" /\ g.merged = f.merged /\ g.remote = f.remote
      /\ g.baseline = own.baseline /\ g.acknowledged = f.acknowledged
  BY <1>1 DEF Flight
<1> HIDE DEF g
<1>3. flight'[d] = g /\ \A e \in Devices \ {d} : flight'[e] = flight[e]
  BY <1>1 DEF SInv, IInv, Typed
<1>4. FlightSafe(f, local[d], shared, Gone) /\ Within(own.baseline, shared, Gone)
  BY DEF SInv, Safe, DeviceSafe
<1>5. FlightSafe(g, local[d], shared, Gone)
  BY <1>1, <1>2, <1>4 DEF FlightSafe, Held
<1> QED
  BY <1>1, <1>3, <1>4, <1>5, FlightStepSafe DEF SInv, IInv, Safe, DeviceSafe, device

LEMMA StartOverSafe == ASSUME SInv, IInv', NEW d \in Devices, StartOver(d) PROVE Safe'
<1> DEFINE f == flight[d]
           g == [f EXCEPT !.stage = "ready", !.baseline = NoRecords, !.ids = NoIds, !.cursor = 0,
                          !.reply = NoReply, !.sent = NoIds, !.deletable = {}]
<1>1. /\ flight' = [flight EXCEPT ![d] = g] /\ UNCHANGED <<relay, device, bounds>>
      /\ f.stage = "answered" /\ f \in Flight
  BY DEF StartOver, SInv, IInv, Typed
<1>2. /\ g.stage = "ready" /\ g.merged = f.merged /\ g.remote = f.remote
      /\ g.baseline = NoRecords /\ g.acknowledged = f.acknowledged
  BY <1>1 DEF Flight
<1> HIDE DEF g
<1>3. flight'[d] = g /\ \A e \in Devices \ {d} : flight'[e] = flight[e]
  BY <1>1 DEF SInv, IInv, Typed
<1>4. FlightSafe(f, local[d], shared, Gone) /\ Within(NoRecords, shared, Gone)
  BY EmptyRecords DEF SInv, Safe, DeviceSafe, Within
<1>5. FlightSafe(g, local[d], shared, Gone)
  BY <1>1, <1>2, <1>4 DEF FlightSafe, Held
<1> QED
  BY <1>1, <1>3, <1>5, FlightStepSafe DEF SInv, IInv, Safe, DeviceSafe, device

\* What a flight marks as sent stays marked if it differs from what came.
LEMMA MarkSafe == ASSUME SInv, IInv', NEW d \in Devices, MarkDirty(d) PROVE Safe'
<1> DEFINE f == flight[d]
           dirty == DirtyKeys(f)
           baseline == ReconciledBaseline(f)
           acknowledged == f.acknowledged \cup Uploaded(f) \cup (RemoteKeys(f) \ dirty)
           g == [f EXCEPT !.stage = "marked", !.baseline = baseline, !.remote = NoRecords,
                          !.acknowledged = acknowledged, !.outboxKeys = f.outboxKeys \cup dirty,
                          !.internal = f.internal \cup dirty]
           marks == [k \in Keys |-> IF k \in dirty THEN "internal" ELSE outbox[d][k]]
<1>1. /\ flight' = [flight EXCEPT ![d] = g] /\ outbox' = [outbox EXCEPT ![d] = marks]
      /\ UNCHANGED <<relay, local, burying, control, bounds>>
      /\ f.stage = "pulled" /\ f \in Flight
  BY DEF MarkDirty, SInv, IInv, Typed
<1>2. /\ FlightSafe(f, local[d], shared, Gone) /\ Within(control[d].baseline, shared, Gone)
      /\ Due(local[d], outbox[d], Buried(burying[d]), shared, Gone)
  BY DEF SInv, Safe, DeviceSafe
<1>3. \A k \in Keys : baseline[k] \subseteq shared[k] \/ k \in Gone
  <2>1. \A k \in Keys : f.remote[k] \subseteq shared[k] \/ k \in Gone
    BY <1>2 DEF FlightSafe, Within
  <2>2. \A k \in Keys : f.baseline[k] \subseteq shared[k] \/ k \in Gone
    BY <1>2 DEF FlightSafe, Within
  <2>3. \A k \in Uploaded(f) : f.merged[k] \subseteq shared[k] \/ k \in Gone
    BY <1>1, <1>2 DEF FlightSafe, Held
  <2>4. \A k \in Keys : k \in RemoteKeys(f) /\ k \notin dirty => f.merged[k] \in {{}, f.remote[k]}
    BY DEF DirtyKeys
  <2>5. \A k \in Keys : baseline[k] =
            IF f.merged[k] = {} THEN {}
            ELSE IF k \in dirty THEN f.remote[k]
            ELSE IF k \in Uploaded(f) \cup RemoteKeys(f) THEN f.merged[k] ELSE f.baseline[k]
    BY DEF ReconciledBaseline
  <2> HIDE DEF f, dirty, baseline
  <2> QED
    BY <2>1, <2>2, <2>3, <2>4, <2>5
<1>4. Held(f, acknowledged, shared, Gone)
  <2>1. \A k \in f.acknowledged \cup Uploaded(f) : f.merged[k] \subseteq shared[k] \/ k \in Gone
    BY <1>1, <1>2 DEF FlightSafe, Held
  <2>2. \A k \in RemoteKeys(f) \ dirty : f.merged[k] \subseteq shared[k] \/ k \in Gone
    BY <1>2 DEF FlightSafe, Within, DirtyKeys, RemoteKeys
  <2> QED
    BY <2>1, <2>2 DEF Held
<1>5. Due(local[d], marks, Buried(burying[d]), shared, Gone)
  BY <1>2 DEF Due
<1> HIDE DEF dirty, baseline, acknowledged, marks
<1>6. /\ g.stage = "marked" /\ g.merged = f.merged /\ g.remote = NoRecords /\ g.current = f.current
      /\ g.baseline = baseline /\ g.acknowledged = acknowledged
  BY <1>1 DEF Flight
<1> HIDE DEF g
<1>7. /\ flight'[d] = g /\ outbox'[d] = marks
      /\ \A e \in Devices \ {d} : flight'[e] = flight[e] /\ outbox'[e] = outbox[e]
  BY <1>1 DEF SInv, IInv, Typed
<1>8. /\ Heard(g.merged, Gone) /\ Heard(g.remote, Gone)
      /\ Within(g.baseline, shared, Gone) /\ Within(g.remote, shared, Gone)
      /\ Held(g, g.acknowledged, shared, Gone)
  BY <1>2, <1>3, <1>4, <1>6, EmptyRecords DEF FlightSafe, Within, Held
<1>9. Held(g, Keys \ g.current, shared, Gone) /\ Within(local[d], g.merged, Gone)
      /\ Within(g.merged, Both(local[d], shared), Gone)
  BY <1>1, <1>2, <1>6 DEF FlightSafe, Held
<1>10. FlightSafe(g, local[d], shared, Gone)
  BY <1>6, <1>8, <1>9 DEF FlightSafe
<1> QED
  BY <1>1, <1>2, <1>5, <1>7, <1>10, FlightStepSafe DEF IInv

LEMMA ContinuedSafe ==
    ASSUME NEW f \in Flight, f.stage = "marked", NEW acknowledged, NEW mine, NEW held, NEW gone,
           FlightSafe(f, mine, held, gone), Held(f, acknowledged, held, gone)
    PROVE  FlightSafe(Continued(f, acknowledged), mine, held, gone)
<1> DEFINE internal == IF f.drained THEN f.internal \ acknowledged ELSE f.internal
           h == [f EXCEPT !.stage = "ready", !.acknowledged = acknowledged, !.internal = internal,
                          !.reply = NoReply, !.current = {}, !.startedDrained = FALSE,
                          !.sent = NoIds, !.deletable = {}, !.moreChanged = FALSE]
<1>1. Continued(f, acknowledged) \in {h, NoFlight}
  BY DEF Continued
<1> HIDE DEF internal
<1>2. /\ h.stage = "ready" /\ h.merged = f.merged /\ h.remote = f.remote
      /\ h.baseline = f.baseline /\ h.acknowledged = acknowledged
  BY DEF Flight
<1> HIDE DEF h
<1>3. FlightSafe(h, mine, held, gone)
  BY <1>2 DEF FlightSafe, Held
<1> QED
  BY <1>1, <1>3, NoFlightSafe

LEMMA NextPageSafe == ASSUME SInv, IInv', NEW d \in Devices, NextPage(d) PROVE Safe'
<1> DEFINE f == flight[d]
           g == Continued(f, f.acknowledged)
<1>1. /\ flight' = [flight EXCEPT ![d] = g] /\ UNCHANGED <<relay, device, bounds>>
      /\ f.stage = "marked" /\ f \in Flight
  BY DEF NextPage, SInv, IInv, Typed
<1>2. FlightSafe(f, local[d], shared, Gone)
  BY DEF SInv, Safe, DeviceSafe
<1>3. Held(f, f.acknowledged, shared, Gone)
  BY <1>2 DEF FlightSafe
<1> DEFINE mine == local[d]
           acknowledged == f.acknowledged
<1> HIDE DEF f, g, mine, acknowledged
<1>4. FlightSafe(Continued(f, acknowledged), mine, shared, Gone)
  BY <1>1, <1>2, <1>3, ContinuedSafe DEF mine, acknowledged
<1>5. flight'[d] = g /\ \A e \in Devices \ {d} : flight'[e] = flight[e]
  BY <1>1 DEF SInv, IInv, Typed
<1>6. FlightSafe(flight'[d], local[d], shared, Gone)
  BY <1>4, <1>5 DEF g, mine, acknowledged
<1> QED
  BY <1>1, <1>5, <1>6, FlightStepSafe DEF SInv, IInv, Safe, DeviceSafe, device

\* A mark is taken only from what the relay has held.
LEMMA CommitSafe == ASSUME SInv, IInv', NEW d \in Devices, CommitSyncControl(d) PROVE Safe'
<1> DEFINE f == flight[d]
           mine == local[d]
           acknowledged == Acknowledged(f)
           g == Continued(f, acknowledged)
           marks == Cleared(f, outbox[d])
           marks2 == IF g = NoFlight THEN OldMarks(marks) ELSE marks
           own == [baseline |-> f.baseline, ids |-> f.ids, cursor |-> f.cursor]
<1>1. /\ flight' = [flight EXCEPT ![d] = g] /\ control' = [control EXCEPT ![d] = own]
      /\ outbox' = [outbox EXCEPT ![d] = marks2]
      /\ UNCHANGED <<relay, local, burying, bounds>>
      /\ f.stage = "marked" /\ f \in Flight
  BY DEF CommitSyncControl, SInv, IInv, Typed
<1>2. /\ FlightSafe(f, mine, shared, Gone)
      /\ Due(mine, outbox[d], Buried(burying[d]), shared, Gone)
  BY DEF SInv, Safe, DeviceSafe
<1>3. Held(f, acknowledged, shared, Gone)
  <2>1. \A k \in f.acknowledged : f.merged[k] \subseteq shared[k] \/ k \in Gone
    BY <1>2 DEF FlightSafe, Held
  <2>2. \A k \in SettledKeys(f) : f.merged[k] \subseteq shared[k] \/ k \in Gone
    BY <1>1, <1>2 DEF FlightSafe, Held, Within, SettledKeys, Flight
  <2> QED
    BY <2>1, <2>2 DEF Held, Acknowledged
<1>4. acknowledged \subseteq Keys
  BY <1>1 DEF Acknowledged, SettledKeys, Flight
<1>5. \A k \in Keys : marks[k] = outbox[d][k] \/ k \in acknowledged
  BY DEF Cleared
<1>6. \A k \in Keys : marks2[k] # "none" <=> marks[k] # "none"
  BY DEF OldMarks
<1> HIDE DEF f, mine, acknowledged, g, marks, marks2, own
<1>7. Due(mine, marks2, Buried(burying[d]), shared, Gone)
  <2>1. \A k \in acknowledged : mine[k] \subseteq shared[k] \/ k \in Gone
    BY <1>1, <1>2, <1>3, <1>4 DEF FlightSafe, Within, Held
  <2> QED
    BY <1>2, <1>5, <1>6, <2>1 DEF Due
<1>8. FlightSafe(Continued(f, acknowledged), mine, shared, Gone)
  BY <1>1, <1>2, <1>3, ContinuedSafe
<1>9. /\ flight'[d] = g /\ control'[d] = own /\ outbox'[d] = marks2
      /\ \A e \in Devices \ {d} :
            flight'[e] = flight[e] /\ control'[e] = control[e] /\ outbox'[e] = outbox[e]
  BY <1>1 DEF SInv, IInv, Typed
<1>10. Within(own.baseline, shared, Gone)
  BY <1>2 DEF FlightSafe, own
<1> QED
  BY <1>1, <1>7, <1>8, <1>9, <1>10, FlightStepSafe DEF IInv, g, mine

\* A flight that ends early leaves its device's marks.
LEMMA EndedSafe ==
    ASSUME SInv, IInv', NEW d \in Devices, flight' = [flight EXCEPT ![d] = NoFlight],
           outbox' = [outbox EXCEPT ![d] = OldMarks(@)],
           UNCHANGED <<relay, local, control, burying>>
    PROVE  Safe'
<1> DEFINE marks == OldMarks(outbox[d])
<1>1. /\ flight'[d] = NoFlight /\ outbox'[d] = marks
      /\ \A e \in Devices \ {d} : flight'[e] = flight[e] /\ outbox'[e] = outbox[e]
  BY DEF SInv, IInv, Typed
<1>2. /\ Within(control[d].baseline, shared, Gone)
      /\ Due(local[d], outbox[d], Buried(burying[d]), shared, Gone)
  BY DEF SInv, Safe, DeviceSafe
<1>3. Due(local[d], marks, Buried(burying[d]), shared, Gone)
  BY <1>2 DEF Due, OldMarks
<1> HIDE DEF marks
<1> QED
  BY <1>1, <1>2, <1>3, NoFlightSafe, FlightStepSafe DEF IInv

LEMMA CrashSafe ==
    ASSUME SInv, IInv', ~CrashWhileBurying, NEW d \in Devices, Crash(d)
    PROVE  Safe'
<1>1. burying[d] = {}
  BY DEF Crash
<1>2. burying' = burying
  BY <1>1 DEF Crash, SInv, IInv, Typed
<1> QED
  BY <1>2, EndedSafe DEF Crash

LEMMA ForgetSafe == ASSUME SInv, IInv', Forget PROVE Safe'
<1>1. UNCHANGED <<shared, local, outbox, burying, control, flight>> /\ body' = NoRecords
  BY DEF Forget, device
<1>2. Gone' = Gone
  BY <1>1 DEF Gone, GoneForGood, Tombstoned
<1>3. BodyShared' /\ Heard(body', Gone')
  BY <1>1, EmptyRecords DEF BodyShared
<1>4. \A d \in Devices : DeviceSafe(d)'
  BY <1>1, <1>2 DEF SInv, Safe, DeviceSafe
<1> QED
  BY <1>3, <1>4 DEF Safe

LEMMA MergeAtMost ==
    ASSUME NEW a, NEW c, NEW k \in Keys
    PROVE  MergeRecords(a, c)[k] \subseteq a[k] \cup c[k]
BY DEF MergeRecords, WithoutTombstoned

\* What lands on the device and was not its own the relay has held.
LEMMA PulledSafe ==
    ASSUME SInv, NEW d \in Devices, flight[d].stage = "answered"
    PROVE  LET f == flight[d] IN
           /\ Heard(Pulled(d), Gone) /\ Within(local[d], Pulled(d), Gone)
           /\ \A n \in Notes : Lands(f) /\ Tombstoned(local[d], n) => Tombstoned(Pulled(d), n)
           /\ Within(Pulled(d), Both(local[d], shared), Gone)
           /\ Within(Pulled(d), Both(f.merged, shared), Gone)
<1> DEFINE f == flight[d]
           m == MergeRecords(f.merged, f.remote)
           mine == local[d]
           all == MergeRecords(mine, m)
<1>1. f.merged \in Records /\ f.remote \in Records /\ mine \in Records
  BY DEF SInv, IInv, Typed, Flight
<1>2. /\ Heard(f.merged, Gone) /\ Heard(f.remote, Gone) /\ Within(f.remote, shared, Gone)
      /\ Within(mine, f.merged, Gone) /\ Within(f.merged, Both(mine, shared), Gone)
  BY DEF SInv, Safe, DeviceSafe, FlightSafe
<1>3. Heard(mine, Gone)
  BY KeyFacts DEF Heard, Gone, GoneForGood
<1>4. Pulled(d) = IF Lands(f) THEN all ELSE m
  BY DEF Pulled
<1>5. \A k \in Keys : m[k] \subseteq f.merged[k] \cup f.remote[k] /\ all[k] \subseteq mine[k] \cup m[k]
  BY MergeAtMost
<1> HIDE DEF f, mine
<1>6. MergeIs(m, f.merged, f.remote, Gone)
  BY <1>1, <1>2, MergeFacts
<1>7. m \in Records /\ Heard(m, Gone)
  BY <1>6 DEF MergeIs
<1> HIDE DEF m
<1>8. MergeIs(all, mine, m, Gone)
  BY <1>1, <1>3, <1>7, MergeFacts
<1> HIDE DEF all
<1>9. Heard(Pulled(d), Gone)
  BY <1>4, <1>7, <1>8 DEF MergeIs
<1>10. Within(mine, Pulled(d), Gone)
  BY <1>2, <1>4, <1>6, <1>8 DEF MergeIs, Within
<1>11. \A n \in Notes : Lands(f) /\ Tombstoned(mine, n) => Tombstoned(Pulled(d), n)
  BY <1>4, <1>8 DEF MergeIs
<1>12. \A k \in Keys \ Gone :
            /\ Pulled(d)[k] \subseteq mine[k] \cup f.merged[k] \cup f.remote[k]
            /\ f.remote[k] \subseteq shared[k] /\ mine[k] \subseteq f.merged[k]
            /\ f.merged[k] \subseteq mine[k] \cup shared[k]
  BY <1>2, <1>4, <1>5 DEF Within, Both
<1>13. Within(Pulled(d), Both(mine, shared), Gone)
  BY <1>12 DEF Within, Both
<1>14. Within(Pulled(d), Both(f.merged, shared), Gone)
  BY <1>12 DEF Within, Both
<1> QED
  BY <1>9, <1>10, <1>11, <1>13, <1>14 DEF f, mine

LEMMA ApplySafe == ASSUME SInv, IInv', NEW d \in Devices, ApplyPulled(d) PROVE Safe'
<1> DEFINE f == flight[d]
           g == flight'[d]
           mine == local[d]
           mine2 == local'[d]
           pulled == Pulled(d)
<1>1. /\ f \in Flight /\ f.stage = "answered" /\ g.stage = "pulled" /\ g.merged = pulled
      /\ g.remote = f.remote /\ g.baseline = f.baseline /\ g.sent = f.sent
      /\ g.reply.writesAccepted = f.reply.writesAccepted
      /\ g.acknowledged = f.acknowledged \cup (IF f.reply.writesAccepted THEN f.deletable ELSE {})
      /\ g.current = f.current \cup RemoteKeys(f)
      /\ mine2 = IF Lands(f) THEN pulled ELSE mine
      /\ \A e \in Devices \ {d} : flight'[e] = flight[e] /\ local'[e] = local[e]
      /\ UNCHANGED <<relay, outbox, burying, control, bounds>>
  BY ApplyPulledFacts DEF SInv, IInv
<1>2. /\ Heard(pulled, Gone) /\ Within(mine, pulled, Gone)
      /\ \A n \in Notes : Lands(f) /\ Tombstoned(mine, n) => Tombstoned(pulled, n)
      /\ Within(pulled, Both(mine, shared), Gone) /\ Within(pulled, Both(f.merged, shared), Gone)
  BY <1>1, PulledSafe
<1>3. /\ FlightSafe(f, mine, shared, Gone) /\ Within(control[d].baseline, shared, Gone)
      /\ Due(mine, outbox[d], Buried(burying[d]), shared, Gone)
  BY DEF SInv, Safe, DeviceSafe
<1>4. TombstonesStay
  BY <1>1, <1>2 DEF TombstonesStay
<1>5. Gone \subseteq Gone' /\ shared' = shared /\ body' = body
  BY <1>1, <1>4, GoneGrows DEF relay
<1> DEFINE gone == Gone
           more == Gone'
<1>6. gone \subseteq more
  BY <1>5
<1> HIDE DEF f, g, mine, mine2, pulled, more
<1>7. \A S : S \subseteq Keys /\ Held(f, S, shared, gone) => Held(g, S, shared, gone)
  BY <1>1, <1>2 DEF Held, Within, Both
<1>8. /\ f.acknowledged \subseteq Keys /\ Uploaded(f) \subseteq Keys /\ Uploaded(g) = Uploaded(f)
      /\ f.deletable \subseteq Keys
  BY <1>1 DEF Uploaded, SentKeys, Flight
<1>9. Held(g, g.acknowledged, shared, gone)
  <2>1. Held(g, f.acknowledged, shared, gone)
    BY <1>3, <1>7, <1>8 DEF FlightSafe
  <2>2. f.reply.writesAccepted => f.deletable \subseteq gone
    BY <1>1, <1>3 DEF FlightSafe
  <2> QED
    BY <1>1, <2>1, <2>2 DEF Held
<1>10. Held(g, Uploaded(g), shared, gone)
  BY <1>1, <1>3, <1>7, <1>8 DEF FlightSafe
<1>11. Held(g, Keys \ g.current, shared, gone)
  <2>1. Held(g, Keys \ f.current, shared, gone)
    BY <1>1, <1>3, <1>7 DEF FlightSafe
  <2> QED
    BY <1>1, <2>1 DEF Held
<1>12. Within(mine2, g.merged, gone) /\ Within(g.merged, Both(mine2, shared), gone)
  BY <1>1, <1>2 DEF Within, Both
<1>13. Heard(g.merged, gone) /\ Heard(g.remote, gone) /\ Within(g.baseline, shared, gone)
       /\ Within(g.remote, shared, gone)
  BY <1>1, <1>2, <1>3 DEF FlightSafe
<1>14. FlightSafe(g, mine2, shared, gone)
  BY <1>1, <1>9, <1>10, <1>11, <1>12, <1>13 DEF FlightSafe
<1>15. Due(mine2, outbox[d], Buried(burying[d]), shared, gone)
  BY <1>1, <1>2, <1>3 DEF Due, Within, Both
<1>16. g \in Flight /\ \A k \in Keys : shared[k] \subseteq shared[k]
  BY DEF IInv, Typed, g
<1> HIDE DEF gone
<1>17. FlightSafe(g, mine2, shared, more)
  BY <1>6, <1>14, <1>16, FlightSafeKept
<1>18. Due(mine2, outbox[d], Buried(burying[d]), shared, more)
  BY <1>6, <1>15 DEF Due
<1>19. Within(control[d].baseline, shared, more)
  BY <1>3, <1>6 DEF Within, gone
<1>20. DeviceSafe(d)'
  BY <1>1, <1>5, <1>17, <1>18, <1>19 DEF DeviceSafe, g, mine2, more
<1>21. BodyShared' /\ Heard(body', Gone')
  BY <1>5 DEF SInv, Safe, BodyShared, Heard
<1> QED
  BY <1>1, <1>4, <1>5, <1>20, <1>21, StepSafe DEF IInv

-----------------------------------------------------------------------------
(* A round.                                                                 *)

\* A round that wrote nothing and accepts was asked nothing.
LEMMA AcceptedAsked ==
    ASSUME NEW S, NEW order, NEW n, Orders(order, S, n), NEW w, NEW ids, NEW deletable,
           ~WritesAsked(BatchOf(order, n, w, ids, deletable))
    PROVE  S = {} /\ deletable = {}
<1> DEFINE b == BatchOf(order, n, w, ids, deletable)
<1>1. b.uploads = <<>> /\ b.deletions = {}
  BY DEF WritesAsked
<1>2. b.deletions = {[slot |-> k, id |-> ids[k]] : k \in deletable} /\ DOMAIN b.uploads = 1 .. n
  BY DEF BatchOf
<1> HIDE DEF b
<1>3. deletable = {}
  BY <1>1, <1>2
<1>4. \A i \in 1 .. n : FALSE
  BY <1>1, <1>2 DEF Orders
<1> QED
  BY <1>3, <1>4 DEF Orders

\* What a round sends, or may drop, when its answer says it was accepted.
LEMMA RoundAccepted ==
    ASSUME Typed, NEW d \in Devices, flight[d] \in Flight, Heard(flight[d].merged, Gone),
           NEW S, NEW order, NEW n, NEW deletable, NEW reply,
           RoundIs(d, S, order, n, deletable, reply), reply.writesAccepted
    PROVE  /\ SentKeys(flight'[d]) = S /\ deletable \subseteq Gone
           /\ reply.kind = "done" \/ S = {}
<1> DEFINE f == flight[d]
           b == BatchOf(order, n, written, f.ids, deletable)
<1>1. /\ AnswerIs(reply, rows, clock, f.cursor, b, n) /\ Orders(order, S, n)
      /\ S \in SUBSET Keys /\ written \in Nat /\ written + n <= MaxVersions
      /\ deletable \subseteq PlanDeletableKeys(f.ids, f.merged)
      /\ flight'[d].sent = SentBy(order, n, written)
  BY DEF RoundIs, ChangedRecords, UploadKeys, CurrentRecordKeys, Flight, Typed
<1>2. SentKeys(flight'[d]) = S
  <2> DEFINE sent == flight'[d].sent
  <2>1. SentIs(SentBy(order, n, written), order, S, n, written)
    BY <1>1, SentByType
  <2>2. \A k \in Keys : sent[k] # NoId <=> k \in S
    BY <1>1, <2>1 DEF SentIs
  <2> QED
    BY <1>1, <2>2 DEF SentKeys
<1>3. deletable \subseteq Gone
  BY <1>1 DEF PlanDeletableKeys, Heard
<1> HIDE DEF b
<1>4. reply.kind = "done" \/ ~WritesAsked(b)
  <2>1. CASE reply = ResetReply
    BY <2>1 DEF ResetReply, Reply
  <2>2. CASE reply = Reply("page", LastSeq(reply.page), reply.page, {},
                           reply.page # After(rows, f.cursor), ~WritesAsked(b))
    <3>1. ASSUME WritesAsked(b) PROVE FALSE
      <4>1. PICK c, p, m, a : reply = Reply("page", c, p, {}, m, a) /\ ~a
        BY <2>2, <3>1
      <4> QED
        BY <4>1 DEF Reply
    <3> QED
      BY <3>1
  <2>3. CASE reply = Reply("conflict", clock, {}, Conflicts(rows, b.uploads), FALSE, FALSE)
    BY <2>3 DEF Reply
  <2>4. CASE reply = Reply("done", clock + n, {}, {}, FALSE, TRUE)
    BY <2>4 DEF Reply
  <2> QED
    BY <1>1, <2>1, <2>2, <2>3, <2>4 DEF AnswerIs
<1>5. ~WritesAsked(b) => S = {}
  BY <1>1, AcceptedAsked DEF b
<1> QED
  BY <1>2, <1>3, <1>4, <1>5

\* What a round leaves on the relay: less than it ever held, and tombstones of
\* devices only.
LEMMA RoundShares ==
    ASSUME Typed, BodyShared, Heard(body, Gone), NEW d \in Devices, flight[d] \in Flight,
           Heard(flight[d].merged, Gone),
           NEW S, NEW order, NEW n, NEW deletable, NEW reply,
           RoundIs(d, S, order, n, deletable, reply)
    PROVE  /\ BodyShared' /\ Heard(body', Gone)
           /\ \A k \in Keys : shared[k] \subseteq shared'[k]
           /\ reply.kind = "done" => \A k \in S : flight[d].merged[k] \subseteq shared'[k]
<1> DEFINE f == flight[d]
<1>1. CASE reply.kind # "done"
  BY <1>1 DEF RoundIs, relay, BodyShared, Heard
<1>2. CASE reply.kind = "done"
  <2>1. RelayMoves(f, S, order, n, deletable) /\ S \subseteq Keys
    BY <1>2 DEF RoundIs, ChangedRecords, UploadKeys, CurrentRecordKeys, Flight
  <2>2. \A k \in Keys : body'[k] \in {f.merged[k], body[k], {}} /\ (k \in S => body'[k] = f.merged[k])
    BY <2>1 DEF RelayMoves
  <2>3. \A k \in Keys : shared'[k] = shared[k] \cup body'[k]
    BY <2>1 DEF RelayMoves
  <2>4. Heard(body', Gone)
    BY <2>2, KeyFacts DEF Heard, Tombstoned
  <2>5. BodyShared'
    BY <2>3 DEF BodyShared
  <2> QED
    BY <2>1, <2>2, <2>3, <2>4, <2>5
<1> QED
  BY <1>1, <1>2

\* A round takes for sent what the relay took, and for the relay's what it holds.
LEMMA RoundSafe == ASSUME SInv, IInv', NEW d \in Devices, Round(d) PROVE Safe'
<1> DEFINE f == flight[d]
           g == flight'[d]
           mine == local[d]
           held == shared
           held2 == shared'
           gone == Gone
<1>1. /\ \E S, order, n, deletable, reply : RoundIs(d, S, order, n, deletable, reply)
      /\ f \in Flight /\ f.stage = "ready" /\ UNCHANGED <<device, bounds>> /\ Typed
  BY RoundFacts DEF SInv, IInv
<1>2. PICK S, order, n, deletable, reply : RoundIs(d, S, order, n, deletable, reply)
  BY <1>1
<1>3. /\ FlightSafe(f, mine, held, gone) /\ Within(control[d].baseline, held, gone)
      /\ Due(mine, outbox[d], Buried(burying[d]), held, gone)
      /\ BodyShared /\ Heard(body, gone) /\ Heard(f.merged, gone)
  BY DEF SInv, Safe, DeviceSafe, FlightSafe
<1>4. /\ BodyShared' /\ Heard(body', gone)
      /\ \A k \in Keys : held[k] \subseteq held2[k]
      /\ reply.kind = "done" => \A k \in S : f.merged[k] \subseteq held2[k]
  BY <1>1, <1>2, <1>3, RoundShares
<1>5. reply.writesAccepted =>
        SentKeys(g) = S /\ deletable \subseteq gone /\ (reply.kind = "done" \/ S = {})
  BY <1>1, <1>2, <1>3, RoundAccepted
<1>6. /\ g \in Flight /\ g.stage = "answered" /\ g.merged = f.merged /\ g.baseline = f.baseline
      /\ g.acknowledged = f.acknowledged /\ g.current = CurrentRecordKeys(f.merged)
      /\ g.deletable = deletable /\ g.reply.writesAccepted = reply.writesAccepted
      /\ g.remote = Brought(reply.page \cup reply.conflicts, body)
      /\ flight' = [flight EXCEPT ![d] = g]
  BY <1>2 DEF RoundIs
<1>7. \A e \in Devices \ {d} : flight'[e] = flight[e]
  BY <1>1, <1>6 DEF Typed
<1> HIDE DEF f, g, mine, held, held2, gone
<1>8. FlightSafe(f, mine, held2, gone)
  BY <1>1, <1>3, <1>4, FlightSafeKept
<1>9. Heard(g.remote, gone) /\ Within(g.remote, held2, gone)
  <2>1. \A k \in Keys : g.remote[k] \in {body[k], {}}
    BY <1>6 DEF Brought
  <2>2. Heard(g.remote, gone)
    BY <1>3, <2>1, KeyFacts DEF Heard, Tombstoned
  <2>3. Within(g.remote, held2, gone)
    BY <1>3, <1>4, <2>1 DEF Within, BodyShared, held
  <2> QED
    BY <2>2, <2>3
<1>10. Held(g, Uploaded(g), held2, gone)
  BY <1>4, <1>5, <1>6 DEF Uploaded, Held
<1>11. Held(g, Keys \ g.current, held2, gone)
  BY <1>6 DEF Held, CurrentRecordKeys
<1>12. FlightSafe(g, mine, held2, gone)
  BY <1>1, <1>5, <1>6, <1>8, <1>9, <1>10, <1>11 DEF FlightSafe, Held
<1>13. Within(control[d].baseline, held2, gone) /\ Due(mine, outbox[d], Buried(burying[d]), held2, gone)
  BY <1>3, <1>4 DEF Within, Due
<1>14. Gone' = gone /\ TombstonesStay
  BY <1>1 DEF device, Gone, GoneForGood, Tombstoned, TombstonesStay, gone
<1>15. DeviceSafe(d)'
  BY <1>1, <1>12, <1>13, <1>14 DEF DeviceSafe, device, g, mine, held2
<1>16. Heard(body', Gone')
  BY <1>4, <1>14
<1>17. /\ UNCHANGED <<local, outbox, burying, control>>
       /\ \A k \in Keys : shared[k] \subseteq shared'[k]
  BY <1>1, <1>4 DEF device, held, held2
<1> QED
  BY <1>4, <1>7, <1>14, <1>15, <1>16, <1>17, StepSafe DEF IInv

LEMMA StutterSafe == ASSUME SInv, UNCHANGED vars PROVE Safe'
<1>1. /\ shared' = shared /\ body' = body /\ local' = local /\ outbox' = outbox
      /\ burying' = burying /\ control' = control /\ flight' = flight
  BY DEF vars, relay, device
<1>2. Gone' = Gone
  BY <1>1 DEF Gone, GoneForGood, Tombstoned
<1>3. BodyShared' /\ Heard(body', Gone')
  BY <1>1, <1>2 DEF SInv, Safe, BodyShared
<1>4. \A d \in Devices : DeviceSafe(d)'
  BY <1>1, <1>2 DEF SInv, Safe, DeviceSafe
<1> QED
  BY <1>3, <1>4 DEF Safe

LEMMA NextSafe ==
    ASSUME UserActsAt \subseteq {"idle"}, ~CrashWhileBurying, SInv, [Next]_vars
    PROVE  SInv'
<1>1. IInv'
  BY NextInv DEF SInv
<1>2. ASSUME UNCHANGED vars PROVE Safe'
  BY <1>2, StutterSafe
<1>3. ASSUME Forget PROVE Safe'
  BY <1>1, <1>3, ForgetSafe
<1>4. ASSUME NEW d \in Devices, FlightStep(d) PROVE Safe'
  BY <1>1, <1>4, SnapshotSafe, ReadSafe, RoundSafe, StartOverSafe, ApplySafe, MarkSafe,
     NextPageSafe, CommitSafe DEF FlightStep
<1>5. ASSUME NEW d \in Devices, UserStep(d) PROVE Safe'
  <2>1. PICK n \in Notes :
            (\E e \in Edits : Edit(d, n, e)) \/ DeleteNoteForever(d, n) \/ QueueTombstone(d, n)
    BY <1>5 DEF UserStep
  <2> QED
    BY <1>1, <2>1, EditSafe, DeleteSafe, QueueSafe
<1>6. ASSUME NEW d \in Devices, Fail(d) PROVE Safe'
  BY <1>1, <1>6, EndedSafe DEF Fail
<1>7. ASSUME NEW d \in Devices, Crash(d) PROVE Safe'
  BY <1>1, <1>7, CrashSafe
<1>8. Safe'
  BY <1>2, <1>3, <1>4, <1>5, <1>6, <1>7 DEF Next
<1> QED
  BY <1>1, <1>8 DEF SInv

\* When users act between flights, what a device has and the relay never held
\* stays on its way, wherever flights fail, whatever conflicts and pages come
\* between, and through sweeps of the account.  The hypotheses leave out the
\* three ways this code has to strand a record: an edit during a flight, a
\* crash between a tombstone and its mark, and a new key that queues nothing.
THEOREM NothingIsStranded ==
    ASSUME UserActsAt \subseteq {"idle"}, ~CrashWhileBurying, Replaced = {}
    PROVE  Spec => []NothingStranded
<1>1. Init => SInv
  BY InitInv, InitSafe DEF SInv
<1>2. SInv /\ [Next]_vars => SInv'
  BY NextSafe
<1>3. SInv => NothingStranded
  <2> SUFFICES ASSUME SInv, NEW d \in Devices, NEW k \in Keys, ~(local[d][k] \subseteq shared[k]),
                      outbox[d][k] = "none", ~GoneForGood(k)
               PROVE  k[1] = "note-tombstone" /\ k[2] \in burying[d]
    BY DEF NothingStranded
  <2>1. k \in Buried(burying[d])
    BY DEF SInv, Safe, DeviceSafe, Due, Gone
  <2> QED
    BY <2>1 DEF Buried, TombstoneKey
<1> QED
  BY <1>1, <1>2, <1>3, PTL DEF Spec

===============================================================================
