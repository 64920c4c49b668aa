---------------------------- MODULE ReceiptsProofs ----------------------------
(***************************************************************************)
(* Receipts for any devices, notes, reminders, limits and losses: no       *)
(* receipt is left behind on a device, and replacing a note's row takes    *)
(* nothing from it but receipts that newer ones push out.                  *)
(*                                                                         *)
(* Both rest on an order of opinions: y has all that x says of a note      *)
(* (AtMost) when merging x into y leaves y.  That it is one is not         *)
(* obvious, as a merge also forgets: what it keeps, the latest receipts of *)
(* the note, has to be the same in whatever order opinions meet            *)
(* (LatestOfLatest).                                                       *)
(***************************************************************************)
EXTENDS Receipts, SetFacts

-----------------------------------------------------------------------------
(* The inductive invariant.                                                *)

\* The latest of some wakes.
Top(S) == { w \in S : Cardinality({ v \in S : FiredAt[v] > FiredAt[w] }) < PerNote }

\* The wakes of a note an opinion has receipts of.
Says(x, n) == { w \in WakesOf(n) : x[w] # Unknown }

\* y has all that x says of the note, but for receipts that newer ones push out.
AtMost(x, y, n) ==
    /\ Says(y, n) = Top(Says(x, n) \cup Says(y, n))
    /\ \A w \in Says(y, n) : MergeEntries(x[w], y[w]) = y[w]

One(w, x) == [Nothing EXCEPT ![w] = x]

RelayRow == [note : Notes, seq : Nat, deleted : BOOLEAN, known : Opinion]

Events == { Handled(w, x) : w \in Wakes, x \in Known } \cup { DeletedEvent(n) : n \in Notes }

Flight ==
    [ stage : {"idle", "sent", "checked", "answered"}, cursor : Nat, upload : SUBSET Packets,
      sent : SUBSET Events, more : BOOLEAN, page : SUBSET RelayRow, next : Nat,
      hasMore : BOOLEAN, reset : BOOLEAN ]

\* One row per note, each with a sequence number given out, within the account's room.
RowsOK ==
    /\ rows \subseteq RelayRow /\ nextSeq \in Nat
    /\ \A r \in rows : r.seq \in 1 .. nextSeq
    /\ \A r, s \in rows : r.note = s.note => r = s
    /\ IsFiniteSet(rows) /\ Cardinality(rows) <= MaxRows

Typed ==
    /\ RowsOK
    /\ entries \in [Devices -> Opinion]
    /\ pending \in [Devices -> SUBSET Events]
    /\ deleted \in [Devices -> SUBSET Notes]
    /\ cursor \in [Devices -> Nat]
    /\ flight \in [Devices -> Flight]
    /\ slept \in [Devices -> BOOLEAN]

\* A device keeps a note's latest receipts, and none of a deleted note.
Tidy(known, gone) ==
    \A n \in Notes : Says(known, n) = Top(Says(known, n)) /\ (n \in gone => Says(known, n) = {})

\* What the events in a queue are about the device knows.
Heard(events, known, gone) ==
    \A w \in Wakes, x \in Known :
        Handled(w, x) \in events => NoteOf[w] \in gone \/ AtMost(One(w, x), known, NoteOf[w])

\* The device has what the rows its cursor has passed say.
Seen(rs, place, known, gone) ==
    \A r \in rs : r.seq <= place =>
        r.note \in gone \/ (~r.deleted /\ AtMost(r.known, known, r.note))

Queued(events, n) == \E e \in events : e.note = n

\* The note's row has what is known, or will be met and answered.
Held(rs, place, known, n) ==
    \E r \in rs : r.note = n /\ (r.deleted \/ AtMost(known, r.known, n) \/ r.seq > place)

\* Nothing is left to queue.
Sent(rs, place, known, events) ==
    \A n \in Notes : Says(known, n) # {} => Queued(events, n) \/ Held(rs, place, known, n)

AllQueued(known, events) == \A n \in Notes : Says(known, n) # {} => Queued(events, n)

\* Uploads say no less than rows their sender has seen.
UploadOK(f, rs) ==
    \A p \in f.upload, r \in rs :
        r.note = p.note /\ r.seq <= f.cursor => r.deleted \/ p.deleted \/ AtMost(r.known, p.known, p.note)

\* The page has every row between the cursor and the next, and a row of it that is no
\* more has given way to one beyond.
PageOK(f, rs, last) ==
    /\ f.upload = {} /\ f.cursor <= f.next /\ f.next <= last
    /\ \A r, s \in f.page : r.note = s.note => r = s
    /\ \A r \in rs : r.seq <= f.next => r.seq <= f.cursor \/ r \in f.page
    /\ \A s \in f.page :
            s.seq <= f.next /\ s.seq > f.cursor /\ \E r \in rs : r.note = s.note /\ (r = s \/ r.seq > f.next)

\* What the events sent stand for and no other event does is still to be written, or was.
SentOK(f, rs, known, events) ==
    \A n \in Notes :
        Says(known, n) # {} /\ Queued(f.sent, n) /\ ~Queued(events \ f.sent, n) =>
            \/ \E p \in f.upload : p.note = n /\ ~p.deleted /\ p.known = NoteReceipts(known, n)
            \/ Held(rs, f.cursor, known, n)

\* An exchange under way.
FlightOK(f, place, known, gone, events, asleep, rs, last) ==
    f.stage # "idle" =>
        /\ f.cursor = place
        /\ Heard(f.sent, known, gone)
        /\ UploadOK(f, rs)
        /\ f.stage = "answered" /\ ~f.reset =>
                PageOK(f, rs, last) /\ (f.next = 0 => AllQueued(known, events \ f.sent))
        /\ ~asleep /\ ~f.reset => SentOK(f, rs, known, events)

\* A device.  With no place among the rows yet, all it knows is queued: the rows may be
\* swept away without its being asleep.
DeviceIs(rs, last, known, events, gone, place, f, asleep) ==
    /\ Tidy(known, gone)
    /\ Heard(events, known, gone)
    /\ place <= last
    /\ Seen(rs, place, known, gone)
    /\ place = 0 => AllQueued(known, events) /\ ~asleep
    /\ ~asleep => Sent(rs, place, known, events)
    /\ FlightOK(f, place, known, gone, events, asleep, rs, last)

DeviceOK(d) ==
    DeviceIs(rows, nextSeq, entries[d], pending[d], deleted[d], cursor[d], flight[d], slept[d])

IInv == Typed /\ \A d \in Devices : DeviceOK(d)

-----------------------------------------------------------------------------
(* The latest of some wakes.                                                *)

LEMMA NotesAre == \A w \in Wakes : NoteOf[w] \in Notes /\ w \in WakesOf(NoteOf[w])
BY DEF Notes, WakesOf

\* Some wake is the newest: one with the fewest that are newer.
LEMMA Newest ==
    ASSUME NEW X \in SUBSET Wakes, X # {}
    PROVE  \E u \in X : \A v \in X : FiredAt[v] <= FiredAt[u]
<1> DEFINE Newer(w) == { v \in X : FiredAt[v] > FiredAt[w] }
           Counts == { Cardinality(Newer(w)) : w \in X }
<1>1. IsFiniteSet(X) /\ \A w \in X : FiredAt[w] \in Nat
  BY WakesAssumption, FS_Subset
<1>2. \A w \in X : IsFiniteSet(Newer(w)) /\ Cardinality(Newer(w)) \in Nat
  BY <1>1, FS_Subset, FS_CardinalityType
<1>3. Counts \in SUBSET Nat /\ Counts # {}
  BY <1>2
<1>4. PICK c \in Counts : \A y \in Counts : c <= y
  BY <1>3, LeastNatural
<1>5. PICK u \in X : c = Cardinality(Newer(u))
  BY <1>4
<1>6. ASSUME NEW v \in X, ~(FiredAt[v] <= FiredAt[u]) PROVE FALSE
  <2>1. v \in Newer(u) /\ v \notin Newer(v)
    BY <1>1, <1>6
  <2>2. Newer(v) \subseteq Newer(u)
    BY <1>1, <1>6
  <2>3. Newer(v) # Newer(u)
    BY <2>1
  <2> HIDE DEF Newer
  <2>4. Cardinality(Newer(v)) < Cardinality(Newer(u))
    BY <1>2, <2>2, <2>3, FS_Subset
  <2>5. c <= Cardinality(Newer(v))
    BY <1>4, <1>6
  <2> QED
    BY <1>2, <1>5, <2>4, <2>5
<1> QED
  BY <1>6

LEMMA TopIn == ASSUME NEW S PROVE Top(S) \subseteq S
BY DEF Top

\* The latest of a set are found through the latest of a part of it: a wake left out
\* of the part has as many newer ones there that are not.
LEMMA LatestOfLatest ==
    ASSUME NEW S \in SUBSET Wakes, NEW T \in SUBSET Wakes
    PROVE  Top(Top(S) \cup T) = Top(S \cup T)
<1> DEFINE U == S \cup T
           A == Top(S) \cup T
           Newer(X, w) == { v \in X : FiredAt[v] > FiredAt[w] }
<1>1. /\ A \subseteq U /\ PerNote \in Nat
      /\ \A w \in Wakes : FiredAt[w] \in Nat
  BY TopIn, WakesAssumption, LimitsAssumption
<1>2. \A w, X : X \subseteq Wakes =>
        IsFiniteSet(Newer(X, w)) /\ Cardinality(Newer(X, w)) \in Nat
  BY WakesAssumption, FS_Subset, FS_CardinalityType
<1>3. \A w, X, Y : X \subseteq Y /\ Y \subseteq Wakes =>
        Cardinality(Newer(X, w)) <= Cardinality(Newer(Y, w))
  <2> TAKE w, X, Y
  <2> HAVE X \subseteq Y /\ Y \subseteq Wakes
  <2>1. Newer(X, w) \subseteq Newer(Y, w) /\ IsFiniteSet(Newer(Y, w))
    BY <1>2
  <2> QED
    BY <2>1, FS_Subset
<1>4. \A X, w : w \in Top(X) <=> w \in X /\ Cardinality(Newer(X, w)) < PerNote
  BY DEF Top
<1>5. ASSUME NEW w \in Top(U) PROVE w \in Top(A)
  <2>1. w \in U /\ Cardinality(Newer(U, w)) < PerNote
    BY <1>4
  <2> HIDE DEF Newer
  <2>2. S \subseteq U /\ A \subseteq U /\ U \subseteq Wakes
    BY <1>1
  <2>3. w \in A
    BY <1>1, <1>2, <1>3, <1>4, <2>1, <2>2
  <2>4. Cardinality(Newer(A, w)) < PerNote
    BY <1>1, <1>2, <1>3, <2>1, <2>2
  <2> QED
    BY <1>4, <2>3, <2>4
<1>6. ASSUME NEW w \in Top(A), w \notin Top(U) PROVE FALSE
  <2> DEFINE D == Newer(U, w) \ A
  <2>1. w \in A /\ w \in U /\ Cardinality(Newer(A, w)) < PerNote
    BY <1>1, <1>4
  <2>2. ~(Cardinality(Newer(U, w)) < PerNote)
    BY <1>4, <1>6, <2>1
  <2>3. D # {}
    <3>1. CASE D = {}
      <4>1. Newer(U, w) = Newer(A, w)
        BY <1>1, <3>1
      <4> QED
        BY <2>1, <2>2, <4>1
    <3> QED
      BY <3>1
  <2>4. PICK u \in D : \A v \in D : FiredAt[v] <= FiredAt[u]
    BY <2>3, Newest
  <2>5. u \in S /\ u \notin Top(S) /\ u \in Wakes /\ w \in Wakes /\ FiredAt[u] > FiredAt[w]
    BY <2>1, <2>4
  <2>6. ~(Cardinality(Newer(S, u)) < PerNote)
    BY <1>4, <2>5
  <2>7. ASSUME NEW v \in Newer(S, u) PROVE v \in Newer(A, w)
    <3>1. v \in U /\ v \in Wakes /\ FiredAt[v] > FiredAt[u] /\ FiredAt[v] > FiredAt[w]
      BY <1>1, <2>5
    <3>2. v \notin D
      BY <1>1, <2>4, <2>5, <3>1
    <3> QED
      BY <3>1, <3>2
  <2>8. Newer(S, u) \subseteq Newer(A, w) /\ A \subseteq Wakes
    BY <1>1, <2>7
  <2> HIDE DEF Newer
  <2>9. Cardinality(Newer(S, u)) <= Cardinality(Newer(A, w))
    BY <1>2, <2>8, FS_Subset
  <2> QED
    BY <1>1, <1>2, <2>1, <2>6, <2>8, <2>9
<1> QED
  BY <1>5, <1>6

\* A latest wake of a set is a latest wake of any part it is in.
LEMMA LatestOfPart ==
    ASSUME NEW T \in SUBSET Wakes, NEW S \in SUBSET T, NEW w \in S, w \in Top(T)
    PROVE  w \in Top(S)
<1> DEFINE Newer(X) == { v \in X : FiredAt[v] > FiredAt[w] }
<1>1. Newer(S) \subseteq Newer(T) /\ IsFiniteSet(Newer(S)) /\ IsFiniteSet(Newer(T))
  BY WakesAssumption, FS_Subset
<1>2. Cardinality(Newer(T)) < PerNote
  BY DEF Top
<1>3. Cardinality(Newer(S)) < PerNote
  <2> HIDE DEF Newer
  <2>1. Cardinality(Newer(S)) <= Cardinality(Newer(T))
    BY <1>1, FS_Subset
  <2>2. Cardinality(Newer(S)) \in Nat /\ Cardinality(Newer(T)) \in Nat /\ PerNote \in Nat
    BY <1>1, FS_CardinalityType, LimitsAssumption
  <2> QED
    BY <1>2, <2>1, <2>2
<1> QED
  BY <1>3 DEF Top

LEMMA LatestAgain == ASSUME NEW S \in SUBSET Wakes PROVE Top(Top(S)) = Top(S)
<1>1. Top(Top(S) \cup {}) = Top(S \cup {})
  BY LatestOfLatest
<1>2. Top(S) \cup {} = Top(S) /\ S \cup {} = S
  OBVIOUS
<1> QED
  BY <1>1, <1>2

LEMMA SaysIn ==
    ASSUME NEW x, NEW n
    PROVE  Says(x, n) \in SUBSET Wakes /\ Says(x, n) \in SUBSET WakesOf(n)
BY DEF Says, WakesOf

-----------------------------------------------------------------------------
(* Merging.                                                                 *)

LEMMA KnownAre == Known \subseteq Nat /\ Unknown \in Known /\ Shown \in Known
BY WakesAssumption DEF Known, Unknown, Shown

\* What is merged says the more of the two, however often and in whatever order.
LEMMA MergeIs ==
    ASSUME NEW x \in Known, NEW y \in Known
    PROVE  /\ MergeEntries(x, y) \in {x, y} /\ MergeEntries(x, y) \in Known
           /\ MergeEntries(x, y) = MergeEntries(y, x)
           /\ MergeEntries(x, x) = x
           /\ MergeEntries(x, Unknown) = x /\ MergeEntries(Unknown, x) = x
           /\ MergeEntries(x, y) = Unknown <=> x = Unknown /\ y = Unknown
           /\ MergeEntries(x, MergeEntries(x, y)) = MergeEntries(x, y)
           /\ MergeEntries(y, MergeEntries(x, y)) = MergeEntries(x, y)
<1>1. x \in Nat /\ y \in Nat
  BY KnownAre
<1> QED
  BY <1>1 DEF MergeEntries, Unknown, Shown

LEMMA MergeThree ==
    ASSUME NEW x \in Known, NEW y \in Known, NEW z \in Known
    PROVE  MergeEntries(MergeEntries(x, y), z) = MergeEntries(x, MergeEntries(y, z))
<1>1. x \in Nat /\ y \in Nat /\ z \in Nat
  BY KnownAre
<1> QED
  BY <1>1 DEF MergeEntries, Unknown, Shown

LEMMA MergeOpinion ==
    ASSUME NEW x \in Opinion, NEW y \in Opinion, NEW gone
    PROVE  MergeHistory(x, y, gone) \in Opinion
<1> DEFINE all == [w \in Wakes |-> MergeEntries(x[w], y[w])]
<1>1. \A w \in Wakes : all[w] \in Known
  BY MergeIs DEF Opinion
<1> QED
  BY <1>1, KnownAre DEF MergeHistory, Opinion

KeepsLatest(x, y, gone, n) ==
    Says(MergeHistory(x, y, gone), n) = IF n \in gone THEN {} ELSE Top(Says(x, n) \cup Says(y, n))

Joins(x, y, z, n) == \A w \in Says(z, n) : z[w] = MergeEntries(x[w], y[w])

\* A merge keeps the latest receipts of both, each as the merge of its two opinions.
LEMMA MergeKeeps ==
    ASSUME NEW x \in Opinion, NEW y \in Opinion, NEW gone, NEW n \in Notes
    PROVE  /\ MergeHistory(x, y, gone) \in Opinion
           /\ KeepsLatest(x, y, gone, n)
           /\ Joins(x, y, MergeHistory(x, y, gone), n)
<1> DEFINE all == [w \in Wakes |-> MergeEntries(x[w], y[w])]
           m == MergeHistory(x, y, gone)
<1>1. \A w \in Wakes : x[w] \in Known /\ y[w] \in Known
  BY DEF Opinion
<1>2. \A w \in Wakes : all[w] = MergeEntries(x[w], y[w]) /\ all[w] \in Known
  BY <1>1, MergeIs
<1>3. \A w \in Wakes :
        m[w] = IF NoteOf[w] \notin gone /\ w \in Latest(all, NoteOf[w]) THEN all[w] ELSE Unknown
  BY DEF MergeHistory
<1>4. m \in Opinion
  BY <1>2, KnownAre DEF MergeHistory, Opinion
<1>5. Says(all, n) = Says(x, n) \cup Says(y, n)
  BY <1>1, <1>2, MergeIs DEF Says, WakesOf
<1> HIDE DEF all, m
<1>6. Latest(all, n) = Top(Says(all, n))
  <2>1. \A w : { v \in WakesOf(n) : all[v] # Unknown /\ FiredAt[v] > FiredAt[w] }
             = { v \in Says(all, n) : FiredAt[v] > FiredAt[w] }
    BY DEF Says
  <2> QED
    BY <2>1 DEF Latest, Top, Says
<1>7. \A w \in WakesOf(n) : w \in Wakes /\ NoteOf[w] = n
  BY DEF WakesOf
<1>8. \A w \in WakesOf(n) : m[w] # Unknown <=> n \notin gone /\ w \in Top(Says(all, n))
  BY <1>3, <1>6, <1>7, TopIn DEF Says
<1>9. Says(m, n) = IF n \in gone THEN {} ELSE Top(Says(all, n))
  BY <1>8, TopIn DEF Says
<1>10. \A w \in Says(m, n) : m[w] = MergeEntries(x[w], y[w])
  BY <1>2, <1>3, <1>7 DEF Says
<1> QED
  BY <1>4, <1>5, <1>9, <1>10 DEF KeepsLatest, Joins, m

-----------------------------------------------------------------------------
(* The order of opinions.                                                   *)

\* An opinion with no more than a note's latest receipts.
Trim(x, n) == Says(x, n) = Top(Says(x, n))

LEMMA AtMostSelf ==
    ASSUME NEW x \in Opinion, NEW n, Trim(x, n)
    PROVE  AtMost(x, x, n)
<1>1. \A w \in Says(x, n) : x[w] \in Known
  BY SaysIn DEF Opinion
<1>2. Says(x, n) \cup Says(x, n) = Says(x, n)
  OBVIOUS
<1> QED
  BY <1>1, <1>2, MergeIs DEF AtMost, Trim

LEMMA AtMostTrim ==
    ASSUME NEW x, NEW y, NEW n, AtMost(x, y, n)
    PROVE  Trim(y, n)
<1>1. Says(y, n) = Top(Says(x, n) \cup Says(y, n))
  BY DEF AtMost
<1>2. (Says(x, n) \cup Says(y, n)) \in SUBSET Wakes
  BY SaysIn
<1> HIDE DEF AtMost
<1>3. Top(Top(Says(x, n) \cup Says(y, n))) = Top(Says(x, n) \cup Says(y, n))
  BY <1>2, LatestAgain
<1> QED
  BY <1>1, <1>3 DEF Trim

LEMMA AtMostThrough ==
    ASSUME NEW x \in Opinion, NEW y \in Opinion, NEW z \in Opinion, NEW n,
           AtMost(x, y, n), AtMost(y, z, n)
    PROVE  AtMost(x, z, n)
<1> DEFINE X == Says(x, n)
           Y == Says(y, n)
           Z == Says(z, n)
<1>1. X \in SUBSET Wakes /\ Y \in SUBSET Wakes /\ Z \in SUBSET Wakes
  BY SaysIn
<1>2. Y = Top(X \cup Y) /\ Z = Top(Y \cup Z)
  BY DEF AtMost
<1>3. \A w \in Wakes : x[w] \in Known /\ y[w] \in Known /\ z[w] \in Known
  BY DEF Opinion
<1>4. \A w \in Y : MergeEntries(x[w], y[w]) = y[w]
  BY DEF AtMost
<1>5. \A w \in Z : MergeEntries(y[w], z[w]) = z[w]
  BY DEF AtMost
<1>6. \A w \in Wakes : w \notin X => (w \in Z => x[w] = Unknown)
  BY DEF Says
<1> HIDE DEF X, Y, Z
<1>7. (Y \cup Z) \in SUBSET Wakes /\ (X \cup Y) \in SUBSET Wakes
  BY <1>1
<1>8. Top(Top(Y \cup Z) \cup X) = Top((Y \cup Z) \cup X)
  BY <1>1, <1>7, LatestOfLatest
<1>9. Top(Top(X \cup Y) \cup Z) = Top((X \cup Y) \cup Z)
  BY <1>1, <1>7, LatestOfLatest
<1>10. Z \cup X = X \cup Z /\ (Y \cup Z) \cup X = (X \cup Y) \cup Z
  OBVIOUS
<1>11. Z = Top(X \cup Z) /\ Z = Top((X \cup Y) \cup Z)
  BY <1>2, <1>8, <1>9, <1>10
<1>12. ASSUME NEW w \in Z PROVE MergeEntries(x[w], z[w]) = z[w]
  <2>1. w \in Wakes /\ x[w] \in Known /\ y[w] \in Known /\ z[w] \in Known
    BY <1>1, <1>3
  <2>2. CASE w \notin X
    BY <1>6, <2>1, <2>2, MergeIs
  <2>3. CASE w \in X
    <3>1. w \in X \cup Y /\ (X \cup Y) \in SUBSET ((X \cup Y) \cup Z) /\ ((X \cup Y) \cup Z) \in SUBSET Wakes
      BY <1>1, <2>3
    <3>2. w \in Top(X \cup Y)
      BY <1>11, <3>1, LatestOfPart
    <3>3. MergeEntries(x[w], y[w]) = y[w]
      BY <1>2, <1>4, <3>2
    <3>4. MergeEntries(y[w], z[w]) = z[w]
      BY <1>5
    <3>5. MergeEntries(MergeEntries(x[w], y[w]), z[w]) = MergeEntries(x[w], MergeEntries(y[w], z[w]))
      BY <2>1, MergeThree
    <3> QED
      BY <3>3, <3>4, <3>5
  <2> QED
    BY <2>2, <2>3
<1> QED
  BY <1>11, <1>12 DEF AtMost, X, Z

\* Nothing but what newer receipts push out is lost in a merge.
LEMMA MergeHasBoth ==
    ASSUME NEW x \in Opinion, NEW y \in Opinion, NEW gone, NEW n \in Notes, n \notin gone
    PROVE  AtMost(x, MergeHistory(x, y, gone), n) /\ AtMost(y, MergeHistory(x, y, gone), n)
<1> DEFINE m == MergeHistory(x, y, gone)
           X == Says(x, n)
           Y == Says(y, n)
           M == Says(m, n)
<1>1. m \in Opinion /\ KeepsLatest(x, y, gone, n) /\ Joins(x, y, m, n)
  BY MergeKeeps
<1>2. M = Top(X \cup Y)
  BY <1>1 DEF KeepsLatest
<1>3. \A w \in M : m[w] = MergeEntries(x[w], y[w])
  BY <1>1 DEF Joins
<1>4. X \in SUBSET Wakes /\ Y \in SUBSET Wakes /\ M \in SUBSET Wakes
  BY SaysIn
<1>5. \A w \in Wakes : x[w] \in Known /\ y[w] \in Known
  BY DEF Opinion
<1>6. \A w \in M : MergeEntries(x[w], m[w]) = m[w] /\ MergeEntries(y[w], m[w]) = m[w]
  BY <1>3, <1>4, <1>5, MergeIs
<1> HIDE DEF m, X, Y, M
<1>7. (X \cup Y) \in SUBSET Wakes
  BY <1>4
<1>8. Top(Top(X \cup Y) \cup X) = Top((X \cup Y) \cup X)
  BY <1>4, <1>7, LatestOfLatest
<1>9. Top(Top(X \cup Y) \cup Y) = Top((X \cup Y) \cup Y)
  BY <1>4, <1>7, LatestOfLatest
<1>10. /\ (X \cup Y) \cup X = X \cup Y /\ (X \cup Y) \cup Y = X \cup Y
       /\ M \cup X = X \cup M /\ M \cup Y = Y \cup M
  OBVIOUS
<1>11. M = Top(X \cup M) /\ M = Top(Y \cup M)
  BY <1>2, <1>8, <1>9, <1>10
<1> QED
  BY <1>6, <1>11 DEF AtMost, M, X, Y, m

\* Only what two opinions say of the note counts.
SameNote(x, y, n) == \A w \in WakesOf(n) : x[w] = y[w]

LEMMA SameSays == ASSUME NEW x, NEW y, NEW n, SameNote(x, y, n) PROVE Says(x, n) = Says(y, n)
BY DEF SameNote, Says

LEMMA AtMostSame ==
    ASSUME NEW x, NEW y, NEW v, NEW z, NEW n, SameNote(x, v, n), SameNote(y, z, n), AtMost(x, y, n)
    PROVE  AtMost(v, z, n)
<1>1. Says(x, n) = Says(v, n) /\ Says(y, n) = Says(z, n)
  BY SameSays
<1>2. \A w \in Says(y, n) : x[w] = v[w] /\ y[w] = z[w]
  BY SaysIn DEF SameNote
<1> QED
  BY <1>1, <1>2 DEF AtMost

LEMMA NoteAlone ==
    ASSUME NEW x \in Opinion, NEW n
    PROVE  NoteReceipts(x, n) \in Opinion /\ SameNote(x, NoteReceipts(x, n), n)
BY KnownAre DEF NoteReceipts, Opinion, SameNote, WakesOf

LEMMA NoteEqual ==
    ASSUME NEW x \in Opinion, NEW y \in Opinion, NEW n
    PROVE  NoteReceipts(x, n) = NoteReceipts(y, n) <=> SameNote(x, y, n)
<1>1. \A w \in WakesOf(n) : w \in Wakes /\ NoteReceipts(x, n)[w] = x[w] /\ NoteReceipts(y, n)[w] = y[w]
  BY DEF NoteReceipts, WakesOf
<1>2. ASSUME SameNote(x, y, n) PROVE NoteReceipts(x, n) = NoteReceipts(y, n)
  BY <1>2 DEF SameNote, NoteReceipts, WakesOf
<1> QED
  BY <1>1, <1>2 DEF SameNote

LEMMA HasSays ==
    ASSUME NEW x \in Opinion, NEW n
    PROVE  HasReceipts(x, n) <=> Says(x, n) # {}
<1>1. \A w \in Wakes : NoteReceipts(x, n)[w] = IF NoteOf[w] = n THEN x[w] ELSE Unknown
  BY DEF NoteReceipts
<1>2. NoteReceipts(x, n) = Nothing <=> \A w \in Wakes : NoteReceipts(x, n)[w] = Unknown
  BY DEF NoteReceipts, Nothing
<1> QED
  BY <1>1, <1>2 DEF HasReceipts, Says, WakesOf

LEMMA NothingSays == Nothing \in Opinion /\ \A n : Says(Nothing, n) = {}
BY KnownAre DEF Nothing, Opinion, Says, WakesOf

\* The order as the properties have it.
LEMMA WithinIsAtMost ==
    ASSUME NEW x \in Opinion, NEW y \in Opinion, NEW n \in Notes
    PROVE  Within(x, y, n) <=> AtMost(x, y, n)
<1> DEFINE v == NoteReceipts(x, n)
           m == MergeHistory(v, y, {})
<1>1. v \in Opinion /\ SameNote(x, v, n) /\ Says(v, n) = Says(x, n)
  BY NoteAlone, SameSays
<1>2. m \in Opinion /\ KeepsLatest(v, y, {}, n) /\ Joins(v, y, m, n)
  BY <1>1, MergeKeeps
<1>3. Says(m, n) = Top(Says(x, n) \cup Says(y, n))
  BY <1>1, <1>2 DEF KeepsLatest
<1>4. \A w \in Says(m, n) : m[w] = MergeEntries(x[w], y[w])
  BY <1>1, <1>2, SaysIn DEF Joins, SameNote
<1>5. Within(x, y, n) <=> SameNote(m, y, n)
  BY <1>2, NoteEqual DEF Within
<1> HIDE DEF v, m
<1>6. ASSUME SameNote(m, y, n) PROVE AtMost(x, y, n)
  <2>1. Says(m, n) = Says(y, n)
    BY <1>6, SameSays
  <2>2. \A w \in Says(y, n) : m[w] = y[w]
    BY <1>6, SaysIn DEF SameNote
  <2> QED
    BY <1>3, <1>4, <2>1, <2>2 DEF AtMost
<1>7. ASSUME AtMost(x, y, n) PROVE SameNote(m, y, n)
  <2>1. Says(m, n) = Says(y, n)
    BY <1>3, <1>7 DEF AtMost
  <2>2. \A w \in Says(y, n) : m[w] = y[w]
    BY <1>4, <1>7, <2>1 DEF AtMost
  <2> QED
    BY <2>1, <2>2 DEF SameNote, Says
<1> QED
  BY <1>5, <1>6, <1>7

-----------------------------------------------------------------------------
(* What merges and events are of.                                           *)

LEMMA MergeLeaves ==
    ASSUME NEW x \in Opinion, NEW y \in Opinion, NEW gone, NEW n \in Notes, n \notin gone,
           Trim(x, n), Says(y, n) = {}
    PROVE  SameNote(x, MergeHistory(x, y, gone), n)
<1> DEFINE m == MergeHistory(x, y, gone)
<1>1. m \in Opinion /\ KeepsLatest(x, y, gone, n) /\ Joins(x, y, m, n)
  BY MergeKeeps
<1>2. Says(x, n) \cup Says(y, n) = Says(x, n)
  OBVIOUS
<1>3. Says(m, n) = Says(x, n)
  BY <1>1, <1>2 DEF KeepsLatest, Trim
<1>4. \A w \in WakesOf(n) : y[w] = Unknown
  BY DEF Says
<1>5. \A w \in Says(m, n) : m[w] = x[w]
  BY <1>1, <1>4, SaysIn, MergeIs DEF Joins, Opinion
<1> HIDE DEF m
<1>6. \A w \in WakesOf(n) : m[w] = x[w]
  BY <1>3, <1>5 DEF Says
<1> QED
  BY <1>6 DEF SameNote, m

LEMMA MergeTidy ==
    ASSUME NEW x \in Opinion, NEW y \in Opinion, NEW gone
    PROVE  Tidy(MergeHistory(x, y, gone), gone)
<1> DEFINE m == MergeHistory(x, y, gone)
<1>1. ASSUME NEW n \in Notes
      PROVE  Says(m, n) = Top(Says(m, n)) /\ (n \in gone => Says(m, n) = {})
  <2>1. KeepsLatest(x, y, gone, n)
    BY MergeKeeps
  <2>2. Says(m, n) = IF n \in gone THEN {} ELSE Top(Says(x, n) \cup Says(y, n))
    BY <2>1 DEF KeepsLatest
  <2> HIDE DEF m
  <2>3. (Says(x, n) \cup Says(y, n)) \in SUBSET Wakes
    BY SaysIn
  <2>4. Top(Top(Says(x, n) \cup Says(y, n))) = Top(Says(x, n) \cup Says(y, n))
    BY <2>3, LatestAgain
  <2>5. Top({}) = {}
    BY TopIn
  <2> QED
    BY <2>2, <2>4, <2>5
<1> QED
  BY <1>1 DEF Tidy

LEMMA TidyIs ==
    ASSUME NEW known, NEW gone, Tidy(known, gone), NEW n \in Notes
    PROVE  Trim(known, n) /\ (Says(known, n) # {} => n \notin gone)
BY DEF Tidy, Trim

LEMMA HandledIs ==
    /\ \A w, x, v, y : Handled(w, x) = Handled(v, y) => w = v /\ x = y
    /\ \A w, x, n : Handled(w, x) # DeletedEvent(n)
    /\ \A w, x : Handled(w, x).kind = "handled" /\ Handled(w, x).note = NoteOf[w]
    /\ \A n : DeletedEvent(n).kind = "deleted" /\ DeletedEvent(n).note = n
<1>1. \A w, x : Handled(w, x).kind = "handled" /\ Handled(w, x).what = <<w, x>> /\ Handled(w, x).note = NoteOf[w]
  BY DEF Handled
<1>2. \A n : DeletedEvent(n).kind = "deleted" /\ DeletedEvent(n).note = n
  BY DEF DeletedEvent
<1> QED
  BY <1>1, <1>2

LEMMA EventsAre ==
    ASSUME NEW e \in Events
    PROVE  e.note \in Notes
BY HandledIs, NotesAre DEF Events

LEMMA OneIs ==
    ASSUME NEW w \in Wakes, NEW x \in Known
    PROVE  /\ One(w, x) \in Opinion
           /\ One(w, x)[w] = x /\ \A v \in Wakes : v # w => One(w, x)[v] = Unknown
           /\ \A n : n # NoteOf[w] => Says(One(w, x), n) = {}
           /\ x # Unknown => Says(One(w, x), NoteOf[w]) = {w}
<1>1. /\ One(w, x) \in Opinion
      /\ One(w, x)[w] = x /\ \A v \in Wakes : v # w => One(w, x)[v] = Unknown
  BY NothingSays DEF One, Opinion, Nothing
<1> QED
  BY <1>1, NotesAre DEF Says, WakesOf

\* A note with receipts has an event, of the latest of them.
LEMMA EveryQueued ==
    ASSUME NEW x \in Opinion, NEW n \in Notes, Says(x, n) # {}
    PROVE  \E w \in WakesOf(n) : Handled(w, x[w]) \in EveryNote(x)
<1>1. Says(x, n) \in SUBSET Wakes
  BY SaysIn
<1>2. PICK u \in Says(x, n) : \A v \in Says(x, n) : FiredAt[v] <= FiredAt[u]
  BY <1>1, Newest
<1>3. u \in Wakes /\ NoteOf[u] = n /\ u \in WakesOf(n) /\ x[u] # Unknown
  BY DEF Says, WakesOf
<1>4. \A v \in WakesOf(NoteOf[u]) : x[v] # Unknown => FiredAt[v] <= FiredAt[u]
  BY <1>2, <1>3 DEF Says
<1> QED
  BY <1>3, <1>4 DEF EveryNote

LEMMA EveryAllQueued == ASSUME NEW x \in Opinion PROVE AllQueued(x, EveryNote(x))
<1>1. ASSUME NEW n \in Notes, Says(x, n) # {} PROVE Queued(EveryNote(x), n)
  <2>1. PICK w \in WakesOf(n) : Handled(w, x[w]) \in EveryNote(x)
    BY <1>1, EveryQueued
  <2>2. Handled(w, x[w]).note = n
    BY HandledIs DEF WakesOf
  <2> QED
    BY <2>1, <2>2 DEF Queued
<1> QED
  BY <1>1 DEF AllQueued

LEMMA EveryHeard ==
    ASSUME NEW x \in Opinion, NEW gone, Tidy(x, gone)
    PROVE  EveryNote(x) \subseteq Events /\ Heard(EveryNote(x), x, gone)
<1>1. EveryNote(x) \subseteq Events
  BY DEF EveryNote, Events, Opinion
<1>2. ASSUME NEW w \in Wakes, NEW k \in Known, Handled(w, k) \in EveryNote(x)
      PROVE  AtMost(One(w, k), x, NoteOf[w])
  <2> DEFINE n == NoteOf[w]
  <2>1. k = x[w] /\ k # Unknown
    BY <1>2, HandledIs DEF EveryNote
  <2>2. w \in Says(x, n) /\ n \in Notes
    BY <2>1, NotesAre DEF Says
  <2>3. Trim(x, n)
    BY <2>2, TidyIs
  <2>4. Says(One(w, k), n) = {w}
    BY <2>1, OneIs
  <2>5. Says(x, n) = Top(Says(One(w, k), n) \cup Says(x, n))
    BY <2>2, <2>3, <2>4 DEF Trim
  <2>6. ASSUME NEW v \in Says(x, n) PROVE MergeEntries(One(w, k)[v], x[v]) = x[v]
    <3>1. v \in Wakes /\ x[v] \in Known
      BY SaysIn DEF Opinion
    <3>2. One(w, k)[v] = IF v = w THEN x[w] ELSE Unknown
      BY <2>1, <3>1, OneIs
    <3> QED
      BY <3>1, <3>2, MergeIs
  <2> QED
    BY <2>5, <2>6 DEF AtMost
<1> QED
  BY <1>1, <1>2 DEF Heard

-----------------------------------------------------------------------------
(* A device that comes to know more.                                        *)

\* It has all it had but for deleted notes.
Grows(known, more, gone) == \A n \in Notes : n \in gone \/ AtMost(known, more, n)

\* What it knows of a note is as before, or queued again.
Carries(known, events, more, queue, sent) ==
    \A n \in Notes : Says(more, n) # {} =>
        \/ Queued(queue \ sent, n)
        \/ SameNote(known, more, n) /\ ~Queued(events \ sent, n)

LEMMA HeardGrows ==
    ASSUME NEW known \in Opinion, NEW more \in Opinion, NEW gone, NEW gone2, gone \subseteq gone2,
           Grows(known, more, gone2), NEW events, Heard(events, known, gone)
    PROVE  Heard(events, more, gone2)
<1>1. ASSUME NEW w \in Wakes, NEW x \in Known, Handled(w, x) \in events, NoteOf[w] \notin gone2
      PROVE  AtMost(One(w, x), more, NoteOf[w])
  <2>1. AtMost(One(w, x), known, NoteOf[w])
    BY <1>1 DEF Heard
  <2>2. AtMost(known, more, NoteOf[w])
    BY <1>1, NotesAre DEF Grows
  <2>3. One(w, x) \in Opinion
    BY OneIs
  <2> QED
    BY <2>1, <2>2, <2>3, AtMostThrough
<1> QED
  BY <1>1 DEF Heard

LEMMA SeenGrows ==
    ASSUME NEW known \in Opinion, NEW more \in Opinion, NEW gone, NEW gone2, gone \subseteq gone2,
           Grows(known, more, gone2), NEW rs \in SUBSET RelayRow, NEW place, Seen(rs, place, known, gone)
    PROVE  Seen(rs, place, more, gone2)
<1>1. ASSUME NEW r \in rs, r.seq <= place, r.note \notin gone2
      PROVE  ~r.deleted /\ AtMost(r.known, more, r.note)
  <2>1. ~r.deleted /\ AtMost(r.known, known, r.note)
    BY <1>1 DEF Seen
  <2>2. AtMost(known, more, r.note)
    BY <1>1 DEF Grows, RelayRow
  <2>3. r.known \in Opinion
    BY DEF RelayRow
  <2> QED
    BY <2>1, <2>2, <2>3, AtMostThrough
<1> QED
  BY <1>1 DEF Seen

LEMMA HeldSame ==
    ASSUME NEW rs, NEW place, NEW known, NEW more, NEW n, SameNote(known, more, n),
           Held(rs, place, known, n)
    PROVE  Held(rs, place, more, n)
<1>1. PICK r \in rs : r.note = n /\ (r.deleted \/ AtMost(known, r.known, n) \/ r.seq > place)
  BY DEF Held
<1>2. SameNote(r.known, r.known, n)
  BY DEF SameNote
<1>3. AtMost(known, r.known, n) => AtMost(more, r.known, n)
  BY <1>2, AtMostSame
<1> QED
  BY <1>1, <1>3 DEF Held

LEMMA SentCarries ==
    ASSUME NEW rs, NEW place, NEW known, NEW more, NEW events, NEW queue,
           Carries(known, events, more, queue, {}), Sent(rs, place, known, events)
    PROVE  Sent(rs, place, more, queue)
<1>1. ASSUME NEW n \in Notes, Says(more, n) # {}, ~Queued(queue, n)
      PROVE  Held(rs, place, more, n)
  <2>1. queue \ {} = queue /\ events \ {} = events
    OBVIOUS
  <2>2. SameNote(known, more, n) /\ ~Queued(events, n)
    BY <1>1, <2>1 DEF Carries
  <2>3. Says(known, n) # {}
    BY <1>1, <2>2, SameSays
  <2>4. Held(rs, place, known, n)
    BY <2>2, <2>3 DEF Sent
  <2> QED
    BY <2>2, <2>4, HeldSame
<1> QED
  BY <1>1 DEF Sent

LEMMA AllCarries ==
    ASSUME NEW known, NEW more, NEW events, NEW queue, NEW sent,
           Carries(known, events, more, queue, sent), AllQueued(known, events \ sent)
    PROVE  AllQueued(more, queue \ sent)
BY SameSays DEF Carries, AllQueued

LEMMA SentOKCarries ==
    ASSUME NEW rs, NEW f, NEW known \in Opinion, NEW more \in Opinion, NEW events, NEW queue,
           Carries(known, events, more, queue, f.sent), SentOK(f, rs, known, events)
    PROVE  SentOK(f, rs, more, queue)
<1>1. ASSUME NEW n \in Notes, Says(more, n) # {}, Queued(f.sent, n), ~Queued(queue \ f.sent, n)
      PROVE  \/ \E p \in f.upload : p.note = n /\ ~p.deleted /\ p.known = NoteReceipts(more, n)
             \/ Held(rs, f.cursor, more, n)
  <2>1. SameNote(known, more, n) /\ ~Queued(events \ f.sent, n)
    BY <1>1 DEF Carries
  <2>2. Says(known, n) # {} /\ NoteReceipts(known, n) = NoteReceipts(more, n)
    BY <1>1, <2>1, SameSays, NoteEqual
  <2>3. \/ \E p \in f.upload : p.note = n /\ ~p.deleted /\ p.known = NoteReceipts(known, n)
        \/ Held(rs, f.cursor, known, n)
    BY <1>1, <2>1, <2>2 DEF SentOK
  <2> QED
    BY <2>1, <2>2, <2>3, HeldSame
<1> QED
  BY <1>1 DEF SentOK

DeviceTyped(known, events, gone, place, f, asleep) ==
    /\ known \in Opinion /\ events \in SUBSET Events /\ gone \in SUBSET Notes
    /\ place \in Nat /\ f \in Flight /\ asleep \in BOOLEAN

LEMMA KnowsMore ==
    ASSUME NEW rs \in SUBSET RelayRow, NEW last, NEW known \in Opinion, NEW events, NEW gone,
           NEW place, NEW f, NEW asleep,
           DeviceIs(rs, last, known, events, gone, place, f, asleep),
           NEW more \in Opinion, NEW queue, NEW gone2,
           gone \subseteq gone2, Tidy(more, gone2), Heard(queue, more, gone2),
           Grows(known, more, gone2),
           Carries(known, events, more, queue, {}),
           f.stage # "idle" => Carries(known, events, more, queue, f.sent)
    PROVE  DeviceIs(rs, last, more, queue, gone2, place, f, asleep)
<1>1. Seen(rs, place, more, gone2)
  BY SeenGrows DEF DeviceIs
<1>2. place = 0 => AllQueued(more, queue) /\ ~asleep
  <2>1. queue \ {} = queue /\ events \ {} = events
    OBVIOUS
  <2>2. place = 0 => AllQueued(known, events \ {}) /\ ~asleep
    BY <2>1 DEF DeviceIs
  <2>3. AllQueued(known, events \ {}) => AllQueued(more, queue \ {})
    BY AllCarries
  <2> QED
    BY <2>1, <2>2, <2>3
<1>3. ~asleep => Sent(rs, place, more, queue)
  BY SentCarries DEF DeviceIs
<1>4. ASSUME f.stage # "idle" PROVE FlightOK(f, place, more, gone2, queue, asleep, rs, last)
  <2>1. FlightOK(f, place, known, gone, events, asleep, rs, last)
    BY DEF DeviceIs
  <2>2. /\ f.cursor = place
        /\ Heard(f.sent, known, gone)
        /\ UploadOK(f, rs)
        /\ f.stage = "answered" /\ ~f.reset =>
                PageOK(f, rs, last) /\ (f.next = 0 => AllQueued(known, events \ f.sent))
        /\ ~asleep /\ ~f.reset => SentOK(f, rs, known, events)
    BY <1>4, <2>1 DEF FlightOK
  <2>3. Heard(f.sent, more, gone2)
    BY <2>2, HeardGrows
  <2>4. AllQueued(known, events \ f.sent) => AllQueued(more, queue \ f.sent)
    BY <1>4, AllCarries
  <2>5. SentOK(f, rs, known, events) => SentOK(f, rs, more, queue)
    BY <1>4, SentOKCarries
  <2> QED
    BY <2>2, <2>3, <2>4, <2>5 DEF FlightOK
<1>5. FlightOK(f, place, more, gone2, queue, asleep, rs, last)
  BY <1>4 DEF FlightOK
<1>6. place <= last
  BY DEF DeviceIs
<1> QED
  BY <1>1, <1>2, <1>3, <1>5, <1>6 DEF DeviceIs

-----------------------------------------------------------------------------
(* A row that gives way to one of a later number.                           *)

Replaces(rs, new, last) ==
    /\ \A r \in new : r \in rs \/ r.seq > last
    /\ \A r \in rs : r \in new \/ \E s \in new : s.note = r.note /\ s.seq > last

LEMMA HeldOn ==
    ASSUME NEW rs \in SUBSET RelayRow, NEW new \in SUBSET RelayRow, NEW last \in Nat, Replaces(rs, new, last),
           NEW place \in Nat, place <= last, NEW known, NEW n, Held(rs, place, known, n)
    PROVE  Held(new, place, known, n)
<1>1. PICK r \in rs : r.note = n /\ (r.deleted \/ AtMost(known, r.known, n) \/ r.seq > place)
  BY DEF Held
<1>2. CASE r \in new
  BY <1>1, <1>2 DEF Held
<1>3. CASE r \notin new
  <2>1. PICK s \in new : s.note = r.note /\ s.seq > last
    BY <1>3 DEF Replaces
  <2>2. s.seq > place
    BY <2>1 DEF RelayRow
  <2> QED
    BY <1>1, <2>1, <2>2 DEF Held
<1> QED
  BY <1>2, <1>3

LEMMA PageOn ==
    ASSUME NEW rs \in SUBSET RelayRow, NEW new \in SUBSET RelayRow, NEW last \in Nat, Replaces(rs, new, last),
           NEW last2 \in Nat, last <= last2, NEW f \in Flight, PageOK(f, rs, last)
    PROVE  PageOK(f, new, last2)
<1>1. /\ f.upload = {} /\ f.cursor <= f.next /\ f.next <= last
      /\ \A r, s \in f.page : r.note = s.note => r = s
      /\ \A r \in rs : r.seq <= f.next => r.seq <= f.cursor \/ r \in f.page
      /\ \A s \in f.page :
            s.seq <= f.next /\ s.seq > f.cursor /\ \E r \in rs : r.note = s.note /\ (r = s \/ r.seq > f.next)
  BY DEF PageOK
<1>2. f.next \in Nat /\ f.next <= last2
  BY <1>1 DEF Flight
<1>3. ASSUME NEW r \in new, r.seq <= f.next PROVE r.seq <= f.cursor \/ r \in f.page
  <2>1. r.seq \in Nat
    BY DEF RelayRow
  <2>2. r \in rs
    BY <1>1, <1>2, <1>3, <2>1 DEF Replaces
  <2> QED
    BY <1>1, <1>3, <2>2
<1>4. ASSUME NEW s \in f.page PROVE \E r \in new : r.note = s.note /\ (r = s \/ r.seq > f.next)
  <2>1. PICK r \in rs : r.note = s.note /\ (r = s \/ r.seq > f.next)
    BY <1>1
  <2>2. CASE r \in new
    BY <2>1, <2>2
  <2>3. CASE r \notin new
    <3>1. PICK t \in new : t.note = r.note /\ t.seq > last
      BY <2>3 DEF Replaces
    <3>2. t.seq > f.next
      BY <1>1, <1>2, <3>1 DEF RelayRow
    <3> QED
      BY <2>1, <3>1, <3>2
  <2> QED
    BY <2>2, <2>3
<1> QED
  BY <1>1, <1>2, <1>3, <1>4 DEF PageOK

LEMMA RowsReplaced ==
    ASSUME NEW rs \in SUBSET RelayRow, NEW new \in SUBSET RelayRow, NEW last \in Nat, Replaces(rs, new, last),
           NEW last2 \in Nat, last <= last2,
           NEW known, NEW events, NEW gone, NEW place \in Nat, NEW f \in Flight, NEW asleep,
           DeviceIs(rs, last, known, events, gone, place, f, asleep)
    PROVE  DeviceIs(new, last2, known, events, gone, place, f, asleep)
<1>1. /\ Tidy(known, gone) /\ Heard(events, known, gone) /\ place <= last
      /\ Seen(rs, place, known, gone)
      /\ place = 0 => AllQueued(known, events) /\ ~asleep
      /\ ~asleep => Sent(rs, place, known, events)
      /\ FlightOK(f, place, known, gone, events, asleep, rs, last)
  BY DEF DeviceIs
<1>2. place <= last2
  BY <1>1
<1>3. \A r \in new : r.seq \in Nat /\ (r.seq <= place => r \in rs)
  BY <1>1 DEF Replaces, RelayRow
<1>4. Seen(new, place, known, gone)
  BY <1>1, <1>3 DEF Seen
<1>5. ~asleep => Sent(new, place, known, events)
  BY <1>1, HeldOn DEF Sent
<1>6. ASSUME f.stage # "idle" PROVE FlightOK(f, place, known, gone, events, asleep, new, last2)
  <2>1. /\ f.cursor = place
        /\ Heard(f.sent, known, gone)
        /\ UploadOK(f, rs)
        /\ f.stage = "answered" /\ ~f.reset =>
                PageOK(f, rs, last) /\ (f.next = 0 => AllQueued(known, events \ f.sent))
        /\ ~asleep /\ ~f.reset => SentOK(f, rs, known, events)
    BY <1>1, <1>6 DEF FlightOK
  <2>2. UploadOK(f, new)
    BY <1>3, <2>1 DEF UploadOK
  <2>3. PageOK(f, rs, last) => PageOK(f, new, last2)
    BY PageOn
  <2>4. SentOK(f, rs, known, events) => SentOK(f, new, known, events)
    BY <1>1, <2>1, HeldOn DEF SentOK
  <2> QED
    BY <2>1, <2>2, <2>3, <2>4 DEF FlightOK
<1>7. FlightOK(f, place, known, gone, events, asleep, new, last2)
  BY <1>6 DEF FlightOK
<1> QED
  BY <1>1, <1>2, <1>4, <1>5, <1>7 DEF DeviceIs

-----------------------------------------------------------------------------
(* What users do.                                                           *)

LEMMA HeardParts ==
    ASSUME NEW A, NEW B, NEW known, NEW gone, Heard(A, known, gone), Heard(B, known, gone),
           NEW C \in SUBSET (A \cup B)
    PROVE  Heard(C, known, gone)
BY DEF Heard

LEMMA UndeletedIs ==
    ASSUME NEW A, NEW gone
    PROVE  Undeleted(A, gone) \subseteq A /\ \A e \in A : e.note \notin gone => e \in Undeleted(A, gone)
BY DEF Undeleted

LEMMA QueuedOn ==
    ASSUME NEW A, NEW gone, NEW B, Undeleted(A, gone) \subseteq B, NEW n, n \notin gone, NEW sent,
           Queued(A \ sent, n)
    PROVE  Queued(B \ sent, n)
BY UndeletedIs DEF Queued

\* Typing, and one device: the rest stays.
LEMMA OneDevice ==
    ASSUME IInv, NEW d \in Devices, UNCHANGED relay,
           NEW x \in Opinion, entries' = [entries EXCEPT ![d] = x],
           NEW q \in SUBSET Events, pending' = [pending EXCEPT ![d] = q],
           NEW g \in SUBSET Notes, deleted' = [deleted EXCEPT ![d] = g],
           NEW c \in Nat, cursor' = [cursor EXCEPT ![d] = c],
           NEW f \in Flight, flight' = [flight EXCEPT ![d] = f],
           NEW a \in BOOLEAN, slept' = [slept EXCEPT ![d] = a],
           DeviceIs(rows, nextSeq, x, q, g, c, f, a)
    PROVE  IInv'
<1>1. Typed /\ RowsOK /\ rows' = rows /\ nextSeq' = nextSeq
  BY DEF IInv, Typed, relay
<1>2. RowsOK'
  BY <1>1 DEF RowsOK
<1>3. Typed'
  BY <1>1, <1>2 DEF Typed
<1>4. ASSUME NEW e \in Devices PROVE DeviceOK(e)'
  <2>1. CASE e = d
    <3>1. entries'[e] = x /\ pending'[e] = q /\ deleted'[e] = g /\ cursor'[e] = c /\ flight'[e] = f /\ slept'[e] = a
      BY <1>1, <2>1 DEF Typed
    <3> QED
      BY <1>1, <3>1 DEF DeviceOK
  <2>2. CASE e # d
    <3>1. /\ entries'[e] = entries[e] /\ pending'[e] = pending[e] /\ deleted'[e] = deleted[e]
          /\ cursor'[e] = cursor[e] /\ flight'[e] = flight[e] /\ slept'[e] = slept[e]
      BY <1>1, <2>2 DEF Typed
    <3>2. DeviceOK(e)
      BY DEF IInv
    <3> QED
      BY <1>1, <3>1, <3>2 DEF DeviceOK
  <2> QED
    BY <2>1, <2>2
<1> QED
  BY <1>3, <1>4 DEF IInv

LEMMA DeviceIsOK ==
    ASSUME IInv, NEW d \in Devices
    PROVE  /\ DeviceIs(rows, nextSeq, entries[d], pending[d], deleted[d], cursor[d], flight[d], slept[d])
           /\ DeviceTyped(entries[d], pending[d], deleted[d], cursor[d], flight[d], slept[d])
           /\ RowsOK /\ rows \in SUBSET RelayRow /\ nextSeq \in Nat
BY DEF IInv, DeviceOK, Typed, DeviceTyped, RowsOK

\* What a receipt that says something new leaves as it was is queued again: its event is
\* not among those sent, unless the receipt is one that newer ones push out.
LEMMA RecordCarries ==
    ASSUME NEW known \in Opinion, NEW gone, Tidy(known, gone), NEW events,
           NEW w \in Wakes, NEW x \in Known \ {Unknown}, NoteOf[w] \notin gone,
           MergeEntries(known[w], x) # known[w],
           NEW queue, queue = Undeleted(events, gone) \cup {Handled(w, x)},
           NEW sent, Heard(sent, known, gone)
    PROVE  Carries(known, events, MergeHistory(known, One(w, x), gone), queue, sent)
<1> DEFINE more == MergeHistory(known, One(w, x), gone)
<1>1. ASSUME NEW n \in Notes, Says(more, n) # {}, ~Queued(queue \ sent, n)
      PROVE  SameNote(known, more, n) /\ ~Queued(events \ sent, n)
  <2>1. One(w, x) \in Opinion
    BY OneIs
  <2>2. Tidy(more, gone)
    BY <2>1, MergeTidy
  <2>3. n \notin gone /\ Trim(known, n)
    BY <1>1, <2>2, TidyIs
  <2>4. ~Queued(events \ sent, n)
    <3>1. Undeleted(events, gone) \subseteq queue
      OBVIOUS
    <3> HIDE DEF more
    <3> QED
      BY <1>1, <2>3, <3>1, QueuedOn
  <2>5. CASE n # NoteOf[w]
    <3>1. Says(One(w, x), n) = {}
      BY <2>5, OneIs
    <3> QED
      BY <2>1, <2>3, <2>4, <3>1, MergeLeaves
  <2>6. CASE n = NoteOf[w]
    <3>1. Handled(w, x) \in sent
      BY <1>1, <2>6, HandledIs DEF Queued
    <3>2. AtMost(One(w, x), known, n)
      BY <2>3, <2>6, <3>1 DEF Heard
    <3>3. Says(One(w, x), n) = {w} /\ One(w, x)[w] = x
      BY <2>6, OneIs
    <3>4. w \notin Says(known, n)
      <4>1. ASSUME w \in Says(known, n) PROVE FALSE
        <5>1. MergeEntries(x, known[w]) = known[w]
          BY <3>2, <3>3, <4>1 DEF AtMost
        <5>2. known[w] \in Known
          BY DEF Opinion
        <5> QED
          BY <5>1, <5>2, MergeIs
      <4> QED
        BY <4>1
    <3>5. KeepsLatest(known, One(w, x), gone, n) /\ Joins(known, One(w, x), more, n)
      BY <2>1, MergeKeeps
    <3>6. Says(known, n) \cup {w} = {w} \cup Says(known, n)
      OBVIOUS
    <3>7. Says(more, n) = Says(known, n)
      BY <2>3, <3>2, <3>3, <3>5, <3>6 DEF KeepsLatest, AtMost
    <3>8. \A v \in Says(more, n) : more[v] = MergeEntries(known[v], One(w, x)[v])
      BY <3>5 DEF Joins
    <3> HIDE DEF more
    <3>9. ASSUME NEW v \in Says(more, n) PROVE more[v] = known[v]
      <4>1. v # w /\ v \in Wakes /\ known[v] \in Known
        BY <3>4, <3>7, SaysIn DEF Opinion
      <4>2. One(w, x)[v] = Unknown
        BY <4>1, OneIs
      <4> QED
        BY <3>8, <4>1, <4>2, MergeIs
    <3>10. SameNote(known, more, n)
      BY <3>7, <3>9 DEF SameNote, Says
    <3> QED
      BY <2>4, <3>10
  <2> QED
    BY <2>5, <2>6
<1> QED
  BY <1>1 DEF Carries

LEMMA RecordInv ==
    ASSUME IInv, NEW d \in Devices, NEW w \in Wakes, NEW x \in Known \ {Unknown}, Record(d, w, x)
    PROVE  IInv'
<1> DEFINE known == entries[d]
           gone == deleted[d]
           more == MergeHistory(known, One(w, x), gone)
           queue == Undeleted(pending[d], gone) \cup {Handled(w, x)}
<1>1. /\ DeviceIs(rows, nextSeq, known, pending[d], gone, cursor[d], flight[d], slept[d])
      /\ DeviceTyped(known, pending[d], gone, cursor[d], flight[d], slept[d])
      /\ rows \in SUBSET RelayRow
  BY DeviceIsOK
<1>2. /\ NoteOf[w] \notin gone /\ MergeEntries(known[w], x) # known[w]
      /\ entries' = [entries EXCEPT ![d] = more] /\ pending' = [pending EXCEPT ![d] = queue]
      /\ UNCHANGED <<relay, deleted, cursor, flight, slept>>
  BY DEF Record, One
<1>3. known \in Opinion /\ pending[d] \in SUBSET Events /\ One(w, x) \in Opinion
  BY <1>1, OneIs DEF DeviceTyped
<1>4. NoteOf[w] \in Notes
  BY NotesAre
<1>5. more \in Opinion /\ Tidy(more, gone)
  BY <1>3, <1>4, MergeKeeps, MergeTidy
<1>6. Grows(known, more, gone)
  BY <1>3, MergeHasBoth DEF Grows
<1>7. Tidy(known, gone) /\ Heard(pending[d], known, gone)
  BY <1>1 DEF DeviceIs
<1>8. queue \in SUBSET Events
  BY <1>3, UndeletedIs DEF Events
<1>9. Heard(queue, more, gone)
  <2>1. Heard(pending[d], more, gone)
    BY <1>3, <1>5, <1>6, <1>7, HeardGrows
  <2>2. AtMost(One(w, x), more, NoteOf[w])
    BY <1>2, <1>3, <1>4, MergeHasBoth
  <2>3. Heard({Handled(w, x)}, more, gone)
    <3> HIDE DEF more, gone
    <3> QED
      BY <2>2, HandledIs DEF Heard
  <2>4. queue \in SUBSET (pending[d] \cup {Handled(w, x)})
    BY UndeletedIs
  <2> HIDE DEF more, queue, gone
  <2> QED
    BY <2>1, <2>3, <2>4, HeardParts
<1>10. Carries(known, pending[d], more, queue, {})
  <2>1. Heard({}, known, gone)
    BY DEF Heard
  <2> QED
    BY <1>2, <1>3, <1>7, <2>1, RecordCarries
<1>11. ASSUME flight[d].stage # "idle" PROVE Carries(known, pending[d], more, queue, flight[d].sent)
  <2>1. Heard(flight[d].sent, known, gone)
    BY <1>1, <1>11 DEF DeviceIs, FlightOK
  <2> QED
    BY <1>2, <1>3, <1>7, <2>1, RecordCarries
<1>12. DeviceIs(rows, nextSeq, more, queue, gone, cursor[d], flight[d], slept[d])
  <2> HIDE DEF known, gone, more, queue
  <2> QED
    BY <1>1, <1>3, <1>5, <1>6, <1>9, <1>10, <1>11, KnowsMore
<1>13. /\ deleted' = [deleted EXCEPT ![d] = gone] /\ cursor' = [cursor EXCEPT ![d] = cursor[d]]
       /\ flight' = [flight EXCEPT ![d] = flight[d]] /\ slept' = [slept EXCEPT ![d] = slept[d]]
  BY <1>2 DEF IInv, Typed
<1>14. gone \in SUBSET Notes /\ cursor[d] \in Nat /\ flight[d] \in Flight /\ slept[d] \in BOOLEAN
  BY <1>1 DEF DeviceTyped
<1>15. /\ UNCHANGED relay
       /\ entries' = [entries EXCEPT ![d] = more] /\ pending' = [pending EXCEPT ![d] = queue]
  BY <1>2
<1> HIDE DEF known, gone, more, queue
<1> QED
  BY <1>5, <1>8, <1>12, <1>13, <1>14, <1>15, OneDevice

\* A note deleted for good leaves the others as they were.
LEMMA ForgetNoteInv ==
    ASSUME IInv, NEW d \in Devices, NEW n \in Notes, ForgetNote(d, n)
    PROVE  IInv'
<1> DEFINE known == entries[d]
           events == pending[d]
           gone == deleted[d] \cup {n}
           more == MergeHistory(known, Nothing, gone)
           told == IF HasReceipts(known, n) \/ \E e \in events : e.note = n THEN {DeletedEvent(n)} ELSE {}
           queue == Undeleted(events, gone) \cup told
<1>1. /\ DeviceIs(rows, nextSeq, known, events, deleted[d], cursor[d], flight[d], slept[d])
      /\ DeviceTyped(known, events, deleted[d], cursor[d], flight[d], slept[d])
      /\ rows \in SUBSET RelayRow
  BY DeviceIsOK
<1>2. /\ deleted' = [deleted EXCEPT ![d] = gone]
      /\ entries' = [entries EXCEPT ![d] = more] /\ pending' = [pending EXCEPT ![d] = queue]
      /\ UNCHANGED <<relay, cursor, flight, slept>>
  BY DEF ForgetNote
<1>3. known \in Opinion /\ events \in SUBSET Events /\ deleted[d] \in SUBSET Notes
  BY <1>1 DEF DeviceTyped
<1>4. Tidy(known, deleted[d]) /\ Heard(events, known, deleted[d])
  BY <1>1 DEF DeviceIs
<1>5. more \in Opinion /\ Tidy(more, gone)
  BY <1>3, NothingSays, MergeKeeps, MergeTidy
<1>6. Grows(known, more, gone)
  BY <1>3, NothingSays, MergeHasBoth DEF Grows
<1>7. queue \in SUBSET Events
  BY <1>3, UndeletedIs DEF Events
<1>8. Heard(queue, more, gone)
  <2>1. Heard(events, more, gone)
    <3>1. deleted[d] \subseteq gone
      OBVIOUS
    <3> HIDE DEF gone, more
    <3> QED
      BY <1>3, <1>4, <1>5, <1>6, <3>1, HeardGrows
  <2>2. Heard(told, more, gone)
    <3>1. told \subseteq {DeletedEvent(n)}
      OBVIOUS
    <3> HIDE DEF told, more, gone
    <3> QED
      BY <3>1, HandledIs DEF Heard
  <2>3. queue \in SUBSET (events \cup told)
    BY UndeletedIs
  <2> HIDE DEF more, queue, gone, told
  <2> QED
    BY <2>1, <2>2, <2>3, HeardParts
<1>9. \A sent : Carries(known, events, more, queue, sent)
  <2>1. ASSUME NEW sent, NEW m \in Notes, Says(more, m) # {}, ~Queued(queue \ sent, m)
        PROVE  SameNote(known, more, m) /\ ~Queued(events \ sent, m)
    <3>1. m \notin gone
      BY <1>5, <2>1, TidyIs
    <3>2. Trim(known, m)
      BY <1>4, TidyIs
    <3>3. SameNote(known, more, m)
      BY <1>3, <3>1, <3>2, NothingSays, MergeLeaves
    <3>4. Undeleted(events, gone) \subseteq queue
      OBVIOUS
    <3> HIDE DEF gone, queue
    <3>5. ~Queued(events \ sent, m)
      BY <2>1, <3>1, <3>4, QueuedOn
    <3> QED
      BY <3>3, <3>5
  <2> QED
    BY <2>1 DEF Carries
<1>10. deleted[d] \subseteq gone /\ gone \in SUBSET Notes
  BY <1>3
<1>11. DeviceIs(rows, nextSeq, more, queue, gone, cursor[d], flight[d], slept[d])
  <2> HIDE DEF known, gone, more, queue, events
  <2> QED
    BY <1>1, <1>3, <1>5, <1>6, <1>8, <1>9, <1>10, KnowsMore
<1>12. /\ cursor' = [cursor EXCEPT ![d] = cursor[d]]
       /\ flight' = [flight EXCEPT ![d] = flight[d]] /\ slept' = [slept EXCEPT ![d] = slept[d]]
  BY <1>2 DEF IInv, Typed
<1>13. cursor[d] \in Nat /\ flight[d] \in Flight /\ slept[d] \in BOOLEAN
  BY <1>1 DEF DeviceTyped
<1>14. /\ UNCHANGED relay /\ deleted' = [deleted EXCEPT ![d] = gone]
       /\ entries' = [entries EXCEPT ![d] = more] /\ pending' = [pending EXCEPT ![d] = queue]
  BY <1>2
<1> HIDE DEF known, gone, more, queue
<1> QED
  BY <1>5, <1>7, <1>10, <1>11, <1>12, <1>13, <1>14, OneDevice

-----------------------------------------------------------------------------
(* The steps of an exchange.                                                *)

LEMMA NoFlightIs ==
    /\ NoFlight \in Flight /\ NoFlight.stage = "idle"
    /\ \A place, known, gone, events, asleep, rs, last :
            FlightOK(NoFlight, place, known, gone, events, asleep, rs, last)
<1>1. NoFlight \in Flight /\ NoFlight.stage = "idle"
  BY DEF NoFlight, Flight
<1> QED
  BY <1>1 DEF FlightOK

LEMMA FlightOnly ==
    ASSUME IInv, NEW d \in Devices, UNCHANGED <<relay, channel, slept>>,
           NEW f \in Flight, flight' = [flight EXCEPT ![d] = f],
           FlightOK(f, cursor[d], entries[d], deleted[d], pending[d], slept[d], rows, nextSeq)
    PROVE  IInv'
<1>1. /\ DeviceIs(rows, nextSeq, entries[d], pending[d], deleted[d], cursor[d], flight[d], slept[d])
      /\ DeviceTyped(entries[d], pending[d], deleted[d], cursor[d], flight[d], slept[d])
  BY DeviceIsOK
<1>2. DeviceIs(rows, nextSeq, entries[d], pending[d], deleted[d], cursor[d], f, slept[d])
  BY <1>1 DEF DeviceIs
<1>3. /\ rows' = rows /\ nextSeq' = nextSeq /\ entries' = entries /\ pending' = pending
      /\ deleted' = deleted /\ cursor' = cursor /\ slept' = slept
  BY DEF relay, channel
<1>4. Typed'
  BY <1>3 DEF IInv, Typed, RowsOK
<1>5. ASSUME NEW e \in Devices PROVE DeviceOK(e)'
  <2>1. flight'[e] = IF e = d THEN f ELSE flight[e]
    BY DEF IInv, Typed
  <2>2. DeviceOK(e)
    BY DEF IInv
  <2> QED
    BY <1>2, <1>3, <2>1, <2>2 DEF DeviceOK
<1> QED
  BY <1>4, <1>5 DEF IInv

LEMMA PacketIs ==
    ASSUME NEW d \in Devices, NEW n \in Notes, entries[d] \in Opinion
    PROVE  /\ Packet(d, n) \in Packets
           /\ Packet(d, n).note = n /\ (Packet(d, n).deleted <=> n \in deleted[d])
           /\ n \notin deleted[d] => Packet(d, n).known = NoteReceipts(entries[d], n)
<1>1. NoteReceipts(entries[d], n) \in Opinion /\ Nothing \in Opinion
  BY NoteAlone, NothingSays
<1>2. Packet(d, n) \in Packets
  BY <1>1 DEF Packet, Packets
<1> QED
  BY <1>2 DEF Packet

\* What an upload says covers the rows its sender has seen, and a note without receipts
\* has nothing to upload.
LEMMA PrepareInv ==
    ASSUME IInv, NEW d \in Devices, Prepare(d)
    PROVE  IInv'
<1> DEFINE known == entries[d]
           gone == deleted[d]
           queued == { e.note : e \in pending[d] }
           size == IF Cardinality(queued) < Batch THEN Cardinality(queued) ELSE Batch
<1>1. /\ DeviceIs(rows, nextSeq, known, pending[d], gone, cursor[d], flight[d], slept[d])
      /\ DeviceTyped(known, pending[d], gone, cursor[d], flight[d], slept[d])
      /\ rows \in SUBSET RelayRow
  BY DeviceIsOK
<1>2. /\ known \in Opinion /\ pending[d] \in SUBSET Events /\ gone \in SUBSET Notes
      /\ cursor[d] \in Nat
  BY <1>1 DEF DeviceTyped
<1>3. Tidy(known, gone) /\ Heard(pending[d], known, gone) /\ Seen(rows, cursor[d], known, gone)
  BY <1>1 DEF DeviceIs
<1>4. PICK notes \in kSubset(size, queued) :
        flight' = [flight EXCEPT ![d] =
            [NoFlight EXCEPT
                !.stage = "sent", !.cursor = cursor[d],
                !.upload = { p \in { Packet(d, n) : n \in notes } : p.deleted \/ p.known # Nothing },
                !.sent = { e \in pending[d] : e.note \in notes },
                !.more = Cardinality(queued) > Batch]]
  BY DEF Prepare
<1> DEFINE upload == { p \in { Packet(d, n) : n \in notes } : p.deleted \/ p.known # Nothing }
           sent == { e \in pending[d] : e.note \in notes }
           many == Cardinality(queued) > Batch
           f == [NoFlight EXCEPT !.stage = "sent", !.cursor = cursor[d], !.upload = upload, !.sent = sent,
                                 !.more = many]
<1>5. notes \subseteq queued
  <2> HIDE DEF size, queued
  <2> QED
    BY DEF kSubset
<1>6. notes \subseteq Notes
  BY <1>2, <1>5, EventsAre
<1>7. \A n \in Notes : /\ Packet(d, n) \in Packets
                       /\ Packet(d, n).note = n /\ (Packet(d, n).deleted <=> n \in gone)
                       /\ n \notin gone => Packet(d, n).known = NoteReceipts(known, n)
  BY <1>2, PacketIs
<1>8. upload \in SUBSET Packets /\ sent \in SUBSET Events
  BY <1>2, <1>6, <1>7
<1>9. /\ f \in Flight
      /\ f.stage = "sent" /\ f.cursor = cursor[d] /\ f.upload = upload /\ f.sent = sent
  <2>1. many \in BOOLEAN
    OBVIOUS
  <2> HIDE DEF upload, sent, many
  <2>2. NoFlight \in Flight
    BY NoFlightIs
  <2> QED
    BY <1>2, <1>8, <2>1, <2>2 DEF Flight
<1>10. Heard(sent, known, gone)
  BY <1>3 DEF Heard
<1>11. UploadOK(f, rows)
  <2>1. ASSUME NEW p \in upload, NEW r \in rows, r.note = p.note, r.seq <= cursor[d], ~r.deleted, ~p.deleted
        PROVE  AtMost(r.known, p.known, p.note)
    <3>1. PICK n \in notes : p = Packet(d, n)
      BY <2>1
    <3>2. n \in Notes /\ p.note = n /\ n \notin gone /\ p.known = NoteReceipts(known, n)
      BY <1>6, <1>7, <2>1, <3>1
    <3>3. AtMost(r.known, known, n)
      BY <1>3, <2>1, <3>2 DEF Seen
    <3>4. SameNote(known, NoteReceipts(known, n), n) /\ SameNote(r.known, r.known, n)
      BY <1>2, NoteAlone DEF SameNote
    <3> QED
      BY <3>2, <3>3, <3>4, AtMostSame
  <2> HIDE DEF f, upload
  <2> QED
    BY <1>9, <2>1 DEF UploadOK
<1>12. SentOK(f, rows, known, pending[d])
  <2>1. ASSUME NEW n \in Notes, Says(known, n) # {}, Queued(sent, n)
        PROVE  \E p \in upload : p.note = n /\ ~p.deleted /\ p.known = NoteReceipts(known, n)
    <3>1. n \notin gone
      BY <1>3, <2>1, TidyIs
    <3>2. n \in notes
      BY <2>1 DEF Queued
    <3>3. NoteReceipts(known, n) # Nothing
      BY <1>2, <2>1, HasSays DEF HasReceipts
    <3>4. Packet(d, n) \in upload
      BY <1>7, <3>1, <3>2, <3>3
    <3> QED
      BY <1>7, <3>1, <3>4
  <2> HIDE DEF f, upload, sent
  <2> QED
    BY <1>9, <2>1 DEF SentOK
<1> HIDE DEF f, sent, upload, many
<1>13. FlightOK(f, cursor[d], known, gone, pending[d], slept[d], rows, nextSeq)
  BY <1>9, <1>10, <1>11, <1>12 DEF FlightOK
<1>14. flight' = [flight EXCEPT ![d] = f]
  BY <1>4 DEF f, sent, upload, many
<1>15. UNCHANGED <<relay, channel, slept>>
  BY DEF Prepare
<1> QED
  BY <1>9, <1>13, <1>14, <1>15, FlightOnly

LEMMA CheckInv ==
    ASSUME IInv, NEW d \in Devices, Check(d)
    PROVE  IInv'
<1> DEFINE old == flight[d]
           f == IF old.cursor > LatestSeq THEN [old EXCEPT !.stage = "answered", !.reset = TRUE]
                ELSE [old EXCEPT !.stage = "checked"]
<1>1. /\ DeviceIs(rows, nextSeq, entries[d], pending[d], deleted[d], cursor[d], old, slept[d])
      /\ DeviceTyped(entries[d], pending[d], deleted[d], cursor[d], old, slept[d])
  BY DeviceIsOK
<1>2. /\ old.stage = "sent" /\ flight' = [flight EXCEPT ![d] = f]
      /\ UNCHANGED <<relay, channel, slept>>
  BY DEF Check
<1>3. old \in Flight
  BY <1>1 DEF DeviceTyped
<1>4. /\ old.cursor = cursor[d] /\ Heard(old.sent, entries[d], deleted[d]) /\ UploadOK(old, rows)
      /\ ~slept[d] /\ ~old.reset => SentOK(old, rows, entries[d], pending[d])
  BY <1>1, <1>2 DEF DeviceIs, FlightOK
<1> HIDE DEF old
<1>5. CASE old.cursor > LatestSeq
  <2>1. f = [old EXCEPT !.stage = "answered", !.reset = TRUE]
    BY <1>5
  <2> HIDE DEF f
  <2>2. f \in Flight /\ f.cursor = old.cursor /\ f.sent = old.sent /\ f.upload = old.upload /\ f.reset
    BY <1>3, <2>1 DEF Flight
  <2>3. UploadOK(f, rows)
    BY <1>4, <2>2 DEF UploadOK
  <2>4. FlightOK(f, cursor[d], entries[d], deleted[d], pending[d], slept[d], rows, nextSeq)
    BY <1>4, <2>2, <2>3 DEF FlightOK
  <2> QED
    BY <1>2, <2>2, <2>4, FlightOnly
<1>6. CASE ~(old.cursor > LatestSeq)
  <2>1. f = [old EXCEPT !.stage = "checked"]
    BY <1>6
  <2> HIDE DEF f
  <2>2. /\ f \in Flight /\ f.cursor = old.cursor /\ f.sent = old.sent /\ f.upload = old.upload
        /\ f.stage = "checked" /\ f.reset = old.reset
    BY <1>3, <2>1 DEF Flight
  <2>3. UploadOK(f, rows) /\ (SentOK(old, rows, entries[d], pending[d]) => SentOK(f, rows, entries[d], pending[d]))
    BY <1>4, <2>2 DEF UploadOK, SentOK
  <2>4. FlightOK(f, cursor[d], entries[d], deleted[d], pending[d], slept[d], rows, nextSeq)
    BY <1>4, <2>2, <2>3 DEF FlightOK
  <2> QED
    BY <1>2, <2>2, <2>4, FlightOnly
<1> QED
  BY <1>5, <1>6

LEMMA FailInv ==
    ASSUME IInv, NEW d \in Devices, Fail(d)
    PROVE  IInv'
<1>1. flight' = [flight EXCEPT ![d] = NoFlight] /\ UNCHANGED <<relay, channel, slept>>
  BY DEF Fail
<1>2. NoFlight \in Flight
  BY NoFlightIs
<1>3. FlightOK(NoFlight, cursor[d], entries[d], deleted[d], pending[d], slept[d], rows, nextSeq)
  BY NoFlightIs
<1> QED
  BY <1>1, <1>2, <1>3, FlightOnly

\* A set of numbers with a bound has a greatest.
LEMMA MaxIs ==
    ASSUME NEW k \in Nat, NEW S \in SUBSET (0 .. k), S # {}
    PROVE  Max(S) \in S /\ \A y \in S : y <= Max(S)
<1> DEFINE T == { k - y : y \in S }
<1>1. T \in SUBSET Nat /\ T # {}
  <2>1. ASSUME NEW y \in S PROVE k - y \in Nat
    <3>1. y \in Int /\ 0 <= y /\ y <= k
      OBVIOUS
    <3> QED
      BY <3>1
  <2> QED
    BY <2>1
<1>2. PICK t \in T : \A u \in T : t <= u
  BY <1>1, LeastNatural
<1>3. PICK m \in S : t = k - m
  BY <1>2
<1>4. ASSUME NEW y \in S PROVE m >= y
  <2>1. k - y \in T
    OBVIOUS
  <2>2. t <= k - y
    BY <1>2, <2>1
  <2> QED
    BY <1>3, <2>2
<1>5. \E x \in S : \A y \in S : x >= y
  BY <1>4
<1>6. Max(S) \in S /\ \A y \in S : Max(S) >= y
  BY <1>5 DEF Max
<1>7. \A y \in S : y \in Int /\ Max(S) \in Int
  BY <1>6
<1> QED
  BY <1>6, <1>7

\* A page has all the rows up to its last.
LEMMA ReadPageInv ==
    ASSUME IInv, NEW d \in Devices, ReadPage(d)
    PROVE  IInv'
<1> DEFINE old == flight[d]
           new == { r \in rows : r.seq > old.cursor }
           before(r) == { s \in new : s.seq < r.seq }
           page == { r \in new : Cardinality(before(r)) < Batch }
           next == IF page = {} THEN old.cursor ELSE Max({ r.seq : r \in page })
           more == page # new
           f == [old EXCEPT !.stage = "answered", !.page = page, !.hasMore = more, !.next = next]
<1>1. /\ DeviceIs(rows, nextSeq, entries[d], pending[d], deleted[d], cursor[d], old, slept[d])
      /\ DeviceTyped(entries[d], pending[d], deleted[d], cursor[d], old, slept[d])
      /\ RowsOK /\ rows \in SUBSET RelayRow /\ nextSeq \in Nat
  BY DeviceIsOK
<1>2. /\ old.stage = "checked" /\ old.upload = {} /\ flight' = [flight EXCEPT ![d] = f]
      /\ UNCHANGED <<relay, channel, slept>>
  BY DEF ReadPage
<1>3. old \in Flight /\ old.cursor \in Nat /\ entries[d] \in Opinion
  BY <1>1 DEF DeviceTyped, Flight
<1>4. /\ old.cursor = cursor[d] /\ Heard(old.sent, entries[d], deleted[d]) /\ UploadOK(old, rows)
      /\ ~slept[d] /\ ~old.reset => SentOK(old, rows, entries[d], pending[d])
  BY <1>1, <1>2 DEF DeviceIs, FlightOK
<1>5. cursor[d] <= nextSeq /\ (cursor[d] = 0 => AllQueued(entries[d], pending[d]) /\ ~slept[d])
  BY <1>1 DEF DeviceIs
<1>6. /\ \A r \in rows : r.seq \in 1 .. nextSeq
      /\ \A r, s \in rows : r.note = s.note => r = s
      /\ IsFiniteSet(rows)
  BY <1>1 DEF RowsOK
<1> HIDE DEF old
<1>7. page \subseteq rows /\ \A r \in page : r.seq \in 1 .. nextSeq /\ r.seq > old.cursor
  BY <1>6
<1>8. \A r \in new : IsFiniteSet(before(r)) /\ Cardinality(before(r)) \in Nat
  BY <1>6, FS_Subset, FS_CardinalityType
<1>9. Batch \in Nat \ {0}
  BY LimitsAssumption
<1>10. page # {} => next \in { r.seq : r \in page } /\ \A r \in page : r.seq <= next
  <2> HIDE DEF page
  <2>1. { r.seq : r \in page } \in SUBSET (0 .. nextSeq)
    BY <1>1, <1>7
  <2>2. page # {} => { r.seq : r \in page } # {}
    OBVIOUS
  <2> QED
    BY <1>1, <2>1, <2>2, MaxIs
<1> HIDE DEF next
<1>11. /\ next \in Nat /\ old.cursor <= next /\ next <= nextSeq
       /\ next = 0 => page = {}
       /\ page = {} => next = old.cursor
  <2> HIDE DEF page
  <2>1. CASE page = {}
    <3>1. next = old.cursor
      BY <2>1 DEF next
    <3> QED
      BY <1>3, <1>4, <1>5, <2>1, <3>1
  <2>2. CASE page # {}
    <3>1. PICK r \in page : next = r.seq
      BY <1>10, <2>2
    <3>2. r.seq \in Nat /\ r.seq <= nextSeq /\ r.seq > 0 /\ r.seq > old.cursor
      BY <1>1, <1>7
    <3> QED
      BY <1>3, <2>2, <3>1, <3>2
  <2> QED
    BY <2>1, <2>2
<1>12. ASSUME NEW r \in rows, r.seq <= next, ~(r.seq <= old.cursor) PROVE r \in page
  <2>1. r \in new /\ page # {}
    <3>1. r.seq \in Nat
      BY <1>6
    <3>2. r \in new
      BY <1>3, <1>12, <3>1
    <3> HIDE DEF page, new
    <3> QED
      BY <1>3, <1>11, <1>12, <3>1, <3>2
  <2>2. PICK s \in page : s.seq = next
    BY <1>10, <2>1
  <2>3. s \in new /\ r.seq \in Nat /\ s.seq \in Nat
    BY <1>6, <2>2
  <2>4. before(r) \subseteq before(s)
    BY <1>6, <1>12, <2>2, <2>3
  <2>5. Cardinality(before(s)) < Batch
    BY <2>2
  <2> HIDE DEF before
  <2>6. Cardinality(before(r)) <= Cardinality(before(s))
    BY <1>8, <2>3, <2>4, FS_Subset
  <2>7. Cardinality(before(r)) < Batch
    BY <1>8, <1>9, <2>1, <2>3, <2>5, <2>6
  <2> QED
    BY <2>1, <2>7
<1>13. new = {} => rows = {} \/ next # 0
  BY <1>3, <1>6, <1>11
<1>14. page = {} => new = {}
  <2>1. ASSUME new # {} PROVE page # {}
    <3> DEFINE Seqs == { r.seq : r \in new }
    <3>1. Seqs \in SUBSET Nat /\ Seqs # {}
      BY <1>6, <2>1
    <3>2. PICK k \in Seqs : \A y \in Seqs : k <= y
      BY <3>1, LeastNatural
    <3>3. PICK r \in new : r.seq = k
      BY <3>2
    <3>4. before(r) = {}
      BY <1>6, <3>2, <3>3
    <3>5. Cardinality(before(r)) = 0
      BY <3>4, FS_EmptySet
    <3> HIDE DEF before
    <3>6. r \in page
      BY <1>9, <3>3, <3>5
    <3> QED
      BY <3>6
  <2> QED
    BY <2>1
<1>15. more \in BOOLEAN /\ page \in SUBSET RelayRow
  BY <1>1, <1>7
<1>16. \A r, s \in page : r.note = s.note => r = s
  BY <1>6, <1>7
<1>17. \A s \in page : s \in rows /\ s.seq <= next /\ s.seq > old.cursor
  BY <1>7, <1>10
<1> HIDE DEF new, page, more
<1>18. /\ f \in Flight
       /\ f.stage = "answered" /\ f.cursor = old.cursor /\ f.sent = old.sent /\ f.upload = old.upload
       /\ f.reset = old.reset /\ f.page = page /\ f.next = next
  BY <1>3, <1>11, <1>15 DEF Flight
<1> HIDE DEF f
<1>19. UploadOK(f, rows) /\ (SentOK(old, rows, entries[d], pending[d]) => SentOK(f, rows, entries[d], pending[d]))
  BY <1>4, <1>18 DEF UploadOK, SentOK
<1>20. PageOK(f, rows, nextSeq)
  BY <1>2, <1>11, <1>12, <1>16, <1>17, <1>18 DEF PageOK
<1>21. ASSUME f.next = 0, ~f.reset PROVE AllQueued(entries[d], pending[d] \ f.sent)
  <2>1. rows = {} /\ old.cursor = 0
    BY <1>3, <1>11, <1>13, <1>14, <1>18, <1>21
  <2>2. AllQueued(entries[d], pending[d]) /\ SentOK(old, rows, entries[d], pending[d])
    BY <1>4, <1>5, <1>18, <1>21, <2>1
  <2>3. ASSUME NEW n \in Notes, Says(entries[d], n) # {}, ~Queued(pending[d] \ old.sent, n) PROVE FALSE
    <3>1. Queued(old.sent, n)
      BY <2>2, <2>3 DEF AllQueued, Queued
    <3>2. Held(rows, old.cursor, entries[d], n)
      BY <1>2, <2>2, <2>3, <3>1 DEF SentOK
    <3> QED
      BY <2>1, <3>2 DEF Held
  <2> QED
    BY <1>18, <2>3 DEF AllQueued
<1>22. FlightOK(f, cursor[d], entries[d], deleted[d], pending[d], slept[d], rows, nextSeq)
  BY <1>4, <1>18, <1>19, <1>20, <1>21 DEF FlightOK
<1>23. flight' = [flight EXCEPT ![d] = f] /\ UNCHANGED <<relay, channel, slept>> /\ f \in Flight
  BY <1>2, <1>18
<1> QED
  BY <1>22, <1>23, FlightOnly

\* A reset queues all the device knows, so nothing depends on where it was.
LEMMA ResetChannelInv ==
    ASSUME IInv, NEW d \in Devices, ResetChannel(d)
    PROVE  IInv'
<1> DEFINE known == entries[d]
           gone == deleted[d]
           queue == pending[d] \cup EveryNote(known)
<1>1. /\ DeviceIs(rows, nextSeq, known, pending[d], gone, cursor[d], flight[d], slept[d])
      /\ DeviceTyped(known, pending[d], gone, cursor[d], flight[d], slept[d])
      /\ RowsOK /\ rows \in SUBSET RelayRow /\ nextSeq \in Nat
  BY DeviceIsOK
<1>2. /\ UNCHANGED <<relay, entries, deleted>>
      /\ cursor' = [cursor EXCEPT ![d] = 0] /\ pending' = [pending EXCEPT ![d] = queue]
      /\ flight' = [flight EXCEPT ![d] = NoFlight] /\ slept' = [slept EXCEPT ![d] = FALSE]
  BY DEF ResetChannel
<1>3. known \in Opinion /\ pending[d] \in SUBSET Events /\ gone \in SUBSET Notes
  BY <1>1 DEF DeviceTyped
<1>4. Tidy(known, gone) /\ Heard(pending[d], known, gone)
  BY <1>1 DEF DeviceIs
<1>5. EveryNote(known) \subseteq Events /\ Heard(EveryNote(known), known, gone) /\ AllQueued(known, EveryNote(known))
  BY <1>3, <1>4, EveryHeard, EveryAllQueued
<1>6. queue \in SUBSET Events /\ Heard(queue, known, gone)
  BY <1>3, <1>4, <1>5, HeardParts
<1>7. AllQueued(known, queue)
  BY <1>5 DEF AllQueued, Queued
<1>8. Seen(rows, 0, known, gone)
  BY <1>1 DEF Seen, RowsOK
<1>9. Sent(rows, 0, known, queue)
  BY <1>7 DEF Sent, AllQueued
<1>10. \A f, a : f = NoFlight => FlightOK(f, 0, known, gone, queue, a, rows, nextSeq)
  BY NoFlightIs
<1>11. \A a : a = FALSE => DeviceIs(rows, nextSeq, known, queue, gone, 0, NoFlight, a)
  <2> HIDE DEF known, gone, queue
  <2> QED
    BY <1>1, <1>4, <1>6, <1>7, <1>8, <1>9, <1>10 DEF DeviceIs
<1>12. /\ entries' = [entries EXCEPT ![d] = known] /\ deleted' = [deleted EXCEPT ![d] = gone]
  BY <1>2 DEF IInv, Typed
<1>13. PICK a \in BOOLEAN : a = FALSE
  OBVIOUS
<1>14. /\ UNCHANGED relay /\ slept' = [slept EXCEPT ![d] = a]
       /\ cursor' = [cursor EXCEPT ![d] = 0] /\ pending' = [pending EXCEPT ![d] = queue]
       /\ flight' = [flight EXCEPT ![d] = NoFlight]
  BY <1>2, <1>13
<1>15. DeviceIs(rows, nextSeq, known, queue, gone, 0, NoFlight, a) /\ NoFlight \in Flight /\ 0 \in Nat
  BY <1>11, <1>13, NoFlightIs
<1> HIDE DEF known, gone, queue
<1> QED
  BY <1>3, <1>6, <1>12, <1>14, <1>15, OneDevice

LEMMA PulledIs ==
    ASSUME NEW page \in SUBSET RelayRow, \A r, s \in page : r.note = s.note => r = s
    PROVE  /\ Pulled(page) \in Opinion
           /\ \A r \in page : ~r.deleted => SameNote(r.known, Pulled(page), r.note)
           /\ \A n : (\A r \in page : r.note # n) => Says(Pulled(page), n) = {}
<1> DEFINE row(w) == CHOOSE r \in page : r.note = NoteOf[w]
<1>1. \A w \in Wakes : Pulled(page)[w] =
        IF \E r \in page : r.note = NoteOf[w] /\ ~r.deleted THEN row(w).known[w] ELSE Unknown
  BY DEF Pulled
<1>2. \A w \in Wakes : \A r \in page : r.note = NoteOf[w] => row(w) = r
  OBVIOUS
<1>3. \A w \in Wakes : (\E r \in page : r.note = NoteOf[w]) => row(w).known[w] \in Known
  BY <1>2 DEF RelayRow, Opinion
<1> HIDE DEF row
<1>4. \A w \in Wakes : Pulled(page)[w] \in Known
  BY <1>1, <1>3, KnownAre
<1>5. Pulled(page) \in Opinion
  BY <1>4 DEF Pulled, Opinion
<1>6. \A r \in page : ~r.deleted => SameNote(r.known, Pulled(page), r.note)
  BY <1>1, <1>2 DEF SameNote, WakesOf
<1>7. \A n : (\A r \in page : r.note # n) => Says(Pulled(page), n) = {}
  BY <1>1 DEF Says, WakesOf
<1> QED
  BY <1>5, <1>6, <1>7

\* A row of the page that lacks something is answered; a row beyond it is still to be met.
LEMMA ReceiveInv ==
    ASSUME IInv, NEW d \in Devices, Receive(d)
    PROVE  IInv'
<1> DEFINE f == flight[d]
           known == entries[d]
           events == pending[d]
           gone == deleted[d] \cup { r.note : r \in { s \in f.page : s.deleted } }
           pulled == Pulled(f.page)
           merged == MergeHistory(known, pulled, gone)
           answers == Answers(d, f.page, merged)
           all == Acknowledged(events, f) \cup answers
           queue == Undeleted(all, gone)
           place == IF f.next > cursor[d] THEN f.next ELSE cursor[d]
<1>1. /\ DeviceIs(rows, nextSeq, known, events, deleted[d], cursor[d], f, slept[d])
      /\ DeviceTyped(known, events, deleted[d], cursor[d], f, slept[d])
      /\ RowsOK /\ rows \in SUBSET RelayRow /\ nextSeq \in Nat
  BY DeviceIsOK
<1>2. /\ f.stage = "answered" /\ ~f.reset
      /\ UNCHANGED <<relay, slept>>
      /\ entries' = [entries EXCEPT ![d] = merged] /\ deleted' = [deleted EXCEPT ![d] = gone]
      /\ cursor' = [cursor EXCEPT ![d] = place] /\ pending' = [pending EXCEPT ![d] = queue]
      /\ flight' = [flight EXCEPT ![d] = NoFlight]
  BY DEF Receive
<1>3. /\ known \in Opinion /\ events \in SUBSET Events /\ deleted[d] \in SUBSET Notes
      /\ cursor[d] \in Nat /\ slept[d] \in BOOLEAN /\ f \in Flight
  BY <1>1 DEF DeviceTyped
<1>4. /\ Tidy(known, deleted[d]) /\ Heard(events, known, deleted[d]) /\ cursor[d] <= nextSeq
      /\ Seen(rows, cursor[d], known, deleted[d])
      /\ cursor[d] = 0 => AllQueued(known, events) /\ ~slept[d]
      /\ ~slept[d] => Sent(rows, cursor[d], known, events)
      /\ FlightOK(f, cursor[d], known, deleted[d], events, slept[d], rows, nextSeq)
  BY <1>1 DEF DeviceIs
<1>5. /\ f.cursor = cursor[d]
      /\ PageOK(f, rows, nextSeq) /\ (f.next = 0 => AllQueued(known, events \ f.sent))
      /\ ~slept[d] => SentOK(f, rows, known, events)
  BY <1>2, <1>4 DEF FlightOK
<1>6. /\ f.upload = {} /\ f.cursor <= f.next /\ f.next <= nextSeq
      /\ \A r, s \in f.page : r.note = s.note => r = s
      /\ \A r \in rows : r.seq <= f.next => r.seq <= f.cursor \/ r \in f.page
      /\ \A s \in f.page :
            s.seq <= f.next /\ s.seq > f.cursor /\ \E r \in rows : r.note = s.note /\ (r = s \/ r.seq > f.next)
  BY <1>5 DEF PageOK
<1>7. f.page \in SUBSET RelayRow /\ f.next \in Nat
  BY <1>3 DEF Flight
<1>8. place = f.next /\ place \in Nat
  BY <1>3, <1>5, <1>6, <1>7
<1>9. /\ pulled \in Opinion
      /\ \A r \in f.page : ~r.deleted => SameNote(r.known, pulled, r.note)
      /\ \A n : (\A r \in f.page : r.note # n) => Says(pulled, n) = {}
  BY <1>6, <1>7, PulledIs
<1>10. /\ deleted[d] \subseteq gone /\ gone \in SUBSET Notes
       /\ \A r \in f.page : r.deleted => r.note \in gone
  BY <1>3, <1>7 DEF RelayRow
<1>11. \A e \in answers : \/ \E n \in deleted[d] : e = DeletedEvent(n)
                          \/ e \in EveryNote(merged)
  BY DEF Answers
<1>12. \A e \in EveryNote(merged), r \in f.page :
        r.note = e.note /\ ~r.deleted /\ r.note \notin deleted[d] /\ NoteReceipts(merged, r.note) # r.known
        => e \in answers
  BY DEF Answers
<1>13. \A e \in events : e \notin f.sent => e \in all
  BY DEF Acknowledged
<1>14. all \subseteq events \cup answers
  BY DEF Acknowledged
<1>15. flight' = [flight EXCEPT ![d] = NoFlight] /\ UNCHANGED relay /\ slept' = [slept EXCEPT ![d] = slept[d]]
  BY <1>2 DEF IInv, Typed
<1> HIDE DEF f, known, events, gone, pulled, answers, all, place
<1>16. merged \in Opinion /\ Tidy(merged, gone)
  <2>1. merged \in Opinion
    BY <1>3, <1>9, MergeOpinion
  <2> QED
    BY <1>3, <1>9, <2>1, MergeTidy
<1>17. Grows(known, merged, gone)
  BY <1>3, <1>9, MergeHasBoth DEF Grows
<1>18. ASSUME NEW n \in Notes, n \notin gone, \A r \in f.page : r.note # n
       PROVE  SameNote(known, merged, n)
  BY <1>3, <1>4, <1>9, <1>18, TidyIs, MergeLeaves
<1>19. ASSUME NEW r \in f.page, r.note \notin gone PROVE ~r.deleted /\ AtMost(r.known, merged, r.note)
  <2>1. ~r.deleted /\ r.note \in Notes
    BY <1>7, <1>10, <1>19 DEF RelayRow
  <2>2. SameNote(r.known, pulled, r.note)
    BY <1>9, <2>1
  <2>3. AtMost(pulled, merged, r.note)
    BY <1>3, <1>9, <1>19, <2>1, MergeHasBoth
  <2>4. SameNote(pulled, r.known, r.note) /\ SameNote(merged, merged, r.note)
    BY <2>2 DEF SameNote
  <2> HIDE DEF merged
  <2> QED
    BY <2>1, <2>3, <2>4, AtMostSame
<1> HIDE DEF merged
<1>20. answers \in SUBSET Events /\ Heard(answers, merged, gone)
  <2>1. EveryNote(merged) \subseteq Events /\ Heard(EveryNote(merged), merged, gone)
    BY <1>16, EveryHeard
  <2>2. \A n \in deleted[d] : DeletedEvent(n) \in Events
    BY <1>3 DEF Events
  <2> QED
    BY <1>11, <2>1, <2>2, HandledIs DEF Heard
<1>21. Heard(events, merged, gone)
  BY <1>3, <1>4, <1>10, <1>16, <1>17, HeardGrows
<1>22. queue \in SUBSET Events /\ Heard(queue, merged, gone)
  <2>1. queue \in SUBSET (events \cup answers)
    BY <1>14, UndeletedIs
  <2> HIDE DEF queue
  <2> QED
    BY <1>3, <1>20, <1>21, <2>1, HeardParts
<1>23. Seen(rows, place, merged, gone)
  <2>1. Seen(rows, cursor[d], merged, gone)
    BY <1>1, <1>3, <1>4, <1>10, <1>16, <1>17, SeenGrows
  <2>2. ASSUME NEW r \in rows, r.seq <= place, r.note \notin gone
        PROVE  ~r.deleted /\ AtMost(r.known, merged, r.note)
    <3>1. r.seq <= cursor[d] \/ r \in f.page
      BY <1>5, <1>6, <1>8, <2>2
    <3> QED
      BY <1>19, <2>1, <2>2, <3>1 DEF Seen
  <2> QED
    BY <2>2 DEF Seen
<1>24. ASSUME NEW n \in Notes, Says(merged, n) # {}, Queued(events \ f.sent, n)
       PROVE  Queued(queue, n)
  <2>1. n \notin gone
    BY <1>16, <1>24, TidyIs
  <2>2. PICK e \in events : e \notin f.sent /\ e.note = n
    BY <1>24 DEF Queued
  <2>3. e \in queue
    BY <1>13, <2>1, <2>2, UndeletedIs
  <2> QED
    BY <2>2, <2>3 DEF Queued
<1>25. ASSUME place = 0 PROVE AllQueued(merged, queue) /\ ~slept[d]
  <2>1. cursor[d] = 0 /\ f.cursor = 0 /\ f.next = 0
    BY <1>3, <1>5, <1>6, <1>8, <1>25
  <2>2. \A s \in f.page : s.seq \in Nat /\ s.seq <= 0 /\ s.seq > 0
    BY <1>6, <1>7, <2>1 DEF RelayRow
  <2>3. f.page = {}
    BY <2>2
  <2>4. ASSUME NEW n \in Notes, Says(merged, n) # {} PROVE Queued(queue, n)
    <3>1. n \notin gone
      BY <1>16, <2>4, TidyIs
    <3>2. SameNote(known, merged, n)
      BY <1>18, <2>3, <3>1
    <3>3. Says(known, n) # {}
      BY <2>4, <3>2, SameSays
    <3>4. Queued(events \ f.sent, n)
      BY <1>5, <2>1, <3>3 DEF AllQueued
    <3> QED
      BY <1>24, <2>4, <3>4
  <2> QED
    BY <1>4, <2>1, <2>4 DEF AllQueued
<1>26. ASSUME ~slept[d], NEW n \in Notes, Says(merged, n) # {}, ~Queued(queue, n)
       PROVE  Held(rows, place, merged, n)
  <2>1. n \notin gone /\ n \notin deleted[d] /\ Trim(merged, n)
    BY <1>10, <1>16, <1>26, TidyIs
  <2>2. ASSUME NEW s \in f.page, s.note = n PROVE Held(rows, place, merged, n)
    <3>1. PICK r \in rows : r.note = n /\ (r = s \/ r.seq > f.next)
      BY <1>6, <2>2
    <3>2. CASE r.seq > f.next
      BY <1>8, <3>1, <3>2 DEF Held
    <3>3. CASE r = s
      <4>1. ~s.deleted
        BY <1>10, <2>1, <2>2
      <4>2. PICK w \in WakesOf(n) : Handled(w, merged[w]) \in EveryNote(merged)
        BY <1>16, <1>26, EveryQueued
      <4>3. Handled(w, merged[w]).note = n
        BY HandledIs DEF WakesOf
      <4>4. ASSUME NoteReceipts(merged, n) # s.known PROVE FALSE
        <5>1. Handled(w, merged[w]) \in answers
          BY <1>12, <2>1, <2>2, <4>1, <4>2, <4>3, <4>4
        <5>2. Handled(w, merged[w]) \in queue
          BY <2>1, <4>3, <5>1, UndeletedIs DEF all
        <5> QED
          BY <1>26, <4>3, <5>2 DEF Queued
      <4>5. SameNote(merged, s.known, n) /\ SameNote(merged, merged, n)
        BY <1>16, <4>4, NoteAlone DEF SameNote
      <4>6. AtMost(merged, merged, n)
        BY <1>16, <2>1, AtMostSelf
      <4>7. AtMost(merged, s.known, n)
        BY <4>5, <4>6, AtMostSame
      <4> QED
        BY <3>1, <3>3, <4>7 DEF Held
    <3> QED
      BY <3>1, <3>2, <3>3
  <2>3. CASE \A r \in f.page : r.note # n
    <3>1. SameNote(known, merged, n)
      BY <1>18, <2>1, <2>3
    <3>2. Says(known, n) # {} /\ ~Queued(events \ f.sent, n)
      BY <1>24, <1>26, <3>1, SameSays
    <3>3. Held(rows, cursor[d], known, n)
      <4>1. CASE Queued(events, n)
        <5>1. Queued(f.sent, n)
          BY <3>2, <4>1 DEF Queued
        <5> QED
          BY <1>5, <1>6, <1>26, <3>2, <5>1 DEF SentOK
      <4>2. CASE ~Queued(events, n)
        BY <1>4, <1>26, <3>2, <4>2 DEF Sent
      <4> QED
        BY <4>1, <4>2
    <3>4. Held(rows, cursor[d], merged, n)
      BY <3>1, <3>3, HeldSame
    <3>5. PICK r \in rows : r.note = n /\ (r.deleted \/ AtMost(merged, r.known, n) \/ r.seq > cursor[d])
      BY <3>4 DEF Held
    <3>6. r.seq > cursor[d] => r.seq > place
      <4>1. r.seq \in Nat /\ r \notin f.page
        BY <1>1, <2>3, <3>5 DEF RelayRow
      <4> QED
        BY <1>3, <1>5, <1>6, <1>7, <1>8, <4>1
    <3> QED
      BY <3>5, <3>6 DEF Held
  <2> QED
    BY <2>2, <2>3
<1>27. ~slept[d] => Sent(rows, place, merged, queue)
  BY <1>26 DEF Sent
<1>28. /\ FlightOK(NoFlight, place, merged, gone, queue, slept[d], rows, nextSeq)
       /\ NoFlight \in Flight
  BY NoFlightIs
<1> HIDE DEF queue
<1>29. DeviceIs(rows, nextSeq, merged, queue, gone, place, NoFlight, slept[d])
  BY <1>6, <1>8, <1>16, <1>22, <1>23, <1>25, <1>27, <1>28 DEF DeviceIs
<1>30. /\ entries' = [entries EXCEPT ![d] = merged] /\ deleted' = [deleted EXCEPT ![d] = gone]
       /\ cursor' = [cursor EXCEPT ![d] = place] /\ pending' = [pending EXCEPT ![d] = queue]
  BY <1>2
<1>31. UNCHANGED relay /\ flight' = [flight EXCEPT ![d] = NoFlight] /\ slept' = [slept EXCEPT ![d] = slept[d]]
  BY <1>15
<1> QED
  BY <1>3, <1>8, <1>10, <1>16, <1>22, <1>28, <1>29, <1>30, <1>31, OneDevice

\* A sweep leaves devices that had a place among the rows asleep; the others have all
\* they know queued.
LEMMA SweepInv ==
    ASSUME IInv, Sweep
    PROVE  IInv'
<1>1. /\ \A d \in Devices : flight[d].stage = "idle"
      /\ rows' = {} /\ nextSeq' = nextSeq
      /\ entries' = entries /\ pending' = pending /\ deleted' = deleted /\ cursor' = cursor
      /\ flight' = flight /\ slept' = [d \in Devices |-> slept[d] \/ cursor[d] > 0]
  BY DEF Sweep, channel
<1>2. slept' \in [Devices -> BOOLEAN]
  <2>1. \A d \in Devices : (slept[d] \/ cursor[d] > 0) \in BOOLEAN
    OBVIOUS
  <2> QED
    BY <1>1, <2>1, Zenon
<1>3. RowsOK'
  <2>1. IsFiniteSet({}) /\ Cardinality({}) = 0 /\ MaxRows \in Nat
    BY FS_EmptySet, LimitsAssumption
  <2> QED
    BY <1>1, <2>1 DEF IInv, Typed, RowsOK
<1>4. Typed'
  BY <1>1, <1>2, <1>3 DEF IInv, Typed
<1>5. ASSUME NEW d \in Devices PROVE DeviceOK(d)'
  <2>1. /\ DeviceIs(rows, nextSeq, entries[d], pending[d], deleted[d], cursor[d], flight[d], slept[d])
        /\ DeviceTyped(entries[d], pending[d], deleted[d], cursor[d], flight[d], slept[d])
    BY DeviceIsOK
  <2>2. /\ Tidy(entries[d], deleted[d]) /\ Heard(pending[d], entries[d], deleted[d]) /\ cursor[d] <= nextSeq
        /\ cursor[d] = 0 => AllQueued(entries[d], pending[d]) /\ ~slept[d]
    BY <2>1 DEF DeviceIs
  <2>3. cursor[d] \in Nat
    BY <2>1 DEF DeviceTyped
  <2>4. Seen(rows', cursor[d], entries[d], deleted[d])
    BY <1>1 DEF Seen
  <2>5. slept'[d] <=> (slept[d] \/ cursor[d] > 0)
    BY <1>1, Zenon
  <2>6. cursor[d] = 0 => AllQueued(entries[d], pending[d]) /\ ~slept'[d]
    BY <2>2, <2>3, <2>5
  <2>7. ~slept'[d] => Sent(rows', cursor[d], entries[d], pending[d])
    BY <2>2, <2>3, <2>5 DEF Sent, AllQueued
  <2>8. FlightOK(flight[d], cursor[d], entries[d], deleted[d], pending[d], slept'[d], rows', nextSeq)
    BY <1>1 DEF FlightOK
  <2>9. DeviceIs(rows', nextSeq, entries[d], pending[d], deleted[d], cursor[d], flight[d], slept'[d])
    BY <2>2, <2>4, <2>6, <2>7, <2>8 DEF DeviceIs
  <2> QED
    BY <1>1, <2>9 DEF DeviceOK
<1> QED
  BY <1>4, <1>5 DEF IInv

-----------------------------------------------------------------------------
(* The relay writes an uploaded row.                                        *)

NewRow(p) == [note |-> p.note, seq |-> nextSeq + 1, deleted |-> p.deleted, known |-> p.known]

\* Nothing is written unless the row goes in, and then it stands for the note's old row,
\* which its sender has seen unless the note is deleted.
Written(p, seen) ==
    /\ Replaced(p, seen) # {} => Inserted(p, seen)
    /\ Inserted(p, seen) =>
        \A r \in rows : r.note = p.note => ~r.deleted /\ (p.deleted \/ r.seq <= seen)

LEMMA WrittenIs ==
    ASSUME RowsOK, NEW p \in Packets, NEW seen \in Nat
    PROVE  Written(p, seen)
<1> DEFINE R == RowOf(p.note)
<1>1. /\ rows \subseteq RelayRow
      /\ \A r, s \in rows : r.note = s.note => r = s
      /\ IsFiniteSet(rows) /\ Cardinality(rows) <= MaxRows /\ MaxRows \in Nat
  BY LimitsAssumption DEF RowsOK
<1>2. Replaced(p, seen) \subseteq R /\ R \subseteq rows
  BY DEF Replaced, RowOf
<1>3. \A r, s \in R : r = s
  BY <1>1 DEF RowOf
<1>4. ASSUME NEW r \in Replaced(p, seen) PROVE R = Replaced(p, seen) /\ Fits(p.note)
  <2>1. R = Replaced(p, seen)
    BY <1>2, <1>3, <1>4
  <2>2. rows \ R \subseteq rows /\ rows \ R # rows
    BY <1>2, <1>4
  <2> HIDE DEF R
  <2>3. Cardinality(rows \ R) < Cardinality(rows) /\ Cardinality(rows) \in Nat /\ Cardinality(rows \ R) \in Nat
    BY <1>1, <2>2, FS_Subset, FS_CardinalityType
  <2>4. Cardinality(rows \ R) < MaxRows
    BY <1>1, <2>3
  <2> QED
    BY <2>1, <2>4 DEF Fits, R
<1>5. Replaced(p, seen) # {} => Inserted(p, seen)
  BY <1>4 DEF Inserted
<1>6. ASSUME Inserted(p, seen), NEW r \in rows, r.note = p.note
      PROVE  ~r.deleted /\ (p.deleted \/ r.seq <= seen)
  <2>1. r \in Replaced(p, seen) /\ r \in RowOf(p.note)
    BY <1>6 DEF Inserted, RowOf
  <2>2. ~r.deleted /\ (p.deleted \/ ~Unseen(p.note, seen)) /\ r.seq \in Nat
    BY <1>1, <2>1 DEF Replaced, RelayRow
  <2>3. ~Unseen(p.note, seen) => r.seq <= seen
    BY <2>1, <2>2 DEF Unseen
  <2> QED
    BY <2>2, <2>3
<1> QED
  BY <1>5, <1>6 DEF Written

\* The rows after: as before, or with the new one.
LEMMA WriteRowIs ==
    ASSUME IInv, NEW d \in Devices, WriteRow(d)
    PROVE  \E p \in flight[d].upload :
            /\ p \in Packets /\ Written(p, flight[d].cursor)
            /\ \/ /\ Inserted(p, flight[d].cursor)
                  /\ rows' = (rows \ RowOf(p.note)) \cup {NewRow(p)} /\ nextSeq' = nextSeq + 1
                  /\ flight' = [flight EXCEPT ![d] = [flight[d] EXCEPT !.upload = flight[d].upload \ {p}]]
               \/ /\ rows' = rows /\ nextSeq' = nextSeq
                  /\ \/ flight' = [flight EXCEPT ![d] = NoFlight]
                     \/ /\ p.deleted \/ Kept(p, flight[d].cursor)
                        /\ flight' = [flight EXCEPT ![d] = [flight[d] EXCEPT !.upload = flight[d].upload \ {p}]]
<1> DEFINE f == flight[d]
<1>1. RowsOK /\ f \in Flight
  BY DeviceIsOK DEF DeviceTyped
<1>2. PICK p \in f.upload :
        LET left == rows \ Replaced(p, f.cursor)
            row == [note |-> p.note, seq |-> nextSeq + 1, deleted |-> p.deleted, known |-> p.known]
            full == ~Inserted(p, f.cursor) /\ ~p.deleted /\ ~Kept(p, f.cursor) IN
        /\ IF Inserted(p, f.cursor)
           THEN rows' = left \cup {row} /\ nextSeq' = nextSeq + 1
           ELSE rows' = left /\ nextSeq' = nextSeq
        /\ flight' = [flight EXCEPT ![d] = IF full THEN NoFlight ELSE [f EXCEPT !.upload = @ \ {p}]]
  BY DEF WriteRow
<1>3. p \in Packets /\ f.cursor \in Nat
  BY <1>1 DEF Flight
<1>4. Written(p, f.cursor)
  BY <1>1, <1>3, WrittenIs
<1> HIDE DEF f
<1>5. CASE Inserted(p, f.cursor)
  <2>1. rows' = (rows \ Replaced(p, f.cursor)) \cup {NewRow(p)} /\ nextSeq' = nextSeq + 1
    BY <1>2, <1>5 DEF NewRow
  <2>2. Replaced(p, f.cursor) = RowOf(p.note)
    BY <1>5 DEF Inserted
  <2>3. flight' = [flight EXCEPT ![d] = [f EXCEPT !.upload = f.upload \ {p}]]
    BY <1>2, <1>5
  <2> QED
    BY <1>3, <1>4, <1>5, <2>1, <2>2, <2>3 DEF f
<1>6. CASE ~Inserted(p, f.cursor)
  <2>1. rows' = rows \ Replaced(p, f.cursor) /\ nextSeq' = nextSeq
    BY <1>2, <1>6
  <2>2. Replaced(p, f.cursor) = {}
    BY <1>4, <1>6 DEF Written
  <2>3. rows' = rows
    BY <2>1, <2>2
  <2>4. CASE p.deleted \/ Kept(p, f.cursor)
    <3>1. flight' = [flight EXCEPT ![d] = [f EXCEPT !.upload = f.upload \ {p}]]
      BY <1>2, <2>4
    <3> QED
      BY <1>3, <1>4, <2>1, <2>3, <2>4, <3>1 DEF f
  <2>5. CASE ~(p.deleted \/ Kept(p, f.cursor))
    <3>1. flight' = [flight EXCEPT ![d] = NoFlight]
      BY <1>2, <1>6, <2>5
    <3> QED
      BY <1>3, <1>4, <2>1, <2>3, <3>1 DEF f
  <2> QED
    BY <2>4, <2>5
<1> QED
  BY <1>5, <1>6

\* The rows after are in order, and one that gives way gives way to a later one.
LEMMA RowsAfterWrite ==
    ASSUME IInv, NEW p \in Packets, NEW seen, Inserted(p, seen),
           rows' = (rows \ RowOf(p.note)) \cup {NewRow(p)}, nextSeq' = nextSeq + 1
    PROVE  RowsOK' /\ Replaces(rows, rows', nextSeq)
<1> DEFINE left == rows \ RowOf(p.note)
           row == NewRow(p)
<1>1. /\ rows \subseteq RelayRow /\ nextSeq \in Nat
      /\ \A r \in rows : r.seq \in 1 .. nextSeq
      /\ \A r, s \in rows : r.note = s.note => r = s
      /\ IsFiniteSet(rows)
  BY DEF IInv, Typed, RowsOK
<1>2. row \in RelayRow /\ row.seq = nextSeq + 1 /\ row.note = p.note
  BY <1>1 DEF NewRow, RelayRow, Packets
<1>3. /\ left \subseteq rows /\ \A r \in left : r.note # p.note
      /\ \A r \in rows : r \in left \/ r.note = p.note
  BY DEF RowOf
<1>4. IsFiniteSet(left) /\ Cardinality(left) < MaxRows
  BY <1>1, <1>3, FS_Subset DEF Inserted, Fits
<1> HIDE DEF left, row
<1>5. rows' = left \cup {row}
  BY DEF left, row
<1>6. row \notin left
  BY <1>2, <1>3
<1>7. IsFiniteSet(left \cup {row}) /\ Cardinality(left \cup {row}) = Cardinality(left) + 1
  BY <1>4, <1>6, FS_AddElement
<1>8. Cardinality(left) \in Nat /\ MaxRows \in Nat
  BY <1>4, FS_CardinalityType, LimitsAssumption
<1>9. IsFiniteSet(rows') /\ Cardinality(rows') <= MaxRows
  BY <1>4, <1>5, <1>7, <1>8
<1>10. rows' \subseteq RelayRow /\ nextSeq' \in Nat
  BY <1>1, <1>2, <1>3, <1>5
<1>11. \A r \in rows' : r.seq \in 1 .. nextSeq'
  BY <1>1, <1>2, <1>3, <1>5
<1>12. \A r, s \in rows' : r.note = s.note => r = s
  BY <1>1, <1>2, <1>3, <1>5
<1>13. RowsOK'
  BY <1>9, <1>10, <1>11, <1>12 DEF RowsOK
<1>14. row.seq > nextSeq
  BY <1>1, <1>2
<1>15. Replaces(rows, rows', nextSeq)
  BY <1>2, <1>3, <1>5, <1>14 DEF Replaces
<1> QED
  BY <1>13, <1>15

\* What an upload stood for is held by the row written, or by the one in its way.
LEMMA WrittenHeld ==
    ASSUME RowsOK, NEW p \in Packets, NEW seen \in Nat, seen <= nextSeq, NEW known, ~p.deleted,
           \/ rows' = (rows \ RowOf(p.note)) \cup {NewRow(p)}
           \/ rows' = rows /\ Kept(p, seen)
    PROVE  Held(rows', seen, known, p.note)
<1>1. nextSeq \in Nat
  BY DEF RowsOK
<1>2. CASE rows' = (rows \ RowOf(p.note)) \cup {NewRow(p)}
  <2>1. NewRow(p).note = p.note /\ NewRow(p).seq > seen
    BY <1>1 DEF NewRow
  <2>2. NewRow(p) \in rows'
    BY <1>2
  <2> QED
    BY <2>1, <2>2 DEF Held
<1>3. CASE rows' = rows /\ Kept(p, seen)
  BY <1>3 DEF Kept, RowOf, Held
<1> QED
  BY <1>2, <1>3

LEMMA WriteRowInv ==
    ASSUME IInv, NEW d \in Devices, WriteRow(d)
    PROVE  IInv'
<1> DEFINE f == flight[d]
<1>1. f.stage = "checked" /\ UNCHANGED <<channel, slept>>
  BY DEF WriteRow
<1>2. PICK p \in f.upload :
            /\ p \in Packets /\ Written(p, f.cursor)
            /\ \/ /\ Inserted(p, f.cursor)
                  /\ rows' = (rows \ RowOf(p.note)) \cup {NewRow(p)} /\ nextSeq' = nextSeq + 1
                  /\ flight' = [flight EXCEPT ![d] = [f EXCEPT !.upload = f.upload \ {p}]]
               \/ /\ rows' = rows /\ nextSeq' = nextSeq
                  /\ \/ flight' = [flight EXCEPT ![d] = NoFlight]
                     \/ /\ p.deleted \/ Kept(p, f.cursor)
                        /\ flight' = [flight EXCEPT ![d] = [f EXCEPT !.upload = f.upload \ {p}]]
  BY WriteRowIs
<1> DEFINE g == [f EXCEPT !.upload = f.upload \ {p}]
<1>3. /\ DeviceIs(rows, nextSeq, entries[d], pending[d], deleted[d], cursor[d], f, slept[d])
      /\ DeviceTyped(entries[d], pending[d], deleted[d], cursor[d], f, slept[d])
      /\ RowsOK /\ rows \in SUBSET RelayRow /\ nextSeq \in Nat
  BY DeviceIsOK
<1>4. f \in Flight /\ f.cursor \in Nat /\ cursor[d] \in Nat
  BY <1>3 DEF DeviceTyped, Flight
<1>5. /\ RowsOK' /\ Replaces(rows, rows', nextSeq) /\ nextSeq <= nextSeq'
      /\ rows' \in SUBSET RelayRow /\ nextSeq' \in Nat
  <2>1. CASE rows' = rows /\ nextSeq' = nextSeq
    <3>1. RowsOK'
      BY <1>3, <2>1 DEF RowsOK
    <3> QED
      BY <1>3, <2>1, <3>1 DEF Replaces
  <2>2. CASE Inserted(p, f.cursor) /\ rows' = (rows \ RowOf(p.note)) \cup {NewRow(p)} /\ nextSeq' = nextSeq + 1
    <3>1. RowsOK' /\ Replaces(rows, rows', nextSeq)
      BY <1>2, <2>2, RowsAfterWrite
    <3>2. rows' \in SUBSET RelayRow
      BY <3>1 DEF RowsOK
    <3> QED
      BY <1>3, <2>2, <3>1, <3>2
  <2> QED
    BY <1>2, <2>1, <2>2
<1>6. ASSUME NEW e \in Devices
      PROVE  DeviceIs(rows', nextSeq', entries[e], pending[e], deleted[e], cursor[e], flight[e], slept[e])
  <2>1. /\ DeviceIs(rows, nextSeq, entries[e], pending[e], deleted[e], cursor[e], flight[e], slept[e])
        /\ DeviceTyped(entries[e], pending[e], deleted[e], cursor[e], flight[e], slept[e])
    BY DeviceIsOK
  <2>2. cursor[e] \in Nat /\ flight[e] \in Flight
    BY <2>1 DEF DeviceTyped
  <2> QED
    BY <1>3, <1>5, <2>1, <2>2, RowsReplaced
<1>7. DeviceIs(rows', nextSeq', entries[d], pending[d], deleted[d], cursor[d], f, slept[d])
  BY <1>6
<1>8. /\ f.cursor = cursor[d] /\ Heard(f.sent, entries[d], deleted[d]) /\ UploadOK(f, rows')
      /\ ~slept[d] /\ ~f.reset => SentOK(f, rows', entries[d], pending[d])
  BY <1>1, <1>7 DEF DeviceIs, FlightOK
<1>9. cursor[d] <= nextSeq
  BY <1>3 DEF DeviceIs
<1> HIDE DEF f
<1>10. /\ g \in Flight /\ g.stage = "checked" /\ g.cursor = f.cursor /\ g.sent = f.sent
       /\ g.upload = f.upload \ {p} /\ g.reset = f.reset
  BY <1>1, <1>4 DEF Flight
<1>11. ASSUME flight' = [flight EXCEPT ![d] = g]
       PROVE  DeviceIs(rows', nextSeq', entries[d], pending[d], deleted[d], cursor[d], g, slept[d])
  <2>1. ~p.deleted => Held(rows', f.cursor, entries[d], p.note)
    <3>1. NoFlight # g
      BY <1>10, NoFlightIs
    <3>2. flight'[d] = g
      BY <1>11 DEF IInv, Typed
    <3>3. flight' # [flight EXCEPT ![d] = NoFlight]
      BY <3>1, <3>2 DEF IInv, Typed
    <3>4. ~p.deleted => \/ rows' = (rows \ RowOf(p.note)) \cup {NewRow(p)}
                        \/ rows' = rows /\ Kept(p, f.cursor)
      BY <1>2, <3>3
    <3> QED
      BY <1>2, <1>3, <1>4, <1>8, <1>9, <3>4, WrittenHeld
  <2> HIDE DEF g
  <2>2. UploadOK(g, rows')
    BY <1>8, <1>10 DEF UploadOK
  <2>3. SentOK(f, rows', entries[d], pending[d]) => SentOK(g, rows', entries[d], pending[d])
    <3>1. ASSUME SentOK(f, rows', entries[d], pending[d]),
                 NEW n \in Notes, Says(entries[d], n) # {}, Queued(g.sent, n), ~Queued(pending[d] \ g.sent, n)
          PROVE  \/ \E q \in g.upload : q.note = n /\ ~q.deleted /\ q.known = NoteReceipts(entries[d], n)
                 \/ Held(rows', g.cursor, entries[d], n)
      <4>1. \/ \E q \in f.upload : q.note = n /\ ~q.deleted /\ q.known = NoteReceipts(entries[d], n)
            \/ Held(rows', f.cursor, entries[d], n)
        BY <1>10, <3>1 DEF SentOK
      <4>2. CASE Held(rows', f.cursor, entries[d], n)
        BY <1>10, <4>2
      <4>3. ASSUME NEW q \in f.upload, q.note = n, ~q.deleted, q.known = NoteReceipts(entries[d], n)
            PROVE  \/ q \in g.upload
                   \/ Held(rows', g.cursor, entries[d], n)
        BY <1>10, <2>1, <4>3
      <4> QED
        BY <4>1, <4>2, <4>3
    <3> QED
      BY <3>1 DEF SentOK
  <2>4. FlightOK(g, cursor[d], entries[d], deleted[d], pending[d], slept[d], rows', nextSeq')
    BY <1>8, <1>10, <2>2, <2>3 DEF FlightOK
  <2> QED
    BY <1>7, <2>4 DEF DeviceIs
<1>12. DeviceIs(rows', nextSeq', entries[d], pending[d], deleted[d], cursor[d], NoFlight, slept[d])
  BY <1>7, NoFlightIs DEF DeviceIs
<1> HIDE DEF g
<1>13. PICK h \in Flight :
        /\ flight' = [flight EXCEPT ![d] = h]
        /\ DeviceIs(rows', nextSeq', entries[d], pending[d], deleted[d], cursor[d], h, slept[d])
  <2>1. flight' = [flight EXCEPT ![d] = g] \/ flight' = [flight EXCEPT ![d] = NoFlight]
    BY <1>2 DEF g
  <2> QED
    BY <1>10, <1>11, <1>12, <2>1, NoFlightIs
<1>14. /\ entries' = entries /\ pending' = pending /\ deleted' = deleted /\ cursor' = cursor
       /\ slept' = slept
  BY <1>1 DEF channel
<1>15. Typed'
  <2>1. flight' \in [Devices -> Flight]
    BY <1>13 DEF IInv, Typed
  <2> QED
    BY <1>5, <1>14, <2>1 DEF IInv, Typed
<1>16. ASSUME NEW e \in Devices PROVE DeviceOK(e)'
  <2>1. flight'[e] = IF e = d THEN h ELSE flight[e]
    BY <1>13 DEF IInv, Typed
  <2>2. CASE e = d
    BY <1>13, <1>14, <2>1, <2>2 DEF DeviceOK
  <2>3. CASE e # d
    BY <1>6, <1>14, <2>1, <2>3 DEF DeviceOK
  <2> QED
    BY <2>2, <2>3
<1> QED
  BY <1>15, <1>16 DEF IInv

-----------------------------------------------------------------------------
(* The theorems.                                                            *)

LEMMA InitInv == Init => IInv
<1> SUFFICES ASSUME Init PROVE IInv
  OBVIOUS
<1>1. Nothing \in Opinion /\ \A n : Says(Nothing, n) = {}
  BY NothingSays
<1>2. IsFiniteSet(rows) /\ Cardinality(rows) = 0 /\ MaxRows \in Nat /\ rows = {} /\ nextSeq = 0
  BY FS_EmptySet, LimitsAssumption DEF Init
<1>3. RowsOK
  BY <1>2 DEF RowsOK
<1>4. /\ entries \in [Devices -> Opinion] /\ pending \in [Devices -> SUBSET Events]
      /\ deleted \in [Devices -> SUBSET Notes] /\ cursor \in [Devices -> Nat]
      /\ flight \in [Devices -> Flight]
  BY <1>1, NoFlightIs DEF Init
<1>5. slept \in [Devices -> BOOLEAN] /\ \A d \in Devices : ~slept[d]
  BY DEF Init
<1>6. ASSUME NEW d \in Devices PROVE DeviceOK(d)
  <2>1. /\ entries[d] = Nothing /\ pending[d] = {} /\ deleted[d] = {} /\ cursor[d] = 0
        /\ flight[d] = NoFlight /\ ~slept[d]
    BY <1>5 DEF Init
  <2>2. Top({}) = {}
    BY TopIn
  <2>3. Tidy(Nothing, {})
    BY <1>1, <2>2 DEF Tidy
  <2>4. /\ \A g : Heard({}, Nothing, g) /\ Seen({}, 0, Nothing, g)
        /\ AllQueued(Nothing, {}) /\ Sent({}, 0, Nothing, {})
    BY <1>1 DEF Heard, Seen, AllQueued, Sent
  <2>5. FlightOK(NoFlight, 0, Nothing, {}, {}, slept[d], {}, 0)
    BY NoFlightIs
  <2>6. DeviceIs({}, 0, Nothing, {}, {}, 0, NoFlight, slept[d])
    BY <2>1, <2>3, <2>4, <2>5 DEF DeviceIs
  <2> QED
    BY <1>2, <2>1, <2>6 DEF DeviceOK
<1> QED
  BY <1>3, <1>4, <1>5, <1>6 DEF IInv, Typed

LEMMA NextInv == IInv /\ [Next]_vars => IInv'
<1> SUFFICES ASSUME IInv, [Next]_vars PROVE IInv'
  OBVIOUS
<1>1. CASE Sweep
  BY <1>1, SweepInv
<1>2. ASSUME NEW d \in Devices, Exchange(d) PROVE IInv'
  BY <1>2, PrepareInv, CheckInv, WriteRowInv, ReadPageInv, ResetChannelInv, ReceiveInv DEF Exchange
<1>3. ASSUME NEW d \in Devices, UserStep(d) PROVE IInv'
  BY <1>3, RecordInv, ForgetNoteInv DEF UserStep
<1>4. ASSUME NEW d \in Devices, Fail(d) PROVE IInv'
  BY <1>4, FailInv
<1>5. CASE UNCHANGED vars
  <2>1. /\ rows' = rows /\ nextSeq' = nextSeq /\ entries' = entries /\ pending' = pending
        /\ deleted' = deleted /\ cursor' = cursor /\ flight' = flight /\ slept' = slept
    BY <1>5 DEF vars, relay, channel
  <2>2. Typed'
    BY <2>1 DEF IInv, Typed, RowsOK
  <2>3. \A d \in Devices : DeviceOK(d)'
    BY <2>1 DEF IInv, DeviceOK
  <2> QED
    BY <2>2, <2>3 DEF IInv
<1> QED
  BY <1>1, <1>2, <1>3, <1>4, <1>5 DEF Next

LEMMA AlwaysIInv == Spec => []IInv
BY InitInv, NextInv, PTL DEF Spec

LEMMA PacketsTyped ==
    ASSUME IInv
    PROVE  TypeOK
<1>1. Typed /\ RowsOK
  BY DEF IInv, Typed
<1>2. ASSUME NEW r \in rows
      PROVE  r.note \in Notes /\ r.seq \in 1 .. nextSeq /\ r.known \in Opinion /\ RowOf(r.note) = {r}
  BY <1>1 DEF RowsOK, RelayRow, RowOf
<1>3. cursor \in [Devices -> 0 .. nextSeq]
  <2>1. ASSUME NEW d \in Devices PROVE cursor[d] \in 0 .. nextSeq
    <3>1. cursor[d] \in Nat /\ nextSeq \in Nat
      BY <1>1 DEF Typed, RowsOK
    <3>2. cursor[d] <= nextSeq
      BY DEF IInv, DeviceOK, DeviceIs
    <3> QED
      BY <3>1, <3>2
  <2> QED
    BY <1>1, <2>1 DEF Typed
<1>4. \A d \in Devices : flight[d].upload \subseteq Packets
  BY <1>1 DEF Typed, Flight
<1> QED
  BY <1>1, <1>2, <1>3, <1>4 DEF TypeOK, Typed

\* Every variable holds a value of its kind, a note has one row at most, and no cursor
\* is beyond the sequence numbers given out.
THEOREM ReceiptsTyped == Spec => []TypeOK
BY AlwaysIInv, PacketsTyped, PTL

\* What a device that is not asleep knows of a note is queued, held by the note's row,
\* or will be met there.
LEMMA NothingIsLost == IInv => NothingUnsent
<1> SUFFICES ASSUME IInv, NEW d \in Devices, NEW n \in Notes, Unsent(d, n) PROVE Overtaken(d)
  BY DEF NothingUnsent
<1>1. /\ DeviceIs(rows, nextSeq, entries[d], pending[d], deleted[d], cursor[d], flight[d], slept[d])
      /\ DeviceTyped(entries[d], pending[d], deleted[d], cursor[d], flight[d], slept[d])
      /\ rows \in SUBSET RelayRow
  BY DeviceIsOK
<1>2. /\ HasReceipts(entries[d], n) /\ ~AtRelay(d, n) /\ \A e \in pending[d] : e.note # n
      /\ ~Unseen(n, cursor[d]) /\ cursor[d] <= LatestSeq
  BY DEF Unsent
<1>3. entries[d] \in Opinion /\ Says(entries[d], n) # {}
  BY <1>1, <1>2, HasSays DEF DeviceTyped
<1>4. ASSUME ~slept[d] PROVE FALSE
  <2>1. Held(rows, cursor[d], entries[d], n)
    BY <1>1, <1>2, <1>3, <1>4 DEF DeviceIs, Sent, Queued
  <2>2. PICK r \in rows : r.note = n /\ (r.deleted \/ AtMost(entries[d], r.known, n) \/ r.seq > cursor[d])
    BY <2>1 DEF Held
  <2>3. r \in RowOf(n) /\ r.known \in Opinion
    BY <1>1, <2>2 DEF RowOf, RelayRow
  <2>4. AtMost(entries[d], r.known, n) => Within(entries[d], r.known, n)
    BY <1>3, <2>3, WithinIsAtMost
  <2> QED
    BY <1>2, <2>2, <2>3, <2>4 DEF AtRelay, Unseen
<1> QED
  BY <1>2, <1>4 DEF Overtaken

\* No receipt is left behind on a device, whatever is lost on the way and whatever
\* devices upload at once, unless new rows have overtaken a cursor of rows swept away.
THEOREM NothingStaysUnsent == Spec => []NothingUnsent
BY AlwaysIInv, NothingIsLost, PTL

Keeps(r, s) ==
    r.note = s.note /\ r # s => ~r.deleted /\ (s.deleted \/ Within(r.known, s.known, r.note))

LEMMA RowsStay ==
    ASSUME IInv, rows' = rows \/ rows' = {}, NEW r \in rows, NEW s \in rows'
    PROVE  Keeps(r, s)
BY DEF IInv, Typed, RowsOK, Keeps

LEMMA WriteKeeps ==
    ASSUME IInv, NEW d \in Devices, WriteRow(d), NEW r \in rows, NEW s \in rows'
    PROVE  Keeps(r, s)
<1> DEFINE f == flight[d]
<1>1. f.stage = "checked"
  BY DEF WriteRow
<1>2. PICK p \in f.upload :
            /\ p \in Packets /\ Written(p, f.cursor)
            /\ \/ /\ Inserted(p, f.cursor)
                  /\ rows' = (rows \ RowOf(p.note)) \cup {NewRow(p)} /\ nextSeq' = nextSeq + 1
                  /\ flight' = [flight EXCEPT ![d] = [f EXCEPT !.upload = f.upload \ {p}]]
               \/ /\ rows' = rows /\ nextSeq' = nextSeq
                  /\ \/ flight' = [flight EXCEPT ![d] = NoFlight]
                     \/ /\ p.deleted \/ Kept(p, f.cursor)
                        /\ flight' = [flight EXCEPT ![d] = [f EXCEPT !.upload = f.upload \ {p}]]
  BY WriteRowIs
<1>3. /\ \A t, u \in rows : t.note = u.note => t = u
      /\ \A t \in rows : t.known \in Opinion /\ t.note \in Notes
  BY DEF IInv, Typed, RowsOK, RelayRow
<1>4. UploadOK(f, rows)
  BY <1>1 DEF IInv, DeviceOK, DeviceIs, FlightOK
<1>5. CASE rows' = rows
  BY <1>5, RowsStay
<1>6. ASSUME Inserted(p, f.cursor), rows' = (rows \ RowOf(p.note)) \cup {NewRow(p)},
             r.note = s.note, r # s
      PROVE  ~r.deleted /\ (s.deleted \/ Within(r.known, s.known, r.note))
  <2>1. s = NewRow(p)
    BY <1>3, <1>6
  <2>2. s.note = p.note /\ (s.deleted <=> p.deleted) /\ s.known = p.known /\ p.known \in Opinion
    BY <1>2, <2>1 DEF NewRow, Packets
  <2>3. ~r.deleted /\ (p.deleted \/ r.seq <= f.cursor)
    BY <1>2, <1>6, <2>2 DEF Written
  <2>4. p.deleted \/ AtMost(r.known, p.known, p.note)
    BY <1>2, <1>4, <1>6, <2>2, <2>3 DEF UploadOK
  <2>5. p.deleted \/ Within(r.known, p.known, p.note)
    BY <1>3, <1>6, <2>2, <2>4, WithinIsAtMost
  <2> QED
    BY <1>6, <2>2, <2>3, <2>5
<1> QED
  BY <1>2, <1>5, <1>6 DEF Keeps

LEMMA StepKeeps == IInv /\ [Next]_vars => [ \A r \in rows, s \in rows' : Keeps(r, s) ]_vars
<1> SUFFICES ASSUME IInv, Next, NEW r \in rows, NEW s \in rows' PROVE Keeps(r, s)
  OBVIOUS
<1>1. Sweep => rows' = {}
  BY DEF Sweep
<1>2. ASSUME NEW d \in Devices PROVE Exchange(d) => rows' = rows \/ WriteRow(d)
  <2>1. (Prepare(d) => rows' = rows) /\ (Check(d) => rows' = rows)
    BY DEF Prepare, Check, relay
  <2>2. (ReadPage(d) => rows' = rows) /\ (ResetChannel(d) => rows' = rows)
    BY DEF ReadPage, ResetChannel, relay
  <2>3. Receive(d) => rows' = rows
    BY DEF Receive, relay
  <2> QED
    BY <2>1, <2>2, <2>3 DEF Exchange
<1>3. ASSUME NEW d \in Devices PROVE UserStep(d) \/ Fail(d) => rows' = rows
  BY DEF UserStep, Record, ForgetNote, Fail, relay
<1>4. rows' = rows \/ rows' = {} \/ \E d \in Devices : WriteRow(d)
  BY <1>1, <1>2, <1>3 DEF Next
<1> QED
  BY <1>4, RowsStay, WriteKeeps

\* Replacing a note's row takes nothing from it but receipts that newer ones push out,
\* and a marker of a deleted note is never replaced.
THEOREM RowsKeep == Spec => RelayKeeps
<1>1. [ \A r \in rows, s \in rows' : Keeps(r, s) ]_vars =>
      [ \A r \in rows : \A s \in rows' :
          r.note = s.note /\ r # s => ~r.deleted /\ (s.deleted \/ Within(r.known, s.known, r.note)) ]_vars
  BY DEF Keeps
<1> QED
  BY <1>1, AlwaysIInv, StepKeeps, PTL DEF Spec, RelayKeeps

===============================================================================
