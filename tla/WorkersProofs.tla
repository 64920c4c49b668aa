----------------------------- MODULE WorkersProofs -----------------------------
(***************************************************************************)
(* The two Durable Objects of the Workers deployment.                      *)
(*                                                                         *)
(* First, the coordinator of an account, for any records, batches, quotas  *)
(* and windows, any number of requests and crashes, and the daily upkeep   *)
(* beside them: a live record keeps its object, a round commits what it    *)
(* would have alone, the count of versions is right when it should be, and *)
(* nothing is left behind.                                                 *)
(*                                                                         *)
(* Then, the alarm of the reminders, for any number of wakes, requests and *)
(* messages, any times and any faults: where publishes do not overlap and  *)
(* a registration arms the alarm, no wake is forgotten.                    *)
(***************************************************************************)
EXTENDS Coordinator, WakeAlarm, SetFacts, TLAPS

-----------------------------------------------------------------------------
(* Types.                                                                   *)

LiveRow == { e \in [slot : Slots, seq : Nat \ {0}, id : Ids, key : Nat] : e.slot = SlotOf[e.id] }
VersionRow == { h \in [hid : Nat, slot : Slots, id : Ids, key : Nat] : h.slot = SlotOf[h.id] }
StagedRow == [slot : Slots, id : Ids, key : Nat]
Reservation == [id : Ids, key : Nat]
AccountRow == [exists : BOOLEAN, nextSeq : Nat, count : Int, bytes : Int]
UsageRow == [versions : Int, bytes : Int]

RoundSteps ==
    {"idle", "supersede", "reserve", "put", "commit", "purge", "find", "objects", "rows", "staged",
     "erase", "unstage", "prune", "count", "usage", "drop", "dropRows"}
SweepSteps ==
    {"idle", "purge", "find", "objects", "rows", "staged", "erase", "unstage", "window", "recount",
     "abandoned", "release", "reclaim"}
Nexts == {"idle", "staged", "count", "usage", "recount"}

Memory ==
    [batch : Batch, removed : SUBSET LiveRow, new : SUBSET LiveRow, account : AccountRow,
     continued : SUBSET Ids, seen : UsageRow, before : UsageRow, now : UsageRow]
Held ==
    [hids : SUBSET Nat, keys : SUBSET Nat, rows : SUBSET (StagedRow \cup Reservation), then : Nexts]

\* What a round decides is about the records of its batch.
RoundFits(m) ==
    /\ IsFiniteSet(m.new) /\ RowsNumbered(m.new)
    /\ SlotsOf(m.removed) \subseteq WrittenSlots(m.new, m.batch)
    /\ SlotsOf(m.new) \subseteq WrittenSlots(m.new, m.batch)
    /\ \A i \in m.continued : SlotOf[i] \in WrittenSlots(m.new, m.batch)

\* What a process holds is for the step it is at.
FitsAt(p, step, held) ==
    /\ step \notin {"find", "objects", "rows"} => held.hids = {}
    /\ step \notin {"supersede", "objects", "rows", "erase", "unstage", "drop", "dropRows", "reclaim"} =>
            held.keys = {}
    /\ step \notin {"erase", "unstage", "release"} => held.rows = {}
    /\ step \in {"find", "objects", "rows"} =>
            held.then \in IF p = Sweep THEN {"staged", "recount"} ELSE {"staged", "count", "usage"}

TablesTyped ==
    /\ account \in AccountRow /\ usage \in UsageRow
    /\ live \in SUBSET LiveRow /\ IsFiniteSet(live)
    /\ history \in SUBSET VersionRow /\ IsFiniteSet(history)
    /\ staged \in SUBSET StagedRow /\ pending \in SUBSET Reservation
    /\ lastHid \in Nat /\ lastKey \in Nat /\ objects \in SUBSET Nat
    /\ cut \in BOOLEAN /\ exact \in BOOLEAN /\ calm \in BOOLEAN

StepsOf(p) == IF p = Sweep THEN SweepSteps ELSE RoundSteps

PlacesTyped ==
    /\ pc \in [Processes -> RoundSteps \cup SweepSteps] /\ hand \in [Processes -> Held]
    /\ \A p \in Processes : pc[p] \in StepsOf(p) /\ FitsAt(p, pc[p], hand[p])

RoundsTyped == round \in [Rounds -> Memory] /\ \A r \in Rounds : RoundFits(round[r])

Shaped == TablesTyped /\ PlacesTyped /\ RoundsTyped

-----------------------------------------------------------------------------
(* The lock, and the keys of objects.                                       *)

\* A round that has decided and has yet to commit, one that cleans up after its commit,
\* and one that drops the account.
Before(r) == pc[r] \in {"supersede", "reserve", "put", "commit"}
Dropping(r) == pc[r] \in {"drop", "dropRows"}
Cleans(r) ==
    pc[r] \in {"purge", "find", "objects", "rows", "staged", "erase", "unstage", "prune", "count", "usage"}

Locked == \A q, r \in Rounds : pc[q] # "idle" /\ pc[r] # "idle" => q = r

HeldKeys(p) == hand[p].keys \cup KeysOf(hand[p].rows)

\* Every key was given out once.
KeysGiven ==
    /\ objects \cup KeysOf(live) \cup KeysOf(history) \cup KeysOf(staged) \cup KeysOf(pending)
            \subseteq 1 .. lastKey
    /\ \A p \in Processes : HeldKeys(p) \subseteq 1 .. lastKey
    /\ \A r \in Rounds : KeysOf(round[r].new) \subseteq 1 .. lastKey

\* The keys a round writes under are its own.
OwnKeys(r) ==
    LET keys == KeysOf(round[r].new) IN
    /\ keys \cap (KeysOf(live) \cup KeysOf(history) \cup KeysOf(staged)) = {}
    /\ \A p \in Processes : keys \cap HeldKeys(p) = {}
    /\ \A p \in pending : p.key \in keys => \E n \in round[r].new : n.id = p.id

\* Nobody is about to delete the object of a live record, but who drops the account.
Spared(p) == (p \in Rounds /\ Dropping(p)) \/ hand[p].keys \cap KeysOf(live) = {}

KeysSafe ==
    /\ Locked /\ KeysGiven
    /\ \A r \in Rounds : Before(r) => OwnKeys(r)
    /\ \A r \in Rounds : pc[r] = "commit" => KeysOf(round[r].new) \subseteq objects
    /\ KeysOf(pending) \cap KeysOf(live) = {}
    /\ \A p \in Processes : Spared(p)
    /\ LiveReadable

-----------------------------------------------------------------------------
(* What a round decided still holds when it commits.                        *)

LiveSound ==
    /\ Numbered(live, account.nextSeq)
    /\ account.count = Cardinality(live) /\ account.bytes = BytesOf(live)
    /\ ~account.exists => live = {}

VersionsSound ==
    /\ \A g, h \in history : g.hid = h.hid => g = h
    /\ \A h \in history : h.hid <= lastHid

OneEach ==
    /\ \A r, s \in staged : r.slot = s.slot => r = s
    /\ \A p, q \in pending : p.id = q.id => p = q

\* The rows the batch b writes, decided in memory m.
Decides(m) ==
    LET b == m.batch
        records == RowsAfter(Bare(live), account.nextSeq, b) IN
    /\ account.exists
    /\ Conflicts(Bare(live), b.uploads) = {}
    /\ Bare(m.new) = NewRows(Bare(live), account.nextSeq, b)
    /\ RowsNumbered(m.new)
    /\ m.removed = { l \in live : [slot |-> l.slot, id |-> l.id] \in b.deletions }
    /\ m.account = [exists |-> TRUE,
                    nextSeq |-> account.nextSeq + Cardinality(m.new),
                    count |-> Cardinality(records), bytes |-> BytesOf(records)]
    /\ m.continued \subseteq { l.id : l \in { k \in live \ m.removed : k.slot \in SlotsOf(m.new) } }

Decided == \A r \in Rounds : Before(r) => Decides(round[r])

\* A version that an upload continued is live no more.
Continued == \A r \in Rounds : Cleans(r) => \A l \in live : l.id \notin round[r].continued

Sound == LiveSound /\ VersionsSound /\ OneEach /\ Decided /\ Continued

-----------------------------------------------------------------------------
(* The count of versions.                                                   *)

Within(versions, slots) == { h \in versions : h.slot \in slots }
Besides(versions, slots) == { h \in versions : h.slot \notin slots }
Without(versions, hids) == { h \in versions : h.hid \notin hids }

OlderThan(records, versions) == { h \in versions : \E l \in records : l.slot = h.slot /\ l.id # h.id }
CountedBy(records, versions) ==
    [versions |-> Cardinality(OlderThan(records, versions)), bytes |-> BytesOf(OlderThan(records, versions))]

\* A round that has chosen what to evict.
Evicting(r) == pc[r] = "usage" \/ (pc[r] \in {"find", "objects", "rows"} /\ hand[r].then = "usage")

CountsAlone == SweepCounts => \A r \in Rounds : pc[r] = "idle" \/ Dropping(r)

CountRight ==
    ~SweepCounts /\ (\A r \in Rounds : ~Cleans(r)) => usage = CountedBy(live, history)

\* What a round remembers of the count: all versions; the versions of its batch's records,
\* and of the others, which it leaves alone; and what its eviction leaves.
Remembered(r) ==
    LET slots == WrittenSlots(round[r].new, round[r].batch) IN
    /\ Before(r) \/ Cleans(r) => round[r].seen = usage
    /\ Before(r) => round[r].before = CountedBy(live, Within(history, slots))
    /\ Cleans(r) /\ ~Evicting(r) =>
            /\ usage = Plus(CountedBy(live, Besides(history, slots)), round[r].before)
            /\ \A h \in Besides(history, slots) : h.hid \notin hand[r].hids
    /\ Evicting(r) => round[r].now = CountedBy(live, Without(history, hand[r].hids))

UsageKept == exact => CountsAlone /\ CountRight /\ \A r \in Rounds : Remembered(r)

-----------------------------------------------------------------------------
(* Nothing is left behind.                                                  *)

\* A round that writes its objects, and one whose deletions are staged.
Writes(p) == p \in Rounds /\ pc[p] \in {"put", "commit"}
Stages(p) ==
    /\ p \in Rounds
    /\ \/ pc[p] \in {"purge", "staged", "erase", "unstage"}
       \/ pc[p] \in {"find", "objects", "rows"} /\ hand[p].then = "staged"

\* Only p is under way, but for a deletion of the account.
Settled(p) == pc[p] = "idle" \/ Dropping(p)
Alone(p) == \A q \in Processes : q # p => Settled(q)

\* The live copy of a record is its newest version.
LiveSaved ==
    \A l \in live : \E h \in history :
        /\ h.slot = l.slot /\ h.id = l.id /\ h.key = l.key
        /\ \A g \in history : g.slot = h.slot => g.hid <= h.hid

\* Reservations and staged deletions are p's.
OnlyReserved(p) == \A x \in pending : Writes(p) /\ \E n \in round[p].new : n.id = x.id
OnlyStaged(p) == \A x \in staged : Stages(p) /\ x.slot \in SlotsOf(round[p].removed)

\* The versions of a record that is no more are about to go.
VersionsGo(p) ==
    \A h \in history :
        \/ h.slot \in SlotsOf(live)
        \/ p \in Rounds /\ pc[p] = "purge" /\ h.slot \in SlotsOf(staged)
        \/ Stages(p) /\ pc[p] \in {"find", "objects", "rows"} /\ h.hid \in hand[p].hids

\* R2 holds what versions and staged deletions name, and what a round writes, and of
\* versions all but those that a cleanup is about to delete.
NothingMore(p) ==
    \A k \in objects : k \in KeysOf(history) \cup KeysOf(staged) \/ (Writes(p) /\ k \in KeysOf(round[p].new))
NothingLess(p) ==
    (\A r \in Rounds : pc[r] # "dropRows") =>
        \A h \in history : h.key \in objects \/ (pc[p] = "rows" /\ h.hid \in hand[p].hids)

\* No cleanup takes the newest version of a live record.
NewestSpared(p) ==
    \A h \in history : h.hid \in hand[p].hids /\ h.slot \in SlotsOf(live) =>
        \E g \in history : g.slot = h.slot /\ g.hid > h.hid

\* A cleanup of versions deletes the objects that only they name,
DeletesRight(p) ==
    pc[p] \in {"objects", "rows"} =>
        /\ \A h \in history : h.hid \in hand[p].hids =>
            \/ h.key \in hand[p].keys \cup KeysOf(staged)
            \/ \E g \in history : g.hid \notin hand[p].hids /\ g.key = h.key
        /\ \A h \in history : h.hid \notin hand[p].hids => h.key \notin hand[p].keys
        /\ pc[p] = "rows" => objects \cap hand[p].keys = {}

\* and one of staged deletions those that no version names.
ErasesRight(p) ==
    pc[p] \in {"erase", "unstage"} =>
        /\ staged \subseteq hand[p].rows
        /\ hand[p].keys \cap KeysOf(history) = {}
        /\ KeysOf(staged) \subseteq hand[p].keys \cup KeysOf(history)
        /\ pc[p] = "unstage" => objects \cap hand[p].keys = {}

TidyFor(p) ==
    /\ OnlyReserved(p) /\ OnlyStaged(p) /\ VersionsGo(p) /\ NothingMore(p) /\ NothingLess(p)
    /\ NewestSpared(p) /\ DeletesRight(p) /\ ErasesRight(p)

\* There is nothing abandoned or superseded to delete, and a deletion of the account
\* deletes all.
HandRight(p) ==
    /\ pc[p] = "release" => hand[p].rows = {}
    /\ pc[p] \in {"reclaim", "supersede"} => hand[p].keys = {}
    /\ pc[p] = "drop" => objects \subseteq hand[p].keys
    /\ pc[p] = "dropRows" => objects = {}

Tidy ==
    calm =>
        /\ ~cut /\ LiveSaved /\ \A p \in Processes : HandRight(p)
        /\ \E p \in Processes : Alone(p) /\ TidyFor(p)

\* What the steps keep with no help of the counts, and the whole invariant.
Firm == Shaped /\ KeysSafe /\ Sound
CoordinatorInv == Firm /\ UsageKept /\ Tidy

-----------------------------------------------------------------------------
(* Rows: how they are numbered, counted and weighed.                        *)

\* Sets whose members stand for each other one to one have the same size.
LEMMA SameSize ==
    ASSUME NEW S, IsFiniteSet(S), NEW T, NEW f \in [S -> T],
           \A x, y \in S : f[x] = f[y] => x = y, \A t \in T : \E x \in S : f[x] = t
    PROVE  IsFiniteSet(T) /\ Cardinality(T) = Cardinality(S)
<1>1. f \in Bijection(S, T)
  BY DEF Bijection, Injection, Surjection, IsInjective
<1>2. ExistsBijection(S, T)
  BY <1>1 DEF ExistsBijection
<1> QED
  BY <1>2, FS_Bijection

\* The bytes of a part and of the rest make up those of the whole.
LEMMA BytesSplit ==
    ASSUME NEW S, IsFiniteSet(S), \A r \in S : r.id \in Ids, NEW T \in SUBSET S
    PROVE  /\ BytesOf(S) = BytesOf(S \ T) + BytesOf(T)
           /\ BytesOf(S) \in Nat /\ BytesOf(S \ T) \in Nat /\ BytesOf(T) \in Nat
<1> DEFINE w == [r \in S |-> Size[r.id]]
<1>1. \A r \in S : w[r] \in Nat
  BY VersionAssumption
<1>2. \A U \in SUBSET S : BytesIn(U) = Units(U, w)
  BY DEF BytesIn, Units
<1> HIDE DEF w
<1>3. /\ Cardinality(Units(S, w)) = Cardinality(Units(S \ T, w)) + Cardinality(Units(T, w))
      /\ Cardinality(Units(S, w)) \in Nat
      /\ Cardinality(Units(S \ T, w)) \in Nat /\ Cardinality(Units(T, w)) \in Nat
  BY <1>1, UnitsSplit
<1>4. S \in SUBSET S /\ S \ T \in SUBSET S
  OBVIOUS
<1> QED
  BY <1>2, <1>3, <1>4 DEF BytesOf

LEMMA BareIs == ASSUME NEW S, NEW T PROVE Bare(S \cup T) = Bare(S) \cup Bare(T)
BY DEF Bare

\* Rows without their keys are as many, weigh as much, and are numbered alike.
LEMMA BareFinite ==
    ASSUME NEW S \in SUBSET LiveRow, IsFiniteSet(S)
    PROVE  IsFiniteSet(Bare(S)) /\ Bare(S) \in SUBSET Row
<1> DEFINE f == [r \in S |-> [slot |-> r.slot, seq |-> r.seq, id |-> r.id]]
<1>1. f \in Surjection(S, Bare(S))
  BY DEF Surjection, Bare
<1>2. IsFiniteSet(Bare(S))
  BY <1>1, FS_Surjection
<1>3. Bare(S) \in SUBSET Row
  BY DEF Bare, LiveRow, Row
<1> QED
  BY <1>2, <1>3

LEMMA BareNumbered ==
    ASSUME NEW S \in SUBSET LiveRow, RowsNumbered(S)
    PROVE  RowsNumbered(Bare(S))
BY DEF RowsNumbered, Bare, LiveRow

LEMMA BareCounts ==
    ASSUME NEW S \in SUBSET LiveRow, IsFiniteSet(S), RowsNumbered(S)
    PROVE  Cardinality(Bare(S)) = Cardinality(S) /\ BytesOf(Bare(S)) = BytesOf(S)
<1> DEFINE bare(r) == [slot |-> r.slot, seq |-> r.seq, id |-> r.id]
           f == [r \in S |-> bare(r)]
           A == BytesIn(S)
           B == BytesIn(Bare(S))
           g == [x \in A |-> <<bare(x[1]), x[2]>>]
<1>1. \A r, s \in S : bare(r) = bare(s) => r = s
  BY DEF RowsNumbered
<1>2. /\ f \in [S -> Bare(S)] /\ \A x, y \in S : f[x] = f[y] => x = y
      /\ \A t \in Bare(S) : \E x \in S : f[x] = t
  <2>1. \A t : t \in Bare(S) <=> \E r \in S : t = bare(r)
    BY DEF Bare
  <2> HIDE DEF bare
  <2> QED
    BY <1>1, <2>1
<1>3. Cardinality(Bare(S)) = Cardinality(S)
  <2> HIDE DEF f
  <2> QED
    BY <1>2, SameSize
<1>4. \A x : x \in A <=> \E r \in S : \E i \in 1 .. Size[r.id] : x = <<r, i>>
  BY DEF BytesIn
<1>5. \A x : x \in B <=> \E r \in S : \E i \in 1 .. Size[r.id] : x = <<bare(r), i>>
  BY DEF BytesIn, Bare
<1>6. IsFiniteSet(A)
  <2> DEFINE w == [r \in S |-> Size[r.id]]
  <2>1. \A r \in S : w[r] \in Nat
    BY VersionAssumption DEF LiveRow
  <2>2. A = Units(S, w)
    BY DEF BytesIn, Units
  <2> QED
    BY <2>1, <2>2, UnitsFinite
<1>7. /\ g \in [A -> B] /\ \A x, y \in A : g[x] = g[y] => x = y
      /\ \A t \in B : \E x \in A : g[x] = t
  <2> HIDE DEF A, B, bare
  <2>1. \A x \in A : x[1] \in S /\ x = <<x[1], x[2]>> /\ x[2] \in 1 .. Size[x[1].id]
    BY <1>4
  <2>2. \A x \in A : g[x] \in B
    BY <1>5, <2>1
  <2>3. \A x, y \in A : g[x] = g[y] => x = y
    BY <1>1, <2>1
  <2>4. ASSUME NEW y \in B PROVE \E x \in A : g[x] = y
    <3>1. PICK r \in S : \E i \in 1 .. Size[r.id] : y = <<bare(r), i>>
      BY <1>5
    <3>2. PICK i \in 1 .. Size[r.id] : y = <<bare(r), i>>
      BY <3>1
    <3>3. <<r, i>> \in A
      BY <1>4
    <3>4. g[<<r, i>>] = y
      BY <3>2, <3>3
    <3> QED
      BY <3>3, <3>4
  <2> QED
    BY <2>2, <2>3, <2>4
<1>8. Cardinality(B) = Cardinality(A)
  <2> HIDE DEF A, B, g
  <2> QED
    BY <1>6, <1>7, SameSize
<1> QED
  BY <1>3, <1>8 DEF BytesOf

\* The uploads that write, and how many of them are up to each.
Nth(fresh, i) == Cardinality({ j \in fresh : j <= i })

LEMMA FreshFinite ==
    ASSUME NEW b \in Batch, NEW records
    PROVE  /\ FreshUploads(records, b) \in SUBSET (DOMAIN b.uploads)
           /\ IsFiniteSet(FreshUploads(records, b)) /\ FreshUploads(records, b) \in SUBSET Nat
<1>1. b.uploads \in Seq(Upload)
  BY DEF Batch
<1>2. PICK n \in Nat : DOMAIN b.uploads = 1 .. n
  BY <1>1
<1>3. IsFiniteSet(1 .. n)
  BY FS_Interval
<1>4. FreshUploads(records, b) \in SUBSET (DOMAIN b.uploads)
  BY DEF FreshUploads
<1> QED
  BY <1>2, <1>3, <1>4, FS_Subset

LEMMA NthIs ==
    ASSUME NEW fresh \in SUBSET Nat, IsFiniteSet(fresh)
    PROVE  /\ Cardinality(fresh) \in Nat
           /\ \A i \in fresh : Nth(fresh, i) \in 1 .. Cardinality(fresh)
           /\ \A i, j \in fresh : Nth(fresh, i) = Nth(fresh, j) => i = j
<1> DEFINE upTo(i) == { j \in fresh : j <= i }
<1>1. \A i \in fresh : IsFiniteSet(upTo(i)) /\ Cardinality(upTo(i)) \in Nat
  BY FS_Subset, FS_CardinalityType
<1>2. ASSUME NEW i \in fresh
      PROVE  Cardinality(upTo(i)) <= Cardinality(fresh) /\ Cardinality(upTo(i)) # 0
  <2>1. upTo(i) \in SUBSET fresh /\ i \in upTo(i)
    OBVIOUS
  <2> HIDE DEF upTo
  <2> QED
    BY <1>1, <2>1, FS_Subset, FS_EmptySet
<1>3. ASSUME NEW i \in fresh, NEW j \in fresh, i < j
      PROVE  Cardinality(upTo(i)) < Cardinality(upTo(j))
  <2>1. upTo(i) \in SUBSET upTo(j) /\ j \in upTo(j) /\ j \notin upTo(i)
    <3>1. i \in Nat /\ j \in Nat /\ \A k \in fresh : k \in Nat
      OBVIOUS
    <3>2. \A k \in fresh : k <= i => k <= j
      BY <1>3, <3>1
    <3>3. j <= j /\ ~(j <= i)
      BY <1>3, <3>1
    <3> QED
      BY <3>2, <3>3
  <2> HIDE DEF upTo
  <2>2. upTo(i) # upTo(j)
    BY <2>1
  <2> QED
    BY <1>1, <2>1, <2>2, FS_Subset
<1>4. Cardinality(fresh) \in Nat
  BY FS_CardinalityType
<1>5. \A i \in fresh : Nth(fresh, i) = Cardinality(upTo(i))
  BY DEF Nth
<1> HIDE DEF upTo
<1> QED
  BY <1>1, <1>2, <1>3, <1>4, <1>5

\* The rows a batch writes: as many as its fresh uploads, numbered after the clock.
NewRowsFit(N, records, clock, b) ==
    /\ IsFiniteSet(N) /\ N \in SUBSET Row /\ RowsNumbered(N)
    /\ Cardinality(N) = Cardinality(FreshUploads(records, b)) /\ Cardinality(N) \in Nat
    /\ \A n \in N :
        /\ n.seq \in (clock + 1) .. (clock + Cardinality(N))
        /\ n.slot = SlotOf[n.id] /\ n.id \notin { r.id : r \in records \ Deleted(records, b.deletions) }
        /\ \E i \in DOMAIN b.uploads : b.uploads[i].slot = n.slot /\ b.uploads[i].id = n.id

LEMMA NewRowsAre ==
    ASSUME NEW records, NEW clock \in Nat, NEW b \in Batch
    PROVE  NewRowsFit(NewRows(records, clock, b), records, clock, b)
<1> DEFINE fresh == FreshUploads(records, b)
           row(i) == [slot |-> b.uploads[i].slot, id |-> b.uploads[i].id, seq |-> clock + Nth(fresh, i)]
           N == NewRows(records, clock, b)
           f == [i \in fresh |-> row(i)]
<1>1. \A x : x \in N <=> \E i \in fresh : x = row(i)
  BY DEF NewRows, Nth
<1>2. /\ fresh \in SUBSET (DOMAIN b.uploads) /\ IsFiniteSet(fresh) /\ fresh \in SUBSET Nat
  BY FreshFinite
<1>3. \A i \in DOMAIN b.uploads : b.uploads[i] \in Upload
  BY DEF Batch
<1>4. \A i, j \in DOMAIN b.uploads : i # j => b.uploads[i].slot # b.uploads[j].slot
  BY DEF Batch
<1>5. \A i \in fresh : b.uploads[i].id \notin { r.id : r \in records \ Deleted(records, b.deletions) }
  BY DEF FreshUploads
<1>6. /\ Cardinality(fresh) \in Nat
      /\ \A i \in fresh : Nth(fresh, i) \in 1 .. Cardinality(fresh)
      /\ \A i, j \in fresh : Nth(fresh, i) = Nth(fresh, j) => i = j
  <2> HIDE DEF fresh
  <2> QED
    BY <1>2, NthIs
<1> HIDE DEF fresh, N
<1>7. \A i \in fresh :
        /\ row(i) \in Row /\ row(i).slot = SlotOf[row(i).id] /\ row(i).slot = b.uploads[i].slot
        /\ row(i).id = b.uploads[i].id
        /\ row(i).seq \in (clock + 1) .. (clock + Cardinality(fresh)) /\ row(i).seq = clock + Nth(fresh, i)
  <2> SUFFICES ASSUME NEW i \in fresh
               PROVE  /\ row(i) \in Row /\ row(i).slot = SlotOf[row(i).id] /\ row(i).slot = b.uploads[i].slot
                      /\ row(i).id = b.uploads[i].id
                      /\ row(i).seq \in (clock + 1) .. (clock + Cardinality(fresh))
                      /\ row(i).seq = clock + Nth(fresh, i)
    OBVIOUS
  <2>1. b.uploads[i] \in Upload /\ Nth(fresh, i) \in 1 .. Cardinality(fresh)
    BY <1>2, <1>3, <1>6
  <2>2. clock + Nth(fresh, i) \in Nat \ {0} /\ clock + Nth(fresh, i) \in (clock + 1) .. (clock + Cardinality(fresh))
    BY <1>6, <2>1
  <2> QED
    BY <2>1, <2>2 DEF Upload, Row
<1>8. \A i, j \in fresh :
        row(i).slot = row(j).slot \/ row(i).id = row(j).id \/ row(i).seq = row(j).seq => i = j
  <2> SUFFICES ASSUME NEW i \in fresh, NEW j \in fresh,
                      row(i).slot = row(j).slot \/ row(i).id = row(j).id \/ row(i).seq = row(j).seq
               PROVE  i = j
    OBVIOUS
  <2>0. /\ row(i).slot = SlotOf[row(i).id] /\ row(i).slot = b.uploads[i].slot
        /\ row(i).id = b.uploads[i].id /\ row(i).seq = clock + Nth(fresh, i)
        /\ row(j).slot = SlotOf[row(j).id] /\ row(j).slot = b.uploads[j].slot
        /\ row(j).id = b.uploads[j].id /\ row(j).seq = clock + Nth(fresh, j)
    BY <1>7
  <2> HIDE DEF row
  <2>1. CASE row(i).slot = row(j).slot
    BY <1>2, <1>4, <2>0, <2>1
  <2>2. CASE row(i).id = row(j).id
    BY <1>2, <1>4, <2>0, <2>2
  <2>3. CASE row(i).seq = row(j).seq
    <3>1. Nth(fresh, i) \in Int /\ Nth(fresh, j) \in Int
      BY <1>6
    <3>2. clock + Nth(fresh, i) = clock + Nth(fresh, j)
      BY <2>0, <2>3, Zenon
    <3>3. \A k, m \in Int : clock + k = clock + m => k = m
      OBVIOUS
    <3>4. Nth(fresh, i) = Nth(fresh, j)
      BY <3>1, <3>2, <3>3
    <3> QED
      BY <1>6, <3>4
  <2> QED
    BY <2>1, <2>2, <2>3
<1> HIDE DEF row
<1>9. /\ f \in [fresh -> N] /\ \A i, j \in fresh : f[i] = f[j] => i = j
      /\ \A n \in N : \E i \in fresh : f[i] = n
  BY <1>1, <1>8
<1>10. IsFiniteSet(N) /\ Cardinality(N) = Cardinality(fresh)
  <2> HIDE DEF f
  <2> QED
    BY <1>2, <1>9, SameSize
<1>11. RowsNumbered(N)
  BY <1>1, <1>8 DEF RowsNumbered
<1>12. \A n \in N :
        /\ n \in Row /\ n.seq \in (clock + 1) .. (clock + Cardinality(N))
        /\ n.slot = SlotOf[n.id] /\ n.id \notin { r.id : r \in records \ Deleted(records, b.deletions) }
        /\ \E i \in DOMAIN b.uploads : b.uploads[i].slot = n.slot /\ b.uploads[i].id = n.id
  <2> SUFFICES ASSUME NEW n \in N
               PROVE  /\ n \in Row /\ n.seq \in (clock + 1) .. (clock + Cardinality(N))
                      /\ n.slot = SlotOf[n.id] /\ n.id \notin { r.id : r \in records \ Deleted(records, b.deletions) }
                      /\ \E i \in DOMAIN b.uploads : b.uploads[i].slot = n.slot /\ b.uploads[i].id = n.id
    OBVIOUS
  <2>1. PICK i \in fresh : n = row(i)
    BY <1>1
  <2>2. n.id \notin { r.id : r \in records \ Deleted(records, b.deletions) }
    BY <1>5, <1>7, <2>1
  <2> QED
    BY <1>2, <1>7, <1>10, <2>1, <2>2
<1>13. N \in SUBSET Row
  BY <1>12
<1> QED
  BY <1>6, <1>10, <1>11, <1>12, <1>13 DEF NewRowsFit, N, fresh

-----------------------------------------------------------------------------
(* Versions counted.                                                        *)

\* A count of finitely many versions is a pair of numbers.
LEMMA CountedType ==
    ASSUME NEW V \in SUBSET VersionRow, IsFiniteSet(V)
    PROVE  /\ Counted(V) \in UsageRow /\ Counted(V).versions = Cardinality(OlderVersions(V))
           /\ Counted(V).bytes = BytesOf(OlderVersions(V))
           /\ IsFiniteSet(OlderVersions(V)) /\ OlderVersions(V) \in SUBSET V
<1>1. OlderVersions(V) \in SUBSET V
  BY DEF OlderVersions
<1>2. IsFiniteSet(OlderVersions(V)) /\ Cardinality(OlderVersions(V)) \in Nat
  BY <1>1, FS_Subset, FS_CardinalityType
<1>3. \A h \in OlderVersions(V) : h.id \in Ids
  BY <1>1 DEF VersionRow
<1>4. BytesOf(OlderVersions(V)) \in Nat
  BY <1>2, <1>3, BytesSplit
<1> QED
  BY <1>1, <1>2, <1>4 DEF Counted, UsageRow

\* Counted apart, a part and the rest make up the whole.
LEMMA CountedSplit ==
    ASSUME NEW V \in SUBSET VersionRow, IsFiniteSet(V), NEW T \in SUBSET V
    PROVE  Counted(V) = Plus(Counted(V \ T), Counted(T))
<1> DEFINE O == OlderVersions(V)
           P == OlderVersions(T)
<1>1. OlderVersions(V \ T) = O \ P /\ P \in SUBSET O
  BY DEF OlderVersions
<1>2. IsFiniteSet(O) /\ O \in SUBSET V
  BY CountedType
<1>3. \A h \in O : h.id \in Ids
  BY <1>2 DEF VersionRow
<1> HIDE DEF O, P
<1>4. BytesOf(O) = BytesOf(O \ P) + BytesOf(P)
  BY <1>1, <1>2, <1>3, BytesSplit
<1>5. Cardinality(O) = Cardinality(O \ P) + Cardinality(P)
  <2>1. O \cap P = P
    BY <1>1
  <2>2. Cardinality(O \ P) = Cardinality(O) - Cardinality(P)
    <3>1. Cardinality(O \ P) = Cardinality(O) - Cardinality(O \cap P)
      BY <1>2, FS_Difference
    <3> QED
      BY <2>1, <3>1
  <2>3. Cardinality(O) \in Nat /\ Cardinality(P) \in Nat
    BY <1>1, <1>2, FS_Subset, FS_CardinalityType
  <2> QED
    BY <2>2, <2>3
<1> DEFINE whole == Counted(V)
           rest == Counted(V \ T)
           part == Counted(T)
<1>6. /\ whole = [versions |-> Cardinality(O), bytes |-> BytesOf(O)]
      /\ rest = [versions |-> Cardinality(O \ P), bytes |-> BytesOf(O \ P)]
      /\ part = [versions |-> Cardinality(P), bytes |-> BytesOf(P)]
  BY <1>1 DEF Counted, O, P
<1>7. /\ rest.versions = Cardinality(O \ P) /\ rest.bytes = BytesOf(O \ P)
      /\ part.versions = Cardinality(P) /\ part.bytes = BytesOf(P)
  BY <1>6
<1> HIDE DEF whole, rest, part
<1>8. whole = Plus(rest, part)
  BY <1>4, <1>5, <1>6, <1>7 DEF Plus
<1> QED
  BY <1>8 DEF whole, rest, part

LEMMA UsageRows ==
    ASSUME NEW u \in UsageRow, NEW v \in UsageRow
    PROVE  /\ Plus(u, v) \in UsageRow /\ Minus(u, v) \in UsageRow
           /\ Minus(Plus(u, v), v) = u /\ Plus(u, Minus(v, u)) = v
           /\ \A w \in UsageRow : Plus(Plus(w, u), Minus(v, u)) = Plus(w, v)
BY DEF Plus, Minus, UsageRow

-----------------------------------------------------------------------------
(* Types are kept.                                                          *)
(* Lemmas ...Places and ...Typed: one an action, or a kind of action.       *)

LEMMA SweepIs == Sweep \in Processes /\ \A r \in Rounds : r \in Processes /\ r # Sweep
BY ProcessAssumption DEF Processes

\* What a process may hold.
LEMMA NothingIs ==
    /\ Nothing \in Held /\ Nothing = [hids |-> {}, keys |-> {}, rows |-> {}, then |-> "idle"]
    /\ Nothing.hids = {} /\ Nothing.keys = {} /\ Nothing.rows = {} /\ Nothing.then = "idle"
BY DEF Nothing, Held, Nexts

LEMMA HeldVersions ==
    ASSUME NEW hids \in SUBSET Nat, NEW next \in Nexts
    PROVE  [Nothing EXCEPT !.hids = hids, !.then = next] =
                [hids |-> hids, keys |-> {}, rows |-> {}, then |-> next]
<1> DEFINE f == [Nothing EXCEPT !.hids = hids, !.then = next]
<1>1. f \in Held
  BY NothingIs DEF Held
<1>2. f.hids = hids /\ f.then = next
  BY NothingIs DEF Held
<1>3. f.keys = {} /\ f.rows = {}
  BY NothingIs DEF Held
<1>4. f = [hids |-> hids, keys |-> {}, rows |-> {}, then |-> next]
  <2> HIDE DEF f
  <2> QED
    BY <1>1, <1>2, <1>3 DEF Held
<1> QED
  BY <1>4

LEMMA HeldDeletions ==
    ASSUME NEW keys \in SUBSET Nat, NEW records \in SUBSET (StagedRow \cup Reservation)
    PROVE  [Nothing EXCEPT !.rows = records, !.keys = keys] =
                [hids |-> {}, keys |-> keys, rows |-> records, then |-> "idle"]
<1> DEFINE f == [Nothing EXCEPT !.rows = records, !.keys = keys]
<1>1. f \in Held
  BY NothingIs DEF Held
<1>2. f.rows = records /\ f.keys = keys
  BY NothingIs DEF Held
<1>3. f.hids = {} /\ f.then = "idle"
  BY NothingIs DEF Held
<1>4. f = [hids |-> {}, keys |-> keys, rows |-> records, then |-> "idle"]
  <2> HIDE DEF f
  <2> QED
    BY <1>1, <1>2, <1>3 DEF Held
<1> QED
  BY <1>4

LEMMA HeldPart ==
    ASSUME NEW x
    PROVE  /\ [Nothing EXCEPT !.keys = x] = [hids |-> {}, keys |-> x, rows |-> {}, then |-> "idle"]
           /\ [Nothing EXCEPT !.rows = x] = [hids |-> {}, keys |-> {}, rows |-> x, then |-> "idle"]
           /\ \A h \in Held : [h EXCEPT !.keys = x] =
                    [hids |-> h.hids, keys |-> x, rows |-> h.rows, then |-> h.then]
BY DEF Nothing, Held

LEMMA HeldIs ==
    ASSUME NEW hids \in SUBSET Nat, NEW keys \in SUBSET Nat,
           NEW records \in SUBSET (StagedRow \cup Reservation), NEW next \in Nexts
    PROVE  [hids |-> hids, keys |-> keys, rows |-> records, then |-> next] \in Held
BY DEF Held

LEMMA HeldFields ==
    ASSUME NEW h \in Held
    PROVE  h.hids \in SUBSET Nat /\ h.keys \in SUBSET Nat /\ h.rows \in SUBSET (StagedRow \cup Reservation)
           /\ h.then \in Nexts
BY DEF Held

\* A process moves, and holds what its next step needs.
LEMMA MovedTyped ==
    ASSUME PlacesTyped, NEW p \in Processes, NEW s \in StepsOf(p), NEW h \in Held, FitsAt(p, s, h),
           Go(p, s), Hold(p, h)
    PROVE  PlacesTyped'
<1>1. pc' = [pc EXCEPT ![p] = s] /\ hand' = [hand EXCEPT ![p] = h]
  BY DEF Go, Hold
<1>2. pc' \in [Processes -> RoundSteps \cup SweepSteps] /\ hand' \in [Processes -> Held]
  BY <1>1 DEF PlacesTyped, StepsOf
<1>3. \A q \in Processes : pc'[q] \in StepsOf(q) /\ FitsAt(q, pc'[q], hand'[q])
  <2> SUFFICES ASSUME NEW q \in Processes PROVE pc'[q] \in StepsOf(q) /\ FitsAt(q, pc'[q], hand'[q])
    OBVIOUS
  <2>1. CASE q = p
    BY <1>1, <2>1 DEF PlacesTyped
  <2>2. CASE q # p
    BY <1>1, <2>2 DEF PlacesTyped
  <2> QED
    BY <2>1, <2>2
<1> QED
  BY <1>2, <1>3 DEF PlacesTyped

LEMMA MovedOnly ==
    ASSUME PlacesTyped, NEW p \in Processes, NEW s, Go(p, s), hand' = hand
    PROVE  Hold(p, hand[p]) /\ hand[p] \in Held
BY DEF PlacesTyped, Hold

\* The steps of a process.
LEMMA StepsAre ==
    /\ StepsOf(Sweep) = SweepSteps /\ \A r \in Rounds : StepsOf(r) = RoundSteps
    /\ \A p \in Processes : {"idle", "purge", "find", "objects", "rows", "staged", "erase", "unstage"} \subseteq StepsOf(p)
BY SweepIs DEF StepsOf, RoundSteps, SweepSteps

LEMMA CleanUpTyped ==
    ASSUME PlacesTyped, NEW p \in Processes, NEW hids \in SUBSET Nat, NEW next \in Nexts, CleanUp(p, hids, next),
           next \in IF p = Sweep THEN {"staged", "recount"} ELSE {"staged", "count", "usage"}
    PROVE  PlacesTyped'
<1> DEFINE h == [Nothing EXCEPT !.hids = hids, !.then = next]
           s == IF hids = {} THEN next ELSE "find"
<1>1. Go(p, s) /\ Hold(p, h)
  BY DEF CleanUp
<1>2. h = [hids |-> hids, keys |-> {}, rows |-> {}, then |-> next] /\ h \in Held
  <2>1. {} \in SUBSET Nat /\ {} \in SUBSET (StagedRow \cup Reservation)
    OBVIOUS
  <2>2. h = [hids |-> hids, keys |-> {}, rows |-> {}, then |-> next]
    BY HeldVersions
  <2> HIDE DEF h
  <2> QED
    BY <2>1, <2>2, HeldIs
<1>3. s \in StepsOf(p)
  BY SweepIs DEF StepsOf, RoundSteps, SweepSteps
<1>4. FitsAt(p, s, h)
  BY <1>2 DEF FitsAt
<1> HIDE DEF s, h
<1> QED
  BY <1>1, <1>2, <1>3, <1>4, MovedTyped

\* Keys and ids of rows are numbers.
LEMMA KeysTyped ==
    ASSUME TablesTyped
    PROVE  /\ KeysOf(live) \in SUBSET Nat /\ KeysOf(history) \in SUBSET Nat
           /\ KeysOf(staged) \in SUBSET Nat /\ KeysOf(pending) \in SUBSET Nat
           /\ \A V \in SUBSET history : { h.hid : h \in V } \in SUBSET Nat /\ KeysOf(V) \in SUBSET Nat
           /\ \A R \in SUBSET staged : KeysOf(R) \in SUBSET Nat
           /\ \A R \in SUBSET pending : KeysOf(R) \in SUBSET Nat
BY DEF TablesTyped, KeysOf, LiveRow, VersionRow, StagedRow, Reservation

LEMMA CleaningTyped ==
    ASSUME Shaped, NEW p \in Processes, Cleaning(p)
    PROVE  PlacesTyped'
<1>0. /\ PlacesTyped /\ TablesTyped /\ hand[p] \in Held /\ FitsAt(p, pc[p], hand[p])
      /\ Nothing \in Held /\ "idle" \in Nexts /\ {} \in SUBSET Nat /\ {} \in SUBSET (StagedRow \cup Reservation)
  BY NothingIs DEF Shaped, PlacesTyped, Nexts
<1>1. CASE FindUnreferenced(p)
  <2> DEFINE keys == Unreferenced(hand[p].hids)
             h == [hand[p] EXCEPT !.keys = keys]
  <2>1. keys \in SUBSET Nat
    BY <1>0 DEF Unreferenced, TablesTyped, VersionRow
  <2>2. h \in Held /\ h = [hids |-> hand[p].hids, keys |-> keys, rows |-> hand[p].rows, then |-> hand[p].then]
    <3> HIDE DEF keys
    <3>1. h = [hids |-> hand[p].hids, keys |-> keys, rows |-> hand[p].rows, then |-> hand[p].then]
      BY <1>0, HeldPart
    <3> HIDE DEF h
    <3> QED
      BY <1>0, <2>1, <3>1, HeldIs, HeldFields
  <2>3. pc[p] = "find" /\ Go(p, "objects") /\ Hold(p, h)
    BY <1>1 DEF FindUnreferenced, At
  <2> HIDE DEF h
  <2>4. FitsAt(p, "objects", h)
    BY <1>0, <2>2, <2>3 DEF FitsAt
  <2> QED
    BY <1>0, <2>2, <2>3, <2>4, StepsAre, MovedTyped
<1>2. CASE DeleteObjects(p)
  <2>1. pc[p] = "objects" /\ Go(p, "rows") /\ hand' = hand
    BY <1>2 DEF DeleteObjects, At
  <2>2. FitsAt(p, "rows", hand[p])
    BY <1>0, <2>1 DEF FitsAt
  <2> QED
    BY <1>0, <2>1, <2>2, StepsAre, MovedTyped, MovedOnly
<1>3. CASE DeleteRows(p)
  <2>1. pc[p] = "rows" /\ Go(p, hand[p].then) /\ Hold(p, Nothing)
    BY <1>3 DEF DeleteRows, At
  <2>2. FitsAt(p, hand[p].then, Nothing)
    BY <1>0, <2>1 DEF FitsAt, Nothing
  <2>3. hand[p].then \in StepsOf(p)
    BY <1>0, <2>1 DEF FitsAt, StepsOf, RoundSteps, SweepSteps
  <2> QED
    BY <1>0, <2>1, <2>2, <2>3, MovedTyped
<1>4. CASE PurgeVersions(p)
  <2> DEFINE V == OfSlots(SlotsOf(Scope(p)) \ SlotsOf(live))
  <2>1. V \in SUBSET history
    BY DEF OfSlots
  <2>2. CleanUp(p, { h.hid : h \in V }, "staged")
    BY <1>4 DEF PurgeVersions
  <2> HIDE DEF V
  <2>3. { h.hid : h \in V } \in SUBSET Nat /\ "staged" \in Nexts
    BY <1>0, <2>1, KeysTyped DEF Nexts
  <2> QED
    BY <1>0, <2>2, <2>3, CleanUpTyped
<1>5. CASE ReadStaged(p)
  <2> DEFINE keys == KeysOf(Scope(p)) \ (KeysOf(live) \cup KeysOf(history))
             h == [Nothing EXCEPT !.rows = Scope(p), !.keys = keys]
  <2>1. Scope(p) \in SUBSET staged
    BY DEF Scope
  <2>2. keys \in SUBSET Nat /\ Scope(p) \in SUBSET (StagedRow \cup Reservation)
    BY <1>0, <2>1, KeysTyped DEF TablesTyped
  <2>3. h = [hids |-> {}, keys |-> keys, rows |-> Scope(p), then |-> "idle"] /\ h \in Held
    <3> HIDE DEF keys
    <3>1. h = [hids |-> {}, keys |-> keys, rows |-> Scope(p), then |-> "idle"]
      BY <2>2, HeldDeletions
    <3> QED
      BY <1>0, <2>2, <3>1, HeldIs
  <2>4. pc[p] = "staged" /\ Go(p, "erase") /\ Hold(p, h)
    BY <1>5 DEF ReadStaged, At
  <2> HIDE DEF h
  <2>5. FitsAt(p, "erase", h)
    BY <2>3 DEF FitsAt
  <2> QED
    BY <1>0, <2>3, <2>4, <2>5, StepsAre, MovedTyped
<1>6. CASE EraseStaged(p)
  <2>1. pc[p] = "erase" /\ Go(p, "unstage") /\ hand' = hand
    BY <1>6 DEF EraseStaged, At
  <2>2. FitsAt(p, "unstage", hand[p])
    BY <1>0, <2>1 DEF FitsAt
  <2> QED
    BY <1>0, <2>1, <2>2, StepsAre, MovedTyped, MovedOnly
<1>7. CASE Unstage(p)
  <2> DEFINE s == IF p = Sweep THEN "window" ELSE "prune"
  <2>1. Go(p, s) /\ Hold(p, Nothing)
    BY <1>7 DEF Unstage
  <2>2. FitsAt(p, s, Nothing) /\ s \in StepsOf(p)
    BY DEF FitsAt, Nothing, StepsOf, RoundSteps, SweepSteps
  <2> HIDE DEF s
  <2> QED
    BY <1>0, <2>1, <2>2, MovedTyped
<1> QED
  BY <1>1, <1>2, <1>3, <1>4, <1>5, <1>6, <1>7 DEF Cleaning

\* A process moves and holds what it held.
LEMMA MovedHolding ==
    ASSUME PlacesTyped, NEW p \in Processes, NEW s \in StepsOf(p), FitsAt(p, s, hand[p]),
           Go(p, s), hand' = hand
    PROVE  PlacesTyped'
BY MovedTyped, MovedOnly

\* A process moves and lets go.
LEMMA MovedEmpty ==
    ASSUME PlacesTyped, NEW p \in Processes, NEW s \in StepsOf(p), s \notin {"find", "objects", "rows"},
           Go(p, s), Hold(p, Nothing)
    PROVE  PlacesTyped'
<1>1. FitsAt(p, s, Nothing) /\ Nothing \in Held
  BY NothingIs DEF FitsAt
<1> QED
  BY <1>1, MovedTyped

\* A process moves with keys to delete.
LEMMA MovedWithKeys ==
    ASSUME PlacesTyped, NEW p \in Processes, NEW s \in StepsOf(p), NEW keys \in SUBSET Nat,
           s \in {"supersede", "drop", "reclaim"} \/ (s = "commit" /\ keys = {}),
           Go(p, s), Hold(p, [Nothing EXCEPT !.keys = keys])
    PROVE  PlacesTyped'
<1> DEFINE h == [Nothing EXCEPT !.keys = keys]
<1>1. h = [hids |-> {}, keys |-> keys, rows |-> {}, then |-> "idle"]
  BY HeldPart
<1>2. Hold(p, h)
  OBVIOUS
<1> HIDE DEF h
<1>3. {} \in SUBSET Nat /\ {} \in SUBSET (StagedRow \cup Reservation) /\ "idle" \in Nexts
  BY DEF Nexts
<1>4. h \in Held
  BY <1>1, <1>3, HeldIs
<1>5. FitsAt(p, s, h)
  BY <1>1 DEF FitsAt
<1> QED
  BY <1>2, <1>4, <1>5, MovedTyped

LEMMA HidsTyped ==
    ASSUME TablesTyped, NEW V \in SUBSET history
    PROVE  { h.hid : h \in V } \in SUBSET Nat
BY KeysTyped

LEMMA RoundPlaces ==
    ASSUME Shaped, NEW r \in Rounds, RoundStep(r)
    PROVE  PlacesTyped'
<1>0. /\ PlacesTyped /\ TablesTyped /\ r \in Processes /\ r # Sweep /\ FitsAt(r, pc[r], hand[r])
      /\ StepsOf(r) = RoundSteps /\ "count" \in Nexts /\ "usage" \in Nexts
  BY SweepIs, StepsAre DEF Shaped, PlacesTyped, Nexts
<1>1. ASSUME NEW b \in Batches, Begin(r, b) PROVE PlacesTyped'
  <2> DEFINE new == NewEnvelopes(b)
             keys == KeysOf({ p \in pending : \E n \in new : n.id = p.id })
             s == IF new = {} THEN "commit" ELSE "supersede"
  <2>1. Hold(r, [Nothing EXCEPT !.keys = keys]) /\ Go(r, s)
    BY <1>1 DEF Begin
  <2>2. keys \in SUBSET Nat
    BY <1>0, KeysTyped
  <2>3. new = {} => keys = {}
    BY DEF KeysOf
  <2> HIDE DEF new, keys
  <2>4. s \in StepsOf(r) /\ (s = "supersede" \/ (s = "commit" /\ keys = {}))
    BY <1>0, <2>3 DEF RoundSteps
  <2> HIDE DEF s
  <2> QED
    BY <1>0, <2>1, <2>2, <2>4, MovedWithKeys
<1>2. CASE DropSuperseded(r)
  <2>1. Go(r, "reserve") /\ Hold(r, Nothing) /\ "reserve" \in StepsOf(r)
    BY <1>0, <1>2 DEF DropSuperseded, RoundSteps
  <2> QED
    BY <1>0, <2>1, MovedEmpty
<1>3. CASE Reserve(r)
  <2>1. pc[r] = "reserve" /\ Go(r, "put") /\ hand' = hand /\ "put" \in StepsOf(r)
    BY <1>0, <1>3 DEF Reserve, At, RoundSteps
  <2>2. FitsAt(r, "put", hand[r])
    BY <1>0, <2>1 DEF FitsAt
  <2> QED
    BY <1>0, <2>1, <2>2, MovedHolding
<1>4. CASE PutObject(r)
  <2>1. PICK s \in {"put", "commit"} : pc[r] = "put" /\ Go(r, s) /\ hand' = hand
    BY <1>4 DEF PutObject, At
  <2>2. FitsAt(r, s, hand[r]) /\ s \in StepsOf(r)
    BY <1>0, <2>1 DEF FitsAt, RoundSteps
  <2> QED
    BY <1>0, <2>1, <2>2, MovedHolding
<1>5. CASE Commit(r)
  <2>1. PICK s \in {"purge", "prune"} : pc[r] = "commit" /\ Go(r, s) /\ hand' = hand
    BY <1>5 DEF Commit, At
  <2>2. FitsAt(r, s, hand[r]) /\ s \in StepsOf(r)
    BY <1>0, <2>1 DEF FitsAt, RoundSteps
  <2> QED
    BY <1>0, <2>1, <2>2, MovedHolding
<1>6. CASE PruneHistory(r)
  <2> DEFINE stay == { h \in OfSlots(WrittenSlots(round[r].new, round[r].batch)) : h.id \notin round[r].continued }
             V == Beyond(stay, Window) \cup { h \in history : h.id \in round[r].continued }
  <2>1. V \in SUBSET history
    BY DEF OfSlots, Beyond
  <2>2. CleanUp(r, { h.hid : h \in V }, "count")
    BY <1>6 DEF PruneHistory
  <2> HIDE DEF V
  <2> QED
    BY <1>0, <2>1, <2>2, HidsTyped, CleanUpTyped
<1>7. CASE CountVersions(r)
  <2>1. PICK u : CleanUp(r, { h.hid : h \in Evicted(u) }, "usage")
    BY <1>7 DEF CountVersions
  <2>2. Evicted(u) \in SUBSET history
    BY DEF Evicted, OlderVersions
  <2> QED
    BY <1>0, <2>1, <2>2, HidsTyped, CleanUpTyped
<1>8. CASE WriteUsage(r)
  <2>1. pc[r] = "usage" /\ Go(r, "idle") /\ hand' = hand /\ "idle" \in StepsOf(r)
    BY <1>0, <1>8 DEF WriteUsage, At, RoundSteps
  <2>2. FitsAt(r, "idle", hand[r])
    BY <1>0, <2>1 DEF FitsAt
  <2> QED
    BY <1>0, <2>1, <2>2, MovedHolding
<1>9. CASE DeleteAccount(r)
  <2> DEFINE keys == KeysOf(live) \cup KeysOf(staged) \cup KeysOf(history) \cup KeysOf(pending)
  <2>1. Go(r, "drop") /\ Hold(r, [Nothing EXCEPT !.keys = keys]) /\ "drop" \in StepsOf(r)
    BY <1>0, <1>9 DEF DeleteAccount, RoundSteps
  <2>2. keys \in SUBSET Nat
    BY <1>0, KeysTyped
  <2> HIDE DEF keys
  <2> QED
    BY <1>0, <2>1, <2>2, MovedWithKeys
<1>10. CASE DropObjects(r)
  <2>1. pc[r] = "drop" /\ Go(r, "dropRows") /\ hand' = hand /\ "dropRows" \in StepsOf(r)
    BY <1>0, <1>10 DEF DropObjects, At, RoundSteps
  <2>2. FitsAt(r, "dropRows", hand[r])
    BY <1>0, <2>1 DEF FitsAt
  <2> QED
    BY <1>0, <2>1, <2>2, MovedHolding
<1>11. CASE DropRows(r)
  <2>1. Go(r, "idle") /\ Hold(r, Nothing) /\ "idle" \in StepsOf(r)
    BY <1>0, <1>11 DEF DropRows, RoundSteps
  <2> QED
    BY <1>0, <2>1, MovedEmpty
<1> QED
  BY <1>1, <1>2, <1>3, <1>4, <1>5, <1>6, <1>7, <1>8, <1>9, <1>10, <1>11 DEF RoundStep

LEMMA SweepPlaces ==
    ASSUME Shaped, SweepStep
    PROVE  PlacesTyped'
<1>0. /\ PlacesTyped /\ TablesTyped /\ Sweep \in Processes /\ FitsAt(Sweep, pc[Sweep], hand[Sweep])
      /\ StepsOf(Sweep) = SweepSteps /\ "recount" \in Nexts
  BY SweepIs, StepsAre DEF Shaped, PlacesTyped, Nexts
<1>1. CASE StartSweep
  <2>1. pc[Sweep] = "idle" /\ Go(Sweep, "purge") /\ hand' = hand /\ "purge" \in StepsOf(Sweep)
    BY <1>0, <1>1 DEF StartSweep, At, SweepSteps
  <2>2. FitsAt(Sweep, "purge", hand[Sweep])
    BY <1>0, <2>1 DEF FitsAt
  <2> QED
    BY <1>0, <2>1, <2>2, MovedHolding
<1>2. CASE EnforceWindow
  <2>1. CleanUp(Sweep, { h.hid : h \in Beyond(history, Window) }, "recount")
    BY <1>2 DEF EnforceWindow
  <2>2. Beyond(history, Window) \in SUBSET history
    BY DEF Beyond
  <2> QED
    BY <1>0, <2>1, <2>2, HidsTyped, CleanUpTyped
<1>3. CASE Recount
  <2>1. pc[Sweep] = "recount" /\ Go(Sweep, "abandoned") /\ hand' = hand /\ "abandoned" \in StepsOf(Sweep)
    BY <1>0, <1>3 DEF Recount, At, SweepSteps
  <2>2. FitsAt(Sweep, "abandoned", hand[Sweep])
    BY <1>0, <2>1 DEF FitsAt
  <2> QED
    BY <1>0, <2>1, <2>2, MovedHolding
<1>4. CASE ReadAbandoned
  <2>1. PICK old \in SUBSET Aged : Hold(Sweep, [Nothing EXCEPT !.rows = { p \in old : ~Committed(p) }])
    BY <1>4 DEF ReadAbandoned
  <2> DEFINE records == { p \in old : ~Committed(p) }
             h == [Nothing EXCEPT !.rows = records]
  <2>2. records \in SUBSET (StagedRow \cup Reservation)
    BY <1>0 DEF Aged, TablesTyped
  <2>3. Hold(Sweep, h) /\ Go(Sweep, "release") /\ "release" \in StepsOf(Sweep)
    BY <1>0, <1>4, <2>1 DEF ReadAbandoned, SweepSteps
  <2> HIDE DEF records
  <2>4. h = [hids |-> {}, keys |-> {}, rows |-> records, then |-> "idle"]
    BY HeldPart
  <2> HIDE DEF h
  <2>5. {} \in SUBSET Nat /\ "idle" \in Nexts
    BY DEF Nexts
  <2>6. h \in Held
    BY <2>2, <2>4, <2>5, HeldIs
  <2>7. FitsAt(Sweep, "release", h)
    BY <2>4 DEF FitsAt
  <2> QED
    BY <1>0, <2>3, <2>6, <2>7, MovedTyped
<1>5. CASE ReleaseReservations
  <2> DEFINE keys == KeysOf(pending \cap hand[Sweep].rows)
  <2>1. Go(Sweep, "reclaim") /\ Hold(Sweep, [Nothing EXCEPT !.keys = keys]) /\ "reclaim" \in StepsOf(Sweep)
    BY <1>0, <1>5 DEF ReleaseReservations, SweepSteps
  <2>2. keys \in SUBSET Nat
    BY <1>0, KeysTyped
  <2> HIDE DEF keys
  <2> QED
    BY <1>0, <2>1, <2>2, MovedWithKeys
<1>6. CASE ReclaimObjects
  <2>1. Go(Sweep, "idle") /\ Hold(Sweep, Nothing) /\ "idle" \in StepsOf(Sweep)
    BY <1>0, <1>6 DEF ReclaimObjects, SweepSteps
  <2> QED
    BY <1>0, <2>1, MovedEmpty
<1> QED
  BY <1>1, <1>2, <1>3, <1>4, <1>5, <1>6 DEF SweepStep

LEMMA CutPlaces ==
    ASSUME Shaped, NEW p \in Processes, CutShort(p)
    PROVE  PlacesTyped'
<1>1. Go(p, "idle") /\ Hold(p, Nothing) /\ "idle" \in StepsOf(p) /\ PlacesTyped
  BY StepsAre DEF CutShort, Shaped
<1> QED
  BY <1>1, MovedEmpty

-----------------------------------------------------------------------------
(* What a round decides.                                                    *)

Removed(b) == { l \in live : [slot |-> l.slot, id |-> l.id] \in b.deletions }
RowsOf(b) == RowsAfter(Bare(live), account.nextSeq, b)
Replaced(b) ==
    { l \in live \ Removed(b) : \E i \in DOMAIN b.uploads :
        /\ b.uploads[i].slot = l.slot /\ b.uploads[i].continues
        /\ b.uploads[i].id \in { n.id : n \in NewEnvelopes(b) } }

\* The rows that a batch writes, with their keys.
NewFit(b) ==
    LET new == NewEnvelopes(b) IN
    /\ new \in SUBSET LiveRow /\ IsFiniteSet(new) /\ RowsNumbered(new)
    /\ Bare(new) = NewRows(Bare(live), account.nextSeq, b)
    /\ Cardinality(new) = Cardinality(NewRows(Bare(live), account.nextSeq, b)) /\ Cardinality(new) \in Nat
    /\ KeysOf(new) \subseteq (lastKey + 1) .. (lastKey + Cardinality(new))
    /\ \A n \in new : \E i \in DOMAIN b.uploads : b.uploads[i].slot = n.slot /\ b.uploads[i].id = n.id

LEMMA NewEnvelopesAre ==
    ASSUME TablesTyped, NEW b \in Batches
    PROVE  NewFit(b)
<1> DEFINE new == NewEnvelopes(b)
           N == NewRows(Bare(live), account.nextSeq, b)
           env(n) == [slot |-> n.slot, seq |-> n.seq, id |-> n.id, key |-> lastKey + n.seq - account.nextSeq]
           f == [n \in N |-> env(n)]
<1>1. b \in Batch /\ account.nextSeq \in Nat /\ lastKey \in Nat
  BY BatchAssumption DEF TablesTyped, AccountRow
<1>2. NewRowsFit(N, Bare(live), account.nextSeq, b)
  BY <1>1, NewRowsAre
<1> HIDE DEF N
<1>3. /\ IsFiniteSet(N) /\ RowsNumbered(N) /\ Cardinality(N) \in Nat
      /\ \A n \in N :
            /\ n \in Row /\ n.seq \in (account.nextSeq + 1) .. (account.nextSeq + Cardinality(N))
            /\ n.slot = SlotOf[n.id]
            /\ \E i \in DOMAIN b.uploads : b.uploads[i].slot = n.slot /\ b.uploads[i].id = n.id
  BY <1>2 DEF NewRowsFit
<1>4. \A x : x \in new <=> \E n \in N : x = env(n)
  BY DEF NewEnvelopes, N
<1> HIDE DEF new
<1>5. \A n \in N :
        /\ env(n) \in LiveRow /\ env(n).key \in (lastKey + 1) .. (lastKey + Cardinality(N))
        /\ n = [slot |-> env(n).slot, seq |-> env(n).seq, id |-> env(n).id]
        /\ env(n).slot = n.slot /\ env(n).id = n.id /\ env(n).seq = n.seq
  <2> SUFFICES ASSUME NEW n \in N
               PROVE  /\ env(n) \in LiveRow /\ env(n).key \in (lastKey + 1) .. (lastKey + Cardinality(N))
                      /\ n = [slot |-> env(n).slot, seq |-> env(n).seq, id |-> env(n).id]
                      /\ env(n).slot = n.slot /\ env(n).id = n.id /\ env(n).seq = n.seq
    OBVIOUS
  <2>1. /\ n \in [slot : Slots, seq : Nat \ {0}, id : Ids] /\ n.slot = SlotOf[n.id]
        /\ n.seq \in (account.nextSeq + 1) .. (account.nextSeq + Cardinality(N))
    BY <1>3 DEF Row
  <2>2. lastKey + n.seq - account.nextSeq \in (lastKey + 1) .. (lastKey + Cardinality(N))
    BY <1>1, <1>3, <2>1
  <2>3. lastKey + n.seq - account.nextSeq \in Nat
    BY <1>1, <1>3, <2>2
  <2> QED
    BY <2>1, <2>2, <2>3 DEF LiveRow
<1> HIDE DEF env
<1>6. Bare(new) = N
  <2>1. \A x : x \in Bare(new) <=> \E e \in new : x = [slot |-> e.slot, seq |-> e.seq, id |-> e.id]
    BY DEF Bare
  <2> QED
    BY <1>4, <1>5, <2>1
<1>7. /\ f \in [N -> new] /\ \A n, m \in N : f[n] = f[m] => n = m
      /\ \A e \in new : \E n \in N : f[n] = e
  BY <1>4, <1>5
<1>8. IsFiniteSet(new) /\ Cardinality(new) = Cardinality(N)
  <2> HIDE DEF f
  <2> QED
    BY <1>3, <1>7, SameSize
<1>9. new \in SUBSET LiveRow /\ \A n \in new : \E i \in DOMAIN b.uploads : b.uploads[i].slot = n.slot /\ b.uploads[i].id = n.id
  BY <1>3, <1>4, <1>5
<1>10. RowsNumbered(new)
  BY <1>3, <1>4, <1>5 DEF RowsNumbered
<1>11. KeysOf(new) \subseteq (lastKey + 1) .. (lastKey + Cardinality(new))
  <2>1. \A k \in KeysOf(new) : \E n \in N : k = env(n).key
    BY <1>4 DEF KeysOf
  <2> QED
    BY <1>5, <1>8, <2>1
<1> QED
  BY <1>3, <1>6, <1>8, <1>9, <1>10, <1>11 DEF NewFit, new, N

\* The bytes and the number of rows a batch leaves are numbers.
LEMMA RowsOfTyped ==
    ASSUME TablesTyped, NEW b \in Batches
    PROVE  /\ IsFiniteSet(RowsOf(b)) /\ Cardinality(RowsOf(b)) \in Nat /\ BytesOf(RowsOf(b)) \in Nat
           /\ Cardinality(live) \in Nat /\ BytesOf(live) \in Nat
<1> DEFINE N == NewRows(Bare(live), account.nextSeq, b)
           left == { r \in Bare(live) \ Deleted(Bare(live), b.deletions) : \A n \in N : n.slot # r.slot }
<1>1. b \in Batch /\ account.nextSeq \in Nat
  BY BatchAssumption DEF TablesTyped, AccountRow
<1>2. NewRowsFit(N, Bare(live), account.nextSeq, b)
  BY <1>1, NewRowsAre
<1>3. RowsOf(b) = left \cup N
  BY DEF RowsOf, RowsAfter
<1>4. left \in SUBSET Bare(live)
  OBVIOUS
<1> HIDE DEF N, left
<1>5. IsFiniteSet(N) /\ N \in SUBSET Row
  BY <1>2 DEF NewRowsFit
<1>6. IsFiniteSet(Bare(live)) /\ Bare(live) \in SUBSET Row
  BY BareFinite DEF TablesTyped
<1>7. IsFiniteSet(left)
  BY <1>4, <1>6, FS_Subset
<1>8. IsFiniteSet(RowsOf(b)) /\ \A r \in RowsOf(b) : r.id \in Ids
  BY <1>3, <1>4, <1>5, <1>6, <1>7, FS_Union DEF Row
<1>9. IsFiniteSet(live) /\ \A r \in live : r.id \in Ids
  BY DEF TablesTyped, LiveRow
<1> QED
  BY <1>8, <1>9, BytesSplit, FS_CardinalityType

LEMMA NoRoundIs ==
    /\ NoRound \in Memory /\ NoRound.new = {} /\ NoRound.removed = {} /\ NoRound.continued = {}
    /\ RoundFits(NoRound)
<1>1. [uploads |-> <<>>, deletions |-> {}] \in Batch
  BY DEF Batch
<1>2. NoAccount \in AccountRow /\ NoUsage \in UsageRow
  BY DEF NoAccount, AccountRow, NoUsage, UsageRow
<1>3. NoRound \in Memory /\ NoRound.new = {} /\ NoRound.removed = {} /\ NoRound.continued = {}
  BY <1>1, <1>2 DEF NoRound, Memory
<1> QED
  BY <1>3, FS_EmptySet DEF RoundFits, SlotsOf, RowsNumbered

\* The memory of a round that begins with batch b.
Remembers(m, b) ==
    /\ m \in Memory
    /\ m.batch = b /\ m.new = NewEnvelopes(b) /\ m.removed = Removed(b)
    /\ m.account = [exists |-> account.exists,
                    nextSeq |-> account.nextSeq + Cardinality(NewEnvelopes(b)),
                    count |-> account.count + Cardinality(RowsOf(b)) - Cardinality(live),
                    bytes |-> account.bytes + BytesOf(RowsOf(b)) - BytesOf(live)]
    /\ m.continued = { l.id : l \in Replaced(b) }
    /\ m.seen = usage /\ m.before = Counted(OfSlots(TouchedSlots(b)))

LEMMA BeginIs ==
    ASSUME TablesTyped, RoundsTyped, NEW r \in Rounds, NEW b \in Batches, Begin(r, b)
    PROVE  /\ Remembers(round'[r], b)
           /\ round' = [round EXCEPT ![r] = round'[r]]
<1> DEFINE acc == [account EXCEPT
                    !.nextSeq = account.nextSeq + Cardinality(NewEnvelopes(b)),
                    !.count = account.count + Cardinality(RowsOf(b)) - Cardinality(live),
                    !.bytes = account.bytes + BytesOf(RowsOf(b)) - BytesOf(live)]
           cont == { l.id : l \in Replaced(b) }
           new == NewEnvelopes(b)
           removed == Removed(b)
           before == Counted(OfSlots(TouchedSlots(b)))
           m == [NoRound EXCEPT !.batch = b, !.new = new, !.removed = removed, !.account = acc,
                                !.continued = cont, !.seen = usage, !.before = before]
<1>1. round' = [round EXCEPT ![r] = m]
  BY DEF Begin, Removed, RowsOf, Replaced
<1>2. b \in Batch
  BY BatchAssumption
<1>3. new \in SUBSET LiveRow /\ Cardinality(new) \in Nat
  BY NewEnvelopesAre DEF NewFit
<1>4. removed \in SUBSET LiveRow
  BY DEF Removed, TablesTyped
<1>5. cont \in SUBSET Ids
  BY DEF Replaced, TablesTyped, LiveRow
<1>6. usage \in UsageRow /\ before \in UsageRow
  <2>1. OfSlots(TouchedSlots(b)) \in SUBSET history
    BY DEF OfSlots
  <2>2. IsFiniteSet(OfSlots(TouchedSlots(b))) /\ OfSlots(TouchedSlots(b)) \in SUBSET VersionRow
    BY <2>1, FS_Subset DEF TablesTyped
  <2> QED
    BY <2>2, CountedType DEF TablesTyped
<1>7. acc \in AccountRow /\ acc = [exists |-> account.exists,
                    nextSeq |-> account.nextSeq + Cardinality(NewEnvelopes(b)),
                    count |-> account.count + Cardinality(RowsOf(b)) - Cardinality(live),
                    bytes |-> account.bytes + BytesOf(RowsOf(b)) - BytesOf(live)]
  <2> DEFINE seq == account.nextSeq + Cardinality(NewEnvelopes(b))
             count == account.count + Cardinality(RowsOf(b)) - Cardinality(live)
             bytes == account.bytes + BytesOf(RowsOf(b)) - BytesOf(live)
  <2>1. account \in AccountRow /\ account.nextSeq \in Nat /\ account.count \in Int /\ account.bytes \in Int
    BY DEF TablesTyped, AccountRow
  <2>2. seq \in Nat /\ count \in Int /\ bytes \in Int
    BY <1>3, <2>1, RowsOfTyped
  <2>3. acc = [account EXCEPT !.nextSeq = seq, !.count = count, !.bytes = bytes]
    OBVIOUS
  <2> HIDE DEF seq, count, bytes, acc
  <2>4. acc \in AccountRow
    BY <2>1, <2>2, <2>3 DEF AccountRow
  <2>5. acc.nextSeq = seq /\ acc.count = count
    BY <2>1, <2>3 DEF AccountRow
  <2>6. acc.bytes = bytes /\ acc.exists = account.exists
    BY <2>1, <2>3 DEF AccountRow
  <2>7. acc = [exists |-> account.exists, nextSeq |-> seq, count |-> count, bytes |-> bytes]
    BY <2>4, <2>5, <2>6 DEF AccountRow
  <2> QED
    BY <2>4, <2>7 DEF seq, count, bytes
<1> HIDE DEF acc, cont, new, removed, before
<1>8. m \in Memory
  BY <1>2, <1>3, <1>4, <1>5, <1>6, <1>7, NoRoundIs DEF Memory
<1>9. m.batch = b /\ m.new = new
  BY NoRoundIs DEF Memory
<1>10. m.removed = removed /\ m.account = acc
  BY NoRoundIs DEF Memory
<1>11. m.continued = cont /\ m.seen = usage /\ m.before = before
  BY NoRoundIs DEF Memory
<1> HIDE DEF m
<1>12. round'[r] = m
  BY <1>1 DEF RoundsTyped
<1>13. Remembers(m, b)
  BY <1>7, <1>8, <1>9, <1>10, <1>11 DEF Remembers, new, removed, cont, before
<1> QED
  BY <1>1, <1>12, <1>13

\* It is about the records of its batch.
LEMMA RemembersFit ==
    ASSUME TablesTyped, NEW b \in Batches, NEW m, Remembers(m, b)
    PROVE  RoundFits(m)
<1>1. NewFit(b)
  BY NewEnvelopesAre
<1>2. IsFiniteSet(m.new) /\ RowsNumbered(m.new)
  BY <1>1 DEF NewFit, Remembers
<1>3. SlotsOf(m.removed) \subseteq WrittenSlots(m.new, m.batch)
  <2>1. \A l \in Removed(b) : l.slot \in SlotsOf(b.deletions)
    <3> SUFFICES ASSUME NEW l \in Removed(b) PROVE l.slot \in SlotsOf(b.deletions)
      OBVIOUS
    <3>1. [slot |-> l.slot, id |-> l.id] \in b.deletions
      BY DEF Removed
    <3>2. [slot |-> l.slot, id |-> l.id].slot = l.slot
      OBVIOUS
    <3> QED
      BY <3>1, <3>2 DEF SlotsOf
  <2>2. \A x \in SlotsOf(Removed(b)) : x \in SlotsOf(b.deletions)
    BY <2>1 DEF SlotsOf
  <2> QED
    BY <2>2 DEF Remembers, WrittenSlots
<1>4. SlotsOf(m.new) \subseteq WrittenSlots(m.new, m.batch)
  BY DEF WrittenSlots
<1>5. \A i \in m.continued : SlotOf[i] \in WrittenSlots(m.new, m.batch)
  <2>1. b \in Batch
    BY BatchAssumption
  <2>2. \A i \in DOMAIN b.uploads : b.uploads[i].slot = SlotOf[b.uploads[i].id]
    BY <2>1 DEF Batch, Upload
  <2>3. \A n \in NewEnvelopes(b) : n.slot = SlotOf[n.id]
    BY <1>1 DEF NewFit, LiveRow
  <2>4. \A l \in Replaced(b) : SlotOf[l.id] = l.slot /\ \E n \in NewEnvelopes(b) : n.slot = l.slot
    BY <2>2, <2>3 DEF Replaced, TablesTyped, LiveRow
  <2> QED
    BY <2>4 DEF Remembers, WrittenSlots, SlotsOf
<1> QED
  BY <1>2, <1>3, <1>4, <1>5 DEF RoundFits

\* A function of a finite set takes finitely many values.
LEMMA FiniteImage ==
    ASSUME NEW S, IsFiniteSet(S), NEW f
    PROVE  IsFiniteSet({ f[x] : x \in S })
<1> DEFINE g == [x \in S |-> f[x]]
<1>1. g \in Surjection(S, { f[x] : x \in S })
  BY DEF Surjection
<1> QED
  BY <1>1, FS_Surjection

LEMMA RanksAre ==
    ASSUME NEW new \in SUBSET LiveRow, IsFiniteSet(new), RowsNumbered(new)
    PROVE  /\ Cardinality(new) \in Nat
           /\ \A n \in new : Rank(new, n) \in 1 .. Cardinality(new)
           /\ \A n, m \in new : Rank(new, n) = Rank(new, m) => n = m
<1> DEFINE upTo(n) == { m \in new : m.seq <= n.seq }
<1>1. \A n \in new : IsFiniteSet(upTo(n)) /\ Cardinality(upTo(n)) \in Nat
  BY FS_Subset, FS_CardinalityType
<1>2. \A n \in new : n.seq \in Nat
  BY DEF LiveRow
<1>3. ASSUME NEW n \in new
      PROVE  Cardinality(upTo(n)) <= Cardinality(new) /\ Cardinality(upTo(n)) # 0
  <2>1. upTo(n) \in SUBSET new /\ n \in upTo(n)
    BY <1>2
  <2> HIDE DEF upTo
  <2> QED
    BY <1>1, <2>1, FS_Subset, FS_EmptySet
<1>4. ASSUME NEW n \in new, NEW m \in new, n.seq < m.seq
      PROVE  Cardinality(upTo(n)) < Cardinality(upTo(m))
  <2>1. \A k \in new : k.seq <= n.seq => k.seq <= m.seq
    BY <1>2, <1>4
  <2>2. m.seq <= m.seq /\ ~(m.seq <= n.seq)
    BY <1>2, <1>4
  <2>3. upTo(n) \in SUBSET upTo(m) /\ m \in upTo(m) /\ m \notin upTo(n)
    BY <2>1, <2>2
  <2> HIDE DEF upTo
  <2>4. upTo(n) # upTo(m)
    BY <2>3
  <2> QED
    BY <1>1, <2>3, <2>4, FS_Subset
<1>5. Cardinality(new) \in Nat
  BY FS_CardinalityType
<1>6. \A n \in new : Rank(new, n) = Cardinality(upTo(n))
  BY DEF Rank
<1>7. \A n, m \in new : n.seq = m.seq => n = m
  BY DEF RowsNumbered
<1> HIDE DEF upTo
<1>8. ASSUME NEW n \in new, NEW m \in new, Rank(new, n) = Rank(new, m) PROVE n = m
  <2>1. ~(n.seq < m.seq) /\ ~(m.seq < n.seq)
    BY <1>1, <1>4, <1>6, <1>8
  <2> QED
    BY <1>2, <1>7, <2>1
<1>9. \A n \in new : Rank(new, n) \in 1 .. Cardinality(new)
  BY <1>1, <1>3, <1>5, <1>6
<1> QED
  BY <1>5, <1>8, <1>9

\* What a version is: one of a new row, or the copy that it replaces.
LEMMA VersionsAre ==
    ASSUME NEW new, NEW prior, NEW h
    PROVE  h \in Versions(new, prior) <=>
             \E n \in new :
                \/ h = Version(lastHid + 2 * Rank(new, n), n)
                \/ \E l \in Unsaved(n, prior) : h = Version(lastHid + 2 * Rank(new, n) - 1, l)
BY DEF Versions

LEMMA VersionsTyped ==
    ASSUME TablesTyped, NEW new \in SUBSET LiveRow, IsFiniteSet(new), RowsNumbered(new),
           NEW prior \in SUBSET live
    PROVE  Versions(new, prior) \in SUBSET VersionRow /\ IsFiniteSet(Versions(new, prior))
<1> DEFINE top(n) == lastHid + 2 * Rank(new, n)
           low(n) == lastHid + 2 * Rank(new, n) - 1
           f == [n \in new |-> Version(top(n), n)]
           g == [x \in new \X prior |-> Version(low(x[1]), x[2])]
           F == { f[n] : n \in new }
           G == { g[x] : x \in new \X prior }
<1>1. \A n \in new : top(n) \in Nat /\ low(n) \in Nat
  <2>1. \A n \in new : Rank(new, n) \in Nat /\ Rank(new, n) >= 1
    BY RanksAre
  <2>2. lastHid \in Nat
    BY DEF TablesTyped
  <2> QED
    BY <2>1, <2>2
<1>2. Versions(new, prior) \subseteq F \cup G
  <2> SUFFICES ASSUME NEW h \in Versions(new, prior) PROVE h \in F \cup G
    OBVIOUS
  <2>1. PICK n \in new : h = Version(top(n), n) \/ \E l \in Unsaved(n, prior) : h = Version(low(n), l)
    BY VersionsAre
  <2> HIDE DEF top, low
  <2>2. CASE h = Version(top(n), n)
    BY <2>2
  <2>3. CASE \E l \in Unsaved(n, prior) : h = Version(low(n), l)
    <3>1. PICK l \in Unsaved(n, prior) : h = Version(low(n), l)
      BY <2>3
    <3>2. <<n, l>> \in new \X prior
      BY DEF Unsaved
    <3>3. h = g[<<n, l>>]
      BY <3>1, <3>2
    <3> QED
      BY <3>2, <3>3
  <2> QED
    BY <2>1, <2>2, <2>3
<1>3. IsFiniteSet(F) /\ IsFiniteSet(G)
  <2>1. IsFiniteSet(prior)
    BY FS_Subset DEF TablesTyped
  <2>2. IsFiniteSet(new \X prior)
    BY <2>1, FS_Product
  <2> HIDE DEF f, g
  <2> QED
    BY <2>2, FiniteImage
<1>4. IsFiniteSet(Versions(new, prior))
  <2> HIDE DEF F, G
  <2>1. IsFiniteSet(F \cup G)
    BY <1>3, FS_Union
  <2> QED
    BY <1>2, <2>1, FS_Subset
<1>5. \A n \in new, k \in Nat : Version(k, n) \in VersionRow
  BY DEF Version, LiveRow, VersionRow
<1>6. \A l \in prior, k \in Nat : Version(k, l) \in VersionRow
  BY DEF Version, LiveRow, VersionRow, TablesTyped
<1>7. ASSUME NEW h \in Versions(new, prior) PROVE h \in VersionRow
  <2>1. PICK n \in new : h = Version(top(n), n) \/ \E l \in Unsaved(n, prior) : h = Version(low(n), l)
    BY VersionsAre
  <2>2. Unsaved(n, prior) \in SUBSET prior
    BY DEF Unsaved
  <2> HIDE DEF top, low
  <2> QED
    BY <1>1, <1>5, <1>6, <2>1, <2>2
<1> QED
  BY <1>4, <1>7

\* A round counts the versions.
LEMMA CountIs ==
    ASSUME RoundsTyped, NEW r \in Rounds, NEW u \in UsageRow, round' = [round EXCEPT ![r].now = u]
    PROVE  /\ round' \in [Rounds -> Memory] /\ round'[r].now = u
           /\ round'[r].batch = round[r].batch /\ round'[r].new = round[r].new
           /\ round'[r].removed = round[r].removed /\ round'[r].continued = round[r].continued
           /\ round'[r].seen = round[r].seen /\ round'[r].before = round[r].before
           /\ round'[r].account = round[r].account
           /\ \A q \in Rounds : q # r => round'[q] = round[q]
<1> DEFINE m == round[r]
           f == [m EXCEPT !.now = u]
<1>1. round' = [round EXCEPT ![r] = f] /\ m \in Memory
  BY DEF RoundsTyped
<1> HIDE DEF m
<1>2. f \in Memory /\ f.now = u /\ f.batch = m.batch /\ f.new = m.new /\ f.removed = m.removed
  BY <1>1 DEF Memory
<1>3. f.continued = m.continued /\ f.seen = m.seen /\ f.before = m.before /\ f.account = m.account
  BY <1>1 DEF Memory
<1> HIDE DEF f
<1>4. round'[r] = f /\ \A q \in Rounds : q # r => round'[q] = round[q]
  BY <1>1 DEF RoundsTyped
<1>5. round' \in [Rounds -> Memory]
  BY <1>1, <1>2 DEF RoundsTyped
<1> QED
  BY <1>2, <1>3, <1>4, <1>5 DEF m

\* What a round counts is a number.
LEMMA CountedNow ==
    ASSUME Shaped, NEW r \in Rounds
    PROVE  LET after == Counted(OfSlots(WrittenSlots(round[r].new, round[r].batch)))
               total == Plus(round[r].seen, Minus(after, round[r].before)) IN
           total \in UsageRow /\ Minus(total, Counted(Evicted(total))) \in UsageRow
<1> DEFINE after == Counted(OfSlots(WrittenSlots(round[r].new, round[r].batch)))
           total == Plus(round[r].seen, Minus(after, round[r].before))
<1>0. history \in SUBSET VersionRow /\ IsFiniteSet(history)
  BY DEF Shaped, TablesTyped
<1>1. round[r].seen \in UsageRow /\ round[r].before \in UsageRow
  BY DEF Shaped, RoundsTyped, Memory
<1>2. \A V \in SUBSET history : Counted(V) \in UsageRow
  BY <1>0, FS_Subset, CountedType
<1>3. OfSlots(WrittenSlots(round[r].new, round[r].batch)) \in SUBSET history
  BY DEF OfSlots
<1>4. after \in UsageRow
  BY <1>2, <1>3
<1> HIDE DEF after
<1>5. total \in UsageRow
  BY <1>1, <1>4, UsageRows
<1>6. Evicted(total) \in SUBSET history
  BY DEF Evicted, OlderVersions
<1> HIDE DEF total
<1>7. Minus(total, Counted(Evicted(total))) \in UsageRow
  BY <1>2, <1>5, <1>6, UsageRows
<1> QED
  BY <1>5, <1>7 DEF total, after

LEMMA RoundsKept ==
    ASSUME Shaped, Next
    PROVE  RoundsTyped'
<1>0. TablesTyped /\ RoundsTyped
  BY DEF Shaped
<1>1. CASE round' = round
  BY <1>0, <1>1 DEF RoundsTyped, RoundFits, WrittenSlots
<1>2. ASSUME NEW r \in Rounds, NEW m \in Memory, RoundFits(m), round' = [round EXCEPT ![r] = m]
      PROVE  RoundsTyped'
  BY <1>0, <1>2 DEF RoundsTyped, RoundFits
<1>3. ASSUME NEW r \in Rounds, NEW b \in Batches, Begin(r, b) PROVE RoundsTyped'
  <2>1. Remembers(round'[r], b) /\ round' = [round EXCEPT ![r] = round'[r]]
    BY <1>0, <1>3, BeginIs
  <2> DEFINE m == round'[r]
  <2>2. Remembers(m, b) /\ round' = [round EXCEPT ![r] = m]
    BY <2>1
  <2> HIDE DEF m
  <2>3. m \in Memory /\ RoundFits(m)
    BY <1>0, <2>2, RemembersFit DEF Remembers
  <2> QED
    BY <1>2, <2>2, <2>3
<1>4. ASSUME NEW r \in Rounds, CountVersions(r) PROVE RoundsTyped'
  <2> DEFINE total == Plus(round[r].seen, Minus(Counted(OfSlots(WrittenSlots(round[r].new, round[r].batch))), round[r].before))
             u == Minus(total, Counted(Evicted(total)))
  <2>1. round' = [round EXCEPT ![r].now = u]
    BY <1>4 DEF CountVersions
  <2>2. u \in UsageRow
    BY CountedNow
  <2> HIDE DEF u
  <2>3. /\ round' \in [Rounds -> Memory]
        /\ round'[r].batch = round[r].batch /\ round'[r].new = round[r].new
        /\ round'[r].removed = round[r].removed /\ round'[r].continued = round[r].continued
        /\ \A q \in Rounds : q # r => round'[q] = round[q]
    BY <1>0, <2>1, <2>2, CountIs
  <2>4. ASSUME NEW q \in Rounds PROVE RoundFits(round'[q])
    <3>1. /\ round'[q].batch = round[q].batch /\ round'[q].new = round[q].new
          /\ round'[q].removed = round[q].removed /\ round'[q].continued = round[q].continued
      BY <2>3
    <3>2. RoundFits(round[q])
      BY <1>0 DEF RoundsTyped
    <3> QED
      BY <3>1, <3>2 DEF RoundFits
  <2> QED
    BY <2>3, <2>4 DEF RoundsTyped, RoundFits
<1>5. ASSUME NEW r \in Rounds, WriteUsage(r) PROVE RoundsTyped'
  <2>1. round' = [round EXCEPT ![r] = NoRound]
    BY <1>5 DEF WriteUsage
  <2> QED
    BY <1>2, <2>1, NoRoundIs
<1>6. ASSUME NEW p \in Processes, CutShort(p) PROVE RoundsTyped'
  <2>1. round' = [r \in Rounds |-> IF r = p THEN NoRound ELSE round[r]]
    BY <1>6 DEF CutShort
  <2>2. \A q \in Rounds : round'[q] = NoRound \/ round'[q] = round[q]
    BY <2>1
  <2>3. round' \in [Rounds -> Memory] /\ \A q \in Rounds : RoundFits(round'[q])
    BY <1>0, <2>1, <2>2, NoRoundIs DEF RoundsTyped
  <2> QED
    BY <2>3 DEF RoundsTyped, RoundFits
<1>7. CASE CreateAccount
  BY <1>1, <1>7 DEF CreateAccount
<1>8. ASSUME NEW p \in Processes, Cleaning(p) PROVE RoundsTyped'
  BY <1>1, <1>8 DEF Cleaning, FindUnreferenced, DeleteObjects, DeleteRows, PurgeVersions, ReadStaged, EraseStaged, Unstage
<1>9. CASE SweepStep
  BY <1>1, <1>9 DEF SweepStep, StartSweep, EnforceWindow, Recount, ReadAbandoned, ReleaseReservations, ReclaimObjects
<1>10. ASSUME NEW r \in Rounds, RoundStep(r) PROVE RoundsTyped'
  <2>1. CASE DropSuperseded(r) \/ Reserve(r) \/ PutObject(r) \/ Commit(r)
    BY <1>1, <2>1 DEF DropSuperseded, Reserve, PutObject, Commit
  <2>2. CASE PruneHistory(r) \/ DeleteAccount(r) \/ DropObjects(r) \/ DropRows(r)
    BY <1>1, <2>2 DEF PruneHistory, DeleteAccount, DropObjects, DropRows
  <2> QED
    BY <1>3, <1>4, <1>5, <1>10, <2>1, <2>2 DEF RoundStep
<1> QED
  BY <1>6, <1>7, <1>8, <1>9, <1>10 DEF Next

\* The rows a commit leaves.
Left(r) == { l \in live : ~ \E d \in round[r].removed : d.slot = l.slot /\ d.id = l.id }
Prior(r) == { l \in Left(r) : \E n \in round[r].new : n.slot = l.slot }

LEMMA CommitIs ==
    ASSUME NEW r \in Rounds, Commit(r)
    PROVE  /\ pc[r] = "commit" /\ live' = (Left(r) \ Prior(r)) \cup round[r].new
           /\ staged' = Staged(round[r].removed)
           /\ history' = history \cup Versions(round[r].new, Prior(r))
           /\ lastHid' = lastHid + 2 * Cardinality(round[r].new)
           /\ pending' = { p \in pending : \A n \in round[r].new : n.id # p.id }
           /\ account' = round[r].account
           /\ Go(r, IF round[r].removed # {} THEN "purge" ELSE "prune")
           /\ UNCHANGED <<usage, objects, lastKey, round, hand, crashes, ghosts>>
<1> DEFINE removed == { l \in live : \E d \in round[r].removed : d.slot = l.slot /\ d.id = l.id }
           left == live \ removed
           prior == { l \in left : \E n \in round[r].new : n.slot = l.slot }
<1>1. /\ live' = (left \ prior) \cup round[r].new
      /\ history' = history \cup Versions(round[r].new, prior)
  BY DEF Commit
<1>2. left = Left(r)
  BY DEF Left
<1>3. prior = Prior(r)
  BY <1>2 DEF Prior
<1> HIDE DEF left, prior
<1>4. live' = (Left(r) \ Prior(r)) \cup round[r].new
  BY <1>1, <1>2, <1>3
<1>5. history' = history \cup Versions(round[r].new, Prior(r))
  BY <1>1, <1>3
<1> QED
  BY <1>4, <1>5 DEF Commit, At

LEMMA CommitTyped ==
    ASSUME Shaped, NEW r \in Rounds, Commit(r)
    PROVE  TablesTyped'
<1> DEFINE new == round[r].new
<1>0. TablesTyped /\ RoundsTyped
  BY DEF Shaped
<1>1. /\ round[r] \in Memory /\ RoundFits(round[r])
  BY <1>0 DEF RoundsTyped
<1>2. /\ new \in SUBSET LiveRow /\ IsFiniteSet(new) /\ RowsNumbered(new)
      /\ round[r].removed \in SUBSET LiveRow /\ round[r].account \in AccountRow
  BY <1>1 DEF Memory, RoundFits
<1>3. Left(r) \in SUBSET live /\ Prior(r) \in SUBSET live
  BY DEF Left, Prior
<1> HIDE DEF new
<1>4. Versions(new, Prior(r)) \in SUBSET VersionRow /\ IsFiniteSet(Versions(new, Prior(r)))
  BY <1>0, <1>2, <1>3, VersionsTyped
<1>5. live' \in SUBSET LiveRow /\ IsFiniteSet(live')
  <2>1. live' = (Left(r) \ Prior(r)) \cup new /\ (Left(r) \ Prior(r)) \in SUBSET live
    BY <1>3, CommitIs DEF new
  <2>2. IsFiniteSet(Left(r) \ Prior(r))
    BY <1>0, <2>1, FS_Subset DEF TablesTyped
  <2>3. IsFiniteSet(live')
    BY <1>2, <2>1, <2>2, FS_Union
  <2> QED
    BY <1>0, <1>2, <2>1, <2>3 DEF TablesTyped
<1>6. history' \in SUBSET VersionRow /\ IsFiniteSet(history')
  <2>1. history' = history \cup Versions(new, Prior(r))
    BY CommitIs DEF new
  <2>2. history \in SUBSET VersionRow /\ IsFiniteSet(history)
    BY <1>0 DEF TablesTyped
  <2> QED
    BY <1>4, <2>1, <2>2, FS_Union
<1>7. staged' \in SUBSET StagedRow
  <2>1. staged' = Staged(round[r].removed)
    BY CommitIs
  <2> QED
    BY <1>0, <1>2, <2>1 DEF Staged, StagedCopies, TablesTyped, StagedRow, LiveRow
<1>8. pending' \in SUBSET Reservation /\ lastHid' \in Nat /\ account' \in AccountRow
  <2>1. pending' \in SUBSET pending
    BY CommitIs
  <2>2. lastHid' = lastHid + 2 * Cardinality(new) /\ Cardinality(new) \in Nat
    BY <1>2, CommitIs, FS_CardinalityType DEF new
  <2>3. lastHid' \in Nat
    BY <1>0, <2>2 DEF TablesTyped
  <2> QED
    BY <1>0, <1>2, <2>1, <2>3, CommitIs DEF TablesTyped
<1>9. UNCHANGED <<usage, objects, lastKey, cut, exact, calm>>
  BY CommitIs DEF ghosts
<1> QED
  BY <1>0, <1>5, <1>6, <1>7, <1>8, <1>9 DEF TablesTyped

LEMMA CountsTyped ==
    ASSUME TablesTyped
    PROVE  Counted(history) \in UsageRow /\ NoUsage \in UsageRow /\ NoAccount \in AccountRow
BY CountedType DEF TablesTyped, NoUsage, UsageRow, NoAccount, AccountRow

LEMMA TablesKept ==
    ASSUME Shaped, Next
    PROVE  TablesTyped'
<1>0. TablesTyped /\ RoundsTyped
  BY DEF Shaped
<1>1. CASE CreateAccount
  <2>1. account' = [NoAccount EXCEPT !.exists = TRUE]
    BY <1>1 DEF CreateAccount
  <2>2. NoAccount \in AccountRow
    BY <1>0, CountsTyped
  <2>3. account' \in AccountRow
    BY <2>1, <2>2 DEF AccountRow
  <2> QED
    BY <1>0, <1>1, <2>3 DEF CreateAccount, TablesTyped, ghosts
<1>2. ASSUME NEW p \in Processes, Cleaning(p) PROVE TablesTyped'
  <2>1. CASE FindUnreferenced(p) \/ PurgeVersions(p) \/ ReadStaged(p)
    BY <1>0, <2>1 DEF FindUnreferenced, PurgeVersions, ReadStaged, TablesTyped, tables, ghosts
  <2>2. CASE DeleteObjects(p) \/ EraseStaged(p)
    BY <1>0, <2>2 DEF DeleteObjects, EraseStaged, TablesTyped, tables, ghosts
  <2>3. CASE DeleteRows(p)
    <3>1. history' \in SUBSET history
      BY <2>3 DEF DeleteRows
    <3>2. IsFiniteSet(history')
      BY <1>0, <3>1, FS_Subset DEF TablesTyped
    <3> QED
      BY <1>0, <2>3, <3>1, <3>2 DEF DeleteRows, TablesTyped, ghosts
  <2>4. CASE Unstage(p)
    BY <1>0, <2>4 DEF Unstage, TablesTyped, ghosts
  <2> QED
    BY <1>2, <2>1, <2>2, <2>3, <2>4 DEF Cleaning
<1>3. CASE SweepStep
  <2>1. CASE StartSweep
    <3>1. (exact /\ Idle) \in BOOLEAN /\ (calm /\ Idle) \in BOOLEAN
      OBVIOUS
    <3> QED
      BY <1>0, <2>1, <3>1 DEF StartSweep, TablesTyped, tables
  <2>2. CASE EnforceWindow \/ ReadAbandoned
    BY <1>0, <2>2 DEF EnforceWindow, ReadAbandoned, TablesTyped, tables, ghosts
  <2>3. CASE Recount
    <3>1. Idle \in BOOLEAN
      BY DEF Idle
    <3> QED
      BY <1>0, <2>3, <3>1, CountsTyped DEF Recount, TablesTyped
  <2>4. CASE ReleaseReservations \/ ReclaimObjects
    BY <1>0, <2>4 DEF ReleaseReservations, ReclaimObjects, TablesTyped, tables, ghosts
  <2> QED
    BY <1>3, <2>1, <2>2, <2>3, <2>4 DEF SweepStep
<1>4. ASSUME NEW p \in Processes, CutShort(p) PROVE TablesTyped'
  <2>1. /\ cut' = (cut \/ At(p, "dropRows")) /\ calm' = FALSE
        /\ exact' = (exact /\ pc[p] \in {"supersede", "reserve", "put", "commit", "drop", "dropRows",
                                     "abandoned", "release", "reclaim"})
        /\ UNCHANGED <<tables, objects, lastKey>>
    BY <1>4 DEF CutShort
  <2>2. cut' \in BOOLEAN /\ exact' \in BOOLEAN /\ calm' \in BOOLEAN
    BY <2>1
  <2> QED
    BY <1>0, <2>1, <2>2 DEF TablesTyped, tables
<1>5. ASSUME NEW r \in Rounds, NEW b \in Batches, Begin(r, b) PROVE TablesTyped'
  <2>1. lastKey' = lastKey + Cardinality(NewEnvelopes(b))
    BY <1>5 DEF Begin
  <2>2. Cardinality(NewEnvelopes(b)) \in Nat
    BY <1>0, NewEnvelopesAre DEF NewFit
  <2>3. lastKey' \in Nat
    BY <1>0, <2>1, <2>2 DEF TablesTyped
  <2>4. exact' \in BOOLEAN /\ calm' \in BOOLEAN /\ UNCHANGED <<tables, objects, cut>>
    BY <1>5 DEF Begin
  <2> QED
    BY <1>0, <2>3, <2>4 DEF TablesTyped, tables
<1>6. ASSUME NEW r \in Rounds, RoundStep(r), ~ \E b \in Batches : Begin(r, b) PROVE TablesTyped'
  <2>0. round[r] \in Memory
    BY <1>0 DEF RoundsTyped
  <2>1. CASE DropSuperseded(r) \/ DropObjects(r)
    BY <1>0, <2>1 DEF DropSuperseded, DropObjects, TablesTyped, tables, ghosts
  <2>2. CASE Reserve(r)
    <3>1. pending' = { p \in pending : \A n \in round[r].new : n.id # p.id }
                     \cup { [id |-> n.id, key |-> n.key] : n \in round[r].new }
      BY <2>2 DEF Reserve
    <3>2. round[r].new \in SUBSET LiveRow
      BY <2>0 DEF Memory
    <3>3. pending' \in SUBSET Reservation
      BY <1>0, <3>1, <3>2 DEF TablesTyped, LiveRow, Reservation
    <3> QED
      BY <1>0, <2>2, <3>3 DEF Reserve, TablesTyped, ghosts
  <2>3. CASE PutObject(r)
    <3>1. PICK k \in KeysOf(round[r].new) : objects' = objects \cup {k}
      BY <2>3 DEF PutObject
    <3>2. k \in Nat
      BY <2>0, <3>1 DEF Memory, KeysOf, LiveRow
    <3> QED
      BY <1>0, <2>3, <3>1, <3>2 DEF PutObject, TablesTyped, tables, ghosts
  <2>4. CASE Commit(r)
    BY <2>4, CommitTyped
  <2>5. CASE PruneHistory(r) \/ CountVersions(r) \/ DeleteAccount(r)
    BY <1>0, <2>5 DEF PruneHistory, CountVersions, DeleteAccount, TablesTyped, tables, ghosts
  <2>6. CASE WriteUsage(r)
    <3>1. round[r].now \in UsageRow
      BY <2>0 DEF Memory
    <3> QED
      BY <1>0, <2>6, <3>1 DEF WriteUsage, TablesTyped, ghosts
  <2>7. CASE DropRows(r)
    BY <1>0, <2>7, CountsTyped, FS_EmptySet DEF DropRows, TablesTyped
  <2> QED
    BY <1>6, <2>1, <2>2, <2>3, <2>4, <2>5, <2>6, <2>7 DEF RoundStep
<1> QED
  BY <1>1, <1>2, <1>3, <1>4, <1>5, <1>6 DEF Next

LEMMA CreatePlaces == ASSUME Shaped, CreateAccount PROVE PlacesTyped'
<1>1. pc' = pc /\ hand' = hand
  BY DEF CreateAccount
<1> QED
  BY <1>1 DEF Shaped, PlacesTyped

LEMMA CoordinatorTyped == ASSUME Shaped, Next PROVE Shaped'
<1>1. PlacesTyped'
  BY CreatePlaces, CleaningTyped, RoundPlaces, SweepPlaces, CutPlaces DEF Next
<1> QED
  BY <1>1, TablesKept, RoundsKept DEF Shaped

LEMMA TypedAtFirst == ASSUME Init PROVE Shaped
<1>1. TablesTyped
  <2>1. NoAccount \in AccountRow /\ NoUsage \in UsageRow /\ IsFiniteSet({})
    BY FS_EmptySet DEF NoAccount, AccountRow, NoUsage, UsageRow
  <2> QED
    BY <2>1 DEF Init, TablesTyped
<1>2. PlacesTyped
  <2>1. \A p \in Processes : FitsAt(p, "idle", Nothing) /\ "idle" \in StepsOf(p)
    BY NothingIs, StepsAre DEF FitsAt
  <2> QED
    BY <2>1, NothingIs DEF Init, PlacesTyped, RoundSteps
<1>3. RoundsTyped
  BY NoRoundIs DEF Init, RoundsTyped
<1> QED
  BY <1>1, <1>2, <1>3 DEF Shaped

-----------------------------------------------------------------------------
(* Keys: no object of a live record is ever deleted.  Each action keeps     *)
(* KeysSafe: lemmas ...Keys.                                                *)

LEMMA MovesOne ==
    ASSUME PlacesTyped, NEW p \in Processes, NEW s, Go(p, s)
    PROVE  pc'[p] = s /\ \A q \in Processes : q # p => pc'[q] = pc[q]
BY DEF PlacesTyped, Go

LEMMA HoldsOne ==
    ASSUME PlacesTyped, NEW p \in Processes, NEW h, Hold(p, h)
    PROVE  hand'[p] = h /\ \A q \in Processes : q # p => hand'[q] = hand[q]
BY DEF PlacesTyped, Hold

LEMMA KeysGrow ==
    ASSUME NEW R, NEW S, R \subseteq S
    PROVE  KeysOf(R) \subseteq KeysOf(S)
BY DEF KeysOf

\* The lock is kept by the sweep, by the round that has it, and by one that finds it free.
LEMMA LockKept ==
    ASSUME PlacesTyped, Locked, NEW p \in Processes, NEW s, Go(p, s),
           p = Sweep \/ pc[p] # "idle" \/ Idle
    PROVE  Locked'
<1>1. /\ pc'[p] = s /\ \A q \in Processes : q # p => pc'[q] = pc[q]
  BY MovesOne
<1>2. \A r \in Rounds : r \in Processes /\ r # Sweep
  BY SweepIs
<1> QED
  BY <1>1, <1>2 DEF Locked, Idle, At

\* A step of p that gives out no key and writes no object: p deletes at most the objects
\* it holds the keys of, and takes up keys that no round is about to write under.
Shrinks(p, s, h) ==
    /\ Go(p, s) /\ Hold(p, h) /\ Locked'
    /\ live' = live /\ lastKey' = lastKey
    /\ history' \subseteq history /\ staged' \subseteq staged /\ pending' \subseteq pending
    /\ objects' \subseteq objects /\ objects \ objects' \subseteq hand[p].keys
    /\ \A r \in Rounds :
        /\ KeysOf(round'[r].new) \subseteq KeysOf(round[r].new)
        /\ Before(r)' => Before(r) /\ round'[r].new = round[r].new
        /\ pc'[r] = "commit" => pc[r] = "commit"
        /\ Before(r)' => (h.keys \cup KeysOf(h.rows)) \cap KeysOf(round[r].new) = {}
    /\ h.keys \cup KeysOf(h.rows) \subseteq 1 .. lastKey
    /\ (p \in Rounds /\ s \in {"drop", "dropRows"}) \/ h.keys \cap KeysOf(live) = {}
    /\ cut => cut'
    /\ (p \in Rounds /\ Dropping(p)) => objects' = objects \/ s = "dropRows"
    /\ (p \in Rounds /\ pc[p] = "dropRows") => cut'

LEMMA ShrinksSafely ==
    ASSUME Shaped, KeysSafe, NEW p \in Processes, NEW s, NEW h, Shrinks(p, s, h)
    PROVE  KeysSafe'
<1>0. PlacesTyped /\ Go(p, s) /\ Hold(p, h) /\ live' = live /\ lastKey' = lastKey
  BY DEF Shaped, Shrinks
<1>1. /\ pc'[p] = s /\ \A q \in Processes : q # p => pc'[q] = pc[q]
      /\ hand'[p] = h /\ \A q \in Processes : q # p => hand'[q] = hand[q]
  BY <1>0, MovesOne, HoldsOne
<1>2. \A r \in Rounds : r \in Processes /\ r # Sweep
  BY SweepIs
<1>3. /\ KeysOf(history') \subseteq KeysOf(history) /\ KeysOf(staged') \subseteq KeysOf(staged)
      /\ KeysOf(pending') \subseteq KeysOf(pending) /\ KeysOf(live') = KeysOf(live)
      /\ objects' \subseteq objects /\ pending' \subseteq pending
  BY <1>0, KeysGrow DEF Shrinks
<1>4. \A q \in Processes : HeldKeys(q)' = IF q = p THEN h.keys \cup KeysOf(h.rows) ELSE HeldKeys(q)
  BY <1>1 DEF HeldKeys
<1>5. KeysGiven'
  <2>1. objects' \cup KeysOf(live') \cup KeysOf(history') \cup KeysOf(staged') \cup KeysOf(pending')
            \subseteq 1 .. lastKey
    BY <1>3 DEF KeysSafe, KeysGiven
  <2>2. \A q \in Processes : HeldKeys(q)' \subseteq 1 .. lastKey
    BY <1>4 DEF KeysSafe, KeysGiven, Shrinks
  <2>3. \A r \in Rounds : KeysOf(round'[r].new) \subseteq 1 .. lastKey
    BY DEF KeysSafe, KeysGiven, Shrinks
  <2> QED
    BY <1>0, <2>1, <2>2, <2>3 DEF KeysGiven
<1>6. ASSUME NEW r \in Rounds, Before(r)' PROVE OwnKeys(r)'
  <2>1. /\ Before(r) /\ round'[r].new = round[r].new
        /\ (h.keys \cup KeysOf(h.rows)) \cap KeysOf(round[r].new) = {}
    BY <1>6 DEF Shrinks
  <2>2. OwnKeys(r)
    BY <2>1 DEF KeysSafe
  <2>3. KeysOf(round'[r].new) \cap (KeysOf(live') \cup KeysOf(history') \cup KeysOf(staged')) = {}
    BY <1>3, <2>1, <2>2 DEF OwnKeys
  <2>4. \A q \in Processes : KeysOf(round'[r].new) \cap HeldKeys(q)' = {}
    BY <1>4, <2>1, <2>2 DEF OwnKeys
  <2>5. \A x \in pending' : x.key \in KeysOf(round'[r].new) => \E n \in round'[r].new : n.id = x.id
    BY <1>3, <2>1, <2>2 DEF OwnKeys
  <2> QED
    BY <2>3, <2>4, <2>5 DEF OwnKeys
<1>7. ASSUME NEW r \in Rounds, pc'[r] = "commit" PROVE KeysOf(round'[r].new) \subseteq objects'
  <2>1. pc[r] = "commit" /\ Before(r) /\ round'[r].new = round[r].new
    BY <1>7 DEF Shrinks, Before
  <2>2. KeysOf(round[r].new) \subseteq objects /\ KeysOf(round[r].new) \cap HeldKeys(p) = {}
    BY <2>1 DEF KeysSafe, OwnKeys
  <2> QED
    BY <2>1, <2>2 DEF Shrinks, HeldKeys
<1>8. KeysOf(pending') \cap KeysOf(live') = {}
  BY <1>3 DEF KeysSafe
<1>9. ASSUME NEW q \in Processes PROVE Spared(q)'
  <2>1. CASE q = p
    BY <1>1, <1>3, <2>1 DEF Shrinks, Spared, Dropping
  <2>2. CASE q # p
    <3>1. Spared(q)
      BY DEF KeysSafe
    <3> QED
      BY <1>1, <1>3, <2>2, <3>1 DEF Spared, Dropping
  <2> QED
    BY <2>1, <2>2
<1>10. LiveReadable'
  <2>1. CASE cut
    BY <2>1 DEF Shrinks, LiveReadable
  <2>2. CASE \E r \in Rounds : At(r, "dropRows")
    <3>1. PICK r \in Rounds : pc[r] = "dropRows"
      BY <2>2 DEF At
    <3>2. CASE r = p
      BY <3>1, <3>2 DEF Shrinks, LiveReadable
    <3>3. CASE r # p
      <4>1. pc'[r] = "dropRows"
        BY <1>1, <1>2, <3>1, <3>3
      <4> QED
        BY <4>1 DEF LiveReadable, At
    <3> QED
      BY <3>2, <3>3
  <2>3. CASE KeysOf(live) \subseteq objects
    <3>1. CASE p \in Rounds /\ Dropping(p)
      <4>1. objects' = objects \/ pc'[p] = "dropRows"
        BY <1>1, <3>1 DEF Shrinks
      <4> QED
        BY <1>3, <2>3, <3>1, <4>1 DEF LiveReadable, At
    <3>2. CASE ~(p \in Rounds /\ Dropping(p))
      <4>1. hand[p].keys \cap KeysOf(live) = {}
        BY <3>2 DEF KeysSafe, Spared
      <4> QED
        BY <1>3, <2>3, <4>1 DEF Shrinks, LiveReadable
    <3> QED
      BY <3>1, <3>2
  <2> QED
    BY <2>1, <2>2, <2>3 DEF KeysSafe, LiveReadable
<1>11. Locked'
  BY DEF Shrinks
<1> QED
  BY <1>5, <1>6, <1>7, <1>8, <1>9, <1>10, <1>11 DEF KeysSafe

BeforeSteps == {"supersede", "reserve", "put", "commit"}

LEMMA NotBefore ==
    ASSUME PlacesTyped, NEW p \in Processes, NEW s, Go(p, s), s \notin BeforeSteps
    PROVE  \A r \in Rounds : (Before(r)' => Before(r) /\ r # p) /\ (pc'[r] = "commit" => pc[r] = "commit")
<1>1. /\ pc'[p] = s /\ \A q \in Processes : q # p => pc'[q] = pc[q]
  BY MovesOne
<1> QED
  BY <1>1, SweepIs DEF Before, BeforeSteps

\* A key that a row or a hand has is no round's own.
LEMMA KnownKeys ==
    ASSUME KeysSafe, NEW p \in Processes, NEW K,
           K \subseteq KeysOf(live) \cup KeysOf(history) \cup KeysOf(staged) \cup HeldKeys(p)
    PROVE  K \subseteq 1 .. lastKey /\ \A r \in Rounds : Before(r) => K \cap KeysOf(round[r].new) = {}
BY DEF KeysSafe, KeysGiven, OwnKeys

\* What p takes up is known already, and it writes nothing.
LEMMA CleanStep ==
    ASSUME Shaped, KeysSafe, NEW p \in Processes, NEW s, NEW h, Go(p, s), Hold(p, h),
           s \notin BeforeSteps, pc[p] # "idle" \/ p = Sweep, ~(p \in Rounds /\ Dropping(p)),
           live' = live, lastKey' = lastKey, cut' = cut,
           history' \subseteq history, staged' \subseteq staged, pending' \subseteq pending,
           objects' \subseteq objects, objects \ objects' \subseteq hand[p].keys,
           \A r \in Rounds : round'[r].new = round[r].new \/ (r = p /\ round'[r].new = {}),
           h.keys \cup KeysOf(h.rows) \subseteq KeysOf(live) \cup KeysOf(history) \cup KeysOf(staged) \cup HeldKeys(p),
           h.keys \cap KeysOf(live) = {}
    PROVE  KeysSafe'
<1>1. PlacesTyped /\ Locked
  BY DEF Shaped, KeysSafe
<1>2. Locked'
  BY <1>1, LockKept
<1>3. \A r \in Rounds : (Before(r)' => Before(r) /\ r # p) /\ (pc'[r] = "commit" => pc[r] = "commit")
  BY <1>1, NotBefore
<1>4. /\ h.keys \cup KeysOf(h.rows) \subseteq 1 .. lastKey
      /\ \A r \in Rounds : Before(r) => (h.keys \cup KeysOf(h.rows)) \cap KeysOf(round[r].new) = {}
  BY KnownKeys
<1>5. \A r \in Rounds :
        /\ KeysOf(round'[r].new) \subseteq KeysOf(round[r].new)
        /\ Before(r)' => Before(r) /\ round'[r].new = round[r].new
        /\ Before(r)' => (h.keys \cup KeysOf(h.rows)) \cap KeysOf(round[r].new) = {}
  <2>1. KeysOf({}) = {}
    BY DEF KeysOf
  <2> QED
    BY <1>3, <1>4, <2>1
<1>6. Shrinks(p, s, h)
  BY <1>2, <1>3, <1>4, <1>5 DEF Shrinks, Dropping
<1> QED
  BY <1>6, ShrinksSafely

\* Between what a process holds and nothing.
LEMMA HeldNothing ==
    KeysOf(Nothing.rows) = {} /\ Nothing.keys = {} /\ Nothing.hids = {} /\ KeysOf({}) = {}
BY NothingIs DEF KeysOf

LEMMA CleanUpKeys ==
    ASSUME Shaped, KeysSafe, NEW p \in Processes, NEW hids \in SUBSET Nat, NEW next \in Nexts, CleanUp(p, hids, next),
           next \notin BeforeSteps, pc[p] # "idle", ~(p \in Rounds /\ Dropping(p)),
           live' = live, lastKey' = lastKey, cut' = cut, history' = history, staged' = staged,
           pending' = pending, objects' = objects,
           \A r \in Rounds : round'[r].new = round[r].new
    PROVE  KeysSafe'
<1> DEFINE h == [Nothing EXCEPT !.hids = hids, !.then = next]
           s == IF hids = {} THEN next ELSE "find"
<1>1. Go(p, s) /\ Hold(p, h)
  BY DEF CleanUp
<1>2. h = [hids |-> hids, keys |-> {}, rows |-> {}, then |-> next]
  BY HeldVersions
<1>3. h.keys = {} /\ KeysOf(h.rows) = {}
  BY <1>2, HeldNothing
<1>4. s \notin BeforeSteps
  BY DEF BeforeSteps
<1>5. objects \ objects' \subseteq hand[p].keys
  OBVIOUS
<1> HIDE DEF s, h
<1> QED
  BY <1>1, <1>3, <1>4, <1>5, CleanStep

LEMMA CleaningKeys ==
    ASSUME Shaped, KeysSafe, NEW p \in Processes, Cleaning(p)
    PROVE  KeysSafe'
<1>0. /\ PlacesTyped /\ TablesTyped /\ hand[p] \in Held /\ FitsAt(p, pc[p], hand[p])
      /\ hand[p].then \in Nexts
  BY HeldFields DEF Shaped, PlacesTyped
<1>1. CASE FindUnreferenced(p)
  <2> DEFINE keys == Unreferenced(hand[p].hids)
             h == [hand[p] EXCEPT !.keys = keys]
  <2>1. /\ pc[p] = "find" /\ Go(p, "objects") /\ Hold(p, h)
        /\ UNCHANGED <<live, history, staged, pending, objects, lastKey, round, cut>>
    BY <1>1 DEF FindUnreferenced, At, tables, ghosts
  <2>2. keys \subseteq KeysOf(history) /\ keys \cap KeysOf(live) = {}
    BY DEF Unreferenced, KeysOf
  <2> HIDE DEF keys
  <2>3. h = [hids |-> hand[p].hids, keys |-> keys, rows |-> hand[p].rows, then |-> hand[p].then]
    BY <1>0, HeldPart
  <2>4. h.keys = keys /\ KeysOf(h.rows) \subseteq HeldKeys(p)
    BY <2>3 DEF HeldKeys
  <2> HIDE DEF h
  <2>5. ~(p \in Rounds /\ Dropping(p)) /\ "objects" \notin BeforeSteps /\ pc[p] # "idle"
    BY <2>1 DEF Dropping, BeforeSteps
  <2>6. h.keys \cup KeysOf(h.rows) \subseteq KeysOf(live) \cup KeysOf(history) \cup KeysOf(staged) \cup HeldKeys(p)
    BY <2>2, <2>4
  <2>7. objects' \subseteq objects /\ objects \ objects' \subseteq hand[p].keys /\ h.keys \cap KeysOf(live) = {}
        /\ \A r \in Rounds : round'[r].new = round[r].new
    BY <2>1, <2>2, <2>4
  <2> QED
    BY <2>1, <2>5, <2>6, <2>7, CleanStep
<1>2. CASE DeleteObjects(p) \/ EraseStaged(p)
  <2>1. PICK s \in {"rows", "unstage"} :
            /\ pc[p] \in {"objects", "erase"} /\ Go(p, s) /\ hand' = hand /\ objects' = objects \ hand[p].keys
            /\ UNCHANGED <<live, history, staged, pending, lastKey, round, cut>>
    BY <1>2 DEF DeleteObjects, EraseStaged, At, tables, ghosts
  <2>2. Hold(p, hand[p])
    BY <1>0, <2>1, MovedOnly
  <2>3. hand[p].keys \cup KeysOf(hand[p].rows) \subseteq KeysOf(live) \cup KeysOf(history) \cup KeysOf(staged) \cup HeldKeys(p)
    BY DEF HeldKeys
  <2>4. ~(p \in Rounds /\ Dropping(p)) /\ s \notin BeforeSteps /\ pc[p] # "idle"
    BY <2>1 DEF Dropping, BeforeSteps
  <2>5. hand[p].keys \cap KeysOf(live) = {}
    BY <2>4 DEF KeysSafe, Spared
  <2>6. objects' \subseteq objects /\ objects \ objects' \subseteq hand[p].keys
        /\ \A r \in Rounds : round'[r].new = round[r].new
    BY <2>1
  <2> QED
    BY <2>1, <2>2, <2>3, <2>4, <2>5, <2>6, CleanStep
<1>3. CASE DeleteRows(p) \/ Unstage(p)
  <2>1. PICK s : /\ pc[p] \in {"rows", "unstage"} /\ Go(p, s) /\ Hold(p, Nothing)
                 /\ s = hand[p].then \/ s = (IF p = Sweep THEN "window" ELSE "prune")
                 /\ history' \subseteq history /\ staged' \subseteq staged
                 /\ UNCHANGED <<live, pending, objects, lastKey, round, cut>>
    BY <1>3 DEF DeleteRows, Unstage, At, ghosts
  <2>2. s \notin BeforeSteps
    BY <1>0, <2>1 DEF Nexts, BeforeSteps
  <2>3. ~(p \in Rounds /\ Dropping(p)) /\ pc[p] # "idle"
    BY <2>1 DEF Dropping
  <2>4. Nothing.keys \cup KeysOf(Nothing.rows) = {} /\ Nothing.keys = {}
    BY HeldNothing
  <2>5. pending' \subseteq pending /\ objects' \subseteq objects /\ objects \ objects' \subseteq hand[p].keys
        /\ \A r \in Rounds : round'[r].new = round[r].new
    BY <2>1
  <2> QED
    BY <2>1, <2>2, <2>3, <2>4, <2>5, CleanStep
<1>4. CASE PurgeVersions(p)
  <2> DEFINE V == OfSlots(SlotsOf(Scope(p)) \ SlotsOf(live))
  <2>1. V \in SUBSET history
    BY DEF OfSlots
  <2>2. /\ CleanUp(p, { h.hid : h \in V }, "staged") /\ pc[p] = "purge"
        /\ UNCHANGED <<live, history, staged, pending, objects, lastKey, round, cut>>
    BY <1>4 DEF PurgeVersions, At, tables, ghosts
  <2> HIDE DEF V
  <2>3. { h.hid : h \in V } \in SUBSET Nat /\ "staged" \in Nexts /\ "staged" \notin BeforeSteps
    BY <1>0, <2>1, HidsTyped DEF Nexts, BeforeSteps
  <2>4. pc[p] # "idle" /\ ~(p \in Rounds /\ Dropping(p)) /\ \A r \in Rounds : round'[r].new = round[r].new
    BY <2>2 DEF Dropping
  <2> QED
    BY <2>2, <2>3, <2>4, CleanUpKeys
<1>5. CASE ReadStaged(p)
  <2> DEFINE keys == KeysOf(Scope(p)) \ (KeysOf(live) \cup KeysOf(history))
             h == [Nothing EXCEPT !.rows = Scope(p), !.keys = keys]
  <2>1. Scope(p) \in SUBSET staged
    BY DEF Scope
  <2>2. keys \in SUBSET Nat /\ Scope(p) \in SUBSET (StagedRow \cup Reservation)
    BY <1>0, <2>1, KeysTyped DEF TablesTyped
  <2>3. keys \subseteq KeysOf(staged) /\ keys \cap KeysOf(live) = {} /\ KeysOf(Scope(p)) \subseteq KeysOf(staged)
    BY <2>1, KeysGrow
  <2>4. /\ pc[p] = "staged" /\ Go(p, "erase") /\ Hold(p, h)
        /\ UNCHANGED <<live, history, staged, pending, objects, lastKey, round, cut>>
    BY <1>5 DEF ReadStaged, At, tables, ghosts
  <2> HIDE DEF keys
  <2>5. h = [hids |-> {}, keys |-> keys, rows |-> Scope(p), then |-> "idle"]
    BY <2>2, HeldDeletions
  <2> HIDE DEF h
  <2>6. h.keys \cup KeysOf(h.rows) \subseteq KeysOf(live) \cup KeysOf(history) \cup KeysOf(staged) \cup HeldKeys(p)
    BY <2>3, <2>5
  <2>7. ~(p \in Rounds /\ Dropping(p)) /\ "erase" \notin BeforeSteps /\ pc[p] # "idle"
    BY <2>4 DEF Dropping, BeforeSteps
  <2>8. objects' \subseteq objects /\ objects \ objects' \subseteq hand[p].keys /\ h.keys \cap KeysOf(live) = {}
        /\ \A r \in Rounds : round'[r].new = round[r].new
    BY <2>3, <2>4, <2>5
  <2> QED
    BY <2>4, <2>6, <2>7, <2>8, CleanStep
<1> QED
  BY <1>1, <1>2, <1>3, <1>4, <1>5 DEF Cleaning

LEMMA SweepKeys ==
    ASSUME Shaped, KeysSafe, SweepStep
    PROVE  KeysSafe'
<1>0. /\ PlacesTyped /\ TablesTyped /\ Sweep \in Processes /\ Sweep \notin Rounds /\ hand[Sweep] \in Held
      /\ hand[Sweep].keys \cap KeysOf(live) = {} /\ Locked
  BY SweepIs DEF Shaped, PlacesTyped, KeysSafe, Spared
<1>1. CASE StartSweep \/ Recount
  <2>1. PICK s \in {"purge", "abandoned"} :
            /\ Go(Sweep, s) /\ hand' = hand
            /\ UNCHANGED <<live, history, staged, pending, objects, lastKey, round, cut>>
    BY <1>1 DEF StartSweep, Recount, tables
  <2>2. Hold(Sweep, hand[Sweep])
    BY <1>0, <2>1, MovedOnly
  <2>3. /\ s \notin BeforeSteps /\ objects \ objects' \subseteq hand[Sweep].keys /\ objects' \subseteq objects
        /\ hand[Sweep].keys \cup KeysOf(hand[Sweep].rows)
                \subseteq KeysOf(live) \cup KeysOf(history) \cup KeysOf(staged) \cup HeldKeys(Sweep)
    BY <2>1 DEF BeforeSteps, HeldKeys
  <2>4. \A r \in Rounds : round'[r].new = round[r].new
    BY <2>1
  <2> QED
    BY <1>0, <2>1, <2>2, <2>3, <2>4, CleanStep
<1>2. CASE EnforceWindow
  <2>1. /\ CleanUp(Sweep, { h.hid : h \in Beyond(history, Window) }, "recount") /\ pc[Sweep] = "window"
        /\ UNCHANGED <<live, history, staged, pending, objects, lastKey, round, cut>>
    BY <1>2 DEF EnforceWindow, At, tables, ghosts
  <2>2. Beyond(history, Window) \in SUBSET history
    BY DEF Beyond
  <2>3. { h.hid : h \in Beyond(history, Window) } \in SUBSET Nat /\ "recount" \in Nexts /\ "recount" \notin BeforeSteps
    BY <1>0, <2>2, HidsTyped DEF Nexts, BeforeSteps
  <2>4. pc[Sweep] # "idle" /\ \A r \in Rounds : round'[r].new = round[r].new
    BY <2>1
  <2> QED
    BY <1>0, <2>1, <2>3, <2>4, CleanUpKeys
<1>3. CASE ReadAbandoned
  <2>1. PICK old \in SUBSET Aged : Hold(Sweep, [Nothing EXCEPT !.rows = { p \in old : ~Committed(p) }])
    BY <1>3 DEF ReadAbandoned
  <2> DEFINE records == { p \in old : ~Committed(p) }
             h == [Nothing EXCEPT !.rows = records]
  <2>2. records \subseteq Aged
    OBVIOUS
  <2>3. /\ Hold(Sweep, h) /\ Go(Sweep, "release")
        /\ UNCHANGED <<live, history, staged, pending, objects, lastKey, round, cut>>
    BY <1>3, <2>1 DEF ReadAbandoned, tables, ghosts
  <2> HIDE DEF records
  <2>4. h = [hids |-> {}, keys |-> {}, rows |-> records, then |-> "idle"]
    BY HeldPart
  <2> HIDE DEF h
  <2>5. h.keys = {} /\ h.rows = records
    BY <2>4
  <2>6. KeysOf(records) \subseteq KeysOf(pending) /\ \A r \in Rounds : KeysOf(records) \cap KeysOf(round[r].new) = {}
    BY <2>2 DEF Aged, KeysOf
  <2>7. KeysOf(records) \subseteq 1 .. lastKey
    BY <2>6 DEF KeysSafe, KeysGiven
  <2>8. Locked' /\ "release" \notin BeforeSteps
    BY <1>0, <2>3, LockKept DEF BeforeSteps
  <2>9. \A r \in Rounds : (Before(r)' => Before(r) /\ r # Sweep) /\ (pc'[r] = "commit" => pc[r] = "commit")
    BY <1>0, <2>3, <2>8, NotBefore
  <2>10. Shrinks(Sweep, "release", h)
    BY <1>0, <2>3, <2>5, <2>6, <2>7, <2>8, <2>9 DEF Shrinks
  <2> QED
    BY <1>0, <2>10, ShrinksSafely
<1>4. CASE ReleaseReservations
  <2> DEFINE mine == pending \cap hand[Sweep].rows
             h == [Nothing EXCEPT !.keys = KeysOf(mine)]
  <2>1. /\ Go(Sweep, "reclaim") /\ Hold(Sweep, h) /\ pending' \subseteq pending
        /\ UNCHANGED <<live, history, staged, objects, lastKey, round, cut>>
    BY <1>4 DEF ReleaseReservations, ghosts
  <2>2. KeysOf(mine) \subseteq HeldKeys(Sweep) /\ KeysOf(mine) \subseteq KeysOf(pending)
    BY DEF KeysOf, HeldKeys
  <2> HIDE DEF mine
  <2>3. h = [hids |-> {}, keys |-> KeysOf(mine), rows |-> {}, then |-> "idle"]
    BY HeldPart
  <2> HIDE DEF h
  <2>4. h.keys = KeysOf(mine) /\ KeysOf(h.rows) = {}
    BY <2>3, HeldNothing
  <2>5. h.keys \cap KeysOf(live) = {}
    BY <2>2, <2>4 DEF KeysSafe
  <2>6. h.keys \cup KeysOf(h.rows) \subseteq KeysOf(live) \cup KeysOf(history) \cup KeysOf(staged) \cup HeldKeys(Sweep)
    BY <2>2, <2>4
  <2>7. /\ "reclaim" \notin BeforeSteps /\ objects \ objects' \subseteq hand[Sweep].keys /\ objects' \subseteq objects
        /\ history' \subseteq history /\ staged' \subseteq staged
        /\ \A r \in Rounds : round'[r].new = round[r].new
    BY <2>1 DEF BeforeSteps
  <2> QED
    BY <1>0, <2>1, <2>5, <2>6, <2>7, CleanStep
<1>5. CASE ReclaimObjects
  <2>1. /\ Go(Sweep, "idle") /\ Hold(Sweep, Nothing) /\ objects' = objects \ hand[Sweep].keys
        /\ UNCHANGED <<live, history, staged, pending, lastKey, round, cut>>
    BY <1>5 DEF ReclaimObjects, tables, ghosts
  <2>2. Nothing.keys \cup KeysOf(Nothing.rows) = {} /\ Nothing.keys = {}
    BY HeldNothing
  <2>3. /\ "idle" \notin BeforeSteps /\ objects \ objects' \subseteq hand[Sweep].keys /\ objects' \subseteq objects
        /\ history' \subseteq history /\ staged' \subseteq staged /\ pending' \subseteq pending
        /\ \A r \in Rounds : round'[r].new = round[r].new
    BY <2>1 DEF BeforeSteps
  <2> QED
    BY <1>0, <2>1, <2>2, <2>3, CleanStep
<1> QED
  BY <1>1, <1>2, <1>3, <1>4, <1>5 DEF SweepStep

LEMMA CutKeys ==
    ASSUME Shaped, KeysSafe, NEW p \in Processes, CutShort(p)
    PROVE  KeysSafe'
<1>0. PlacesTyped /\ RoundsTyped /\ Locked
  BY DEF Shaped, KeysSafe
<1>1. /\ Go(p, "idle") /\ Hold(p, Nothing) /\ pc[p] # "idle" /\ cut' = (cut \/ At(p, "dropRows"))
      /\ round' = [r \in Rounds |-> IF r = p THEN NoRound ELSE round[r]]
      /\ UNCHANGED <<live, history, staged, pending, objects, lastKey>>
  BY DEF CutShort, tables, At
<1>2. Locked' /\ "idle" \notin BeforeSteps
  BY <1>0, <1>1, LockKept DEF BeforeSteps
<1>3. \A r \in Rounds : (Before(r)' => Before(r) /\ r # p) /\ (pc'[r] = "commit" => pc[r] = "commit")
  BY <1>0, <1>1, <1>2, NotBefore
<1>4. \A r \in Rounds : r # p => round'[r] = round[r]
  BY <1>1
<1>5. \A r \in Rounds : r = p => round'[r].new = {}
  BY <1>1, NoRoundIs
<1>6. \A r \in Rounds : KeysOf(round'[r].new) \subseteq KeysOf(round[r].new)
  BY <1>4, <1>5, HeldNothing
<1>7. Nothing.keys \cup KeysOf(Nothing.rows) = {} /\ Nothing.keys = {}
  BY HeldNothing
<1>8. Shrinks(p, "idle", Nothing)
  BY <1>1, <1>2, <1>3, <1>4, <1>6, <1>7 DEF Shrinks, At
<1> QED
  BY <1>8, ShrinksSafely

\* A round that begins writes under keys that were never given out.
LEMMA BeginKeys ==
    ASSUME Shaped, KeysSafe, NEW r \in Rounds, NEW b \in Batches, Begin(r, b)
    PROVE  KeysSafe'
<1> DEFINE new == NewEnvelopes(b)
           mine == { p \in pending : \E n \in new : n.id = p.id }
           s == IF new = {} THEN "commit" ELSE "supersede"
           h == [Nothing EXCEPT !.keys = KeysOf(mine)]
<1>0. PlacesTyped /\ TablesTyped /\ RoundsTyped /\ r \in Processes /\ Locked
  BY SweepIs DEF Shaped, KeysSafe
<1>1. /\ Idle /\ Go(r, s) /\ Hold(r, h) /\ lastKey' = lastKey + Cardinality(new)
      /\ UNCHANGED <<live, history, staged, pending, objects, cut>>
  BY DEF Begin, LockFree, tables
<1>2. /\ round'[r].new = new /\ \A q \in Rounds : q # r => round'[q] = round[q]
  <2>1. Remembers(round'[r], b) /\ round' = [round EXCEPT ![r] = round'[r]]
    BY <1>0, BeginIs
  <2> DEFINE m == round'[r]
  <2>2. Remembers(m, b) /\ round' = [round EXCEPT ![r] = m]
    BY <2>1
  <2> HIDE DEF m
  <2> QED
    BY <1>0, <2>2 DEF Remembers, RoundsTyped
<1>3. KeysOf(new) \subseteq (lastKey + 1) .. (lastKey + Cardinality(new)) /\ Cardinality(new) \in Nat
  BY <1>0, NewEnvelopesAre DEF NewFit
<1>4. KeysOf(mine) \subseteq KeysOf(pending) /\ (new = {} => KeysOf(new) = {})
  BY DEF KeysOf
<1> HIDE DEF new, mine
<1>5. h = [hids |-> {}, keys |-> KeysOf(mine), rows |-> {}, then |-> "idle"]
  BY HeldPart
<1> HIDE DEF h
<1>6. h.keys = KeysOf(mine) /\ KeysOf(h.rows) = {}
  BY <1>5, HeldNothing
<1>7. s \in BeforeSteps /\ (s = "commit" => KeysOf(new) = {}) /\ s \notin {"idle", "drop", "dropRows"}
  BY <1>4 DEF BeforeSteps
<1> HIDE DEF s
<1>8. /\ pc'[r] = s /\ \A q \in Processes : q # r => pc'[q] = pc[q]
      /\ hand'[r] = h /\ \A q \in Processes : q # r => hand'[q] = hand[q]
  BY <1>0, <1>1, MovesOne, HoldsOne
<1>9. \A q \in Rounds : q # r => pc'[q] = "idle"
  BY <1>1, <1>8, SweepIs DEF Idle, At
<1>10. \A q \in Processes : HeldKeys(q)' = IF q = r THEN KeysOf(mine) ELSE HeldKeys(q)
  BY <1>6, <1>8 DEF HeldKeys
<1>11. lastKey \in Nat /\ 1 .. lastKey \subseteq 1 .. lastKey'
  BY <1>0, <1>1, <1>3 DEF TablesTyped
<1>12. /\ objects \cup KeysOf(live) \cup KeysOf(history) \cup KeysOf(staged) \cup KeysOf(pending)
                \subseteq 1 .. lastKey
       /\ \A q \in Processes : HeldKeys(q)' \subseteq 1 .. lastKey
  BY <1>4, <1>10 DEF KeysSafe, KeysGiven
<1>13. KeysOf(new) \subseteq 1 .. lastKey' /\ KeysOf(new) \cap (1 .. lastKey) = {}
  <2>1. \A k \in (lastKey + 1) .. (lastKey + Cardinality(new)) : k \in 1 .. lastKey' /\ ~(k \in 1 .. lastKey)
    BY <1>1, <1>3, <1>11
  <2> QED
    BY <1>3, <2>1
<1>14. KeysGiven'
  <2>1. \A q \in Rounds : KeysOf(round'[q].new) \subseteq 1 .. lastKey'
    BY <1>2, <1>11, <1>13 DEF KeysSafe, KeysGiven
  <2> QED
    BY <1>1, <1>11, <1>12, <2>1 DEF KeysGiven
<1>15. OwnKeys(r)'
  <2>1. KeysOf(round'[r].new) \cap (KeysOf(live') \cup KeysOf(history') \cup KeysOf(staged')) = {}
    BY <1>1, <1>2, <1>12, <1>13
  <2>2. \A q \in Processes : KeysOf(round'[r].new) \cap HeldKeys(q)' = {}
    BY <1>2, <1>12, <1>13
  <2>3. \A x \in pending' : x.key \notin KeysOf(round'[r].new)
    BY <1>1, <1>2, <1>12, <1>13 DEF KeysOf
  <2> QED
    BY <2>1, <2>2, <2>3 DEF OwnKeys
<1>16. \A q \in Rounds : Before(q)' => OwnKeys(q)'
  BY <1>9, <1>15 DEF Before
<1>17. \A q \in Rounds : pc'[q] = "commit" => KeysOf(round'[q].new) \subseteq objects'
  BY <1>2, <1>7, <1>8, <1>9
<1>18. \A q \in Processes : Spared(q)'
  <2>1. h.keys \cap KeysOf(live) = {}
    BY <1>4, <1>6 DEF KeysSafe
  <2>2. \A q \in Processes : Spared(q)
    BY DEF KeysSafe
  <2>3. ASSUME NEW q \in Processes, q # r PROVE Spared(q)'
    <3>1. Spared(q) /\ pc'[q] = pc[q] /\ hand'[q] = hand[q] /\ live' = live
      BY <1>1, <1>8, <2>2, <2>3
    <3> QED
      BY <3>1 DEF Spared, Dropping
  <2>4. Spared(r)'
    BY <1>1, <1>8, <2>1 DEF Spared
  <2> QED
    BY <2>3, <2>4
<1>19. LiveReadable'
  <2>1. cut \/ KeysOf(live) \subseteq objects
    BY <1>1 DEF KeysSafe, LiveReadable, Idle, At
  <2> QED
    BY <1>1, <2>1 DEF LiveReadable
<1>20. Locked'
  BY <1>0, <1>1, LockKept
<1>21. KeysOf(pending') \cap KeysOf(live') = {}
  BY <1>1 DEF KeysSafe
<1> QED
  BY <1>14, <1>16, <1>17, <1>18, <1>19, <1>20, <1>21 DEF KeysSafe

\* While a round holds the lock no other is under way.
LEMMA Others ==
    ASSUME PlacesTyped, Locked, NEW r \in Rounds, pc[r] # "idle", NEW s, Go(r, s)
    PROVE  /\ pc'[r] = s /\ \A q \in Processes : q # r => pc'[q] = pc[q]
           /\ \A q \in Rounds : q # r => pc[q] = "idle" /\ pc'[q] = "idle"
           /\ Locked' /\ r \in Processes
<1>1. r \in Processes /\ \A q \in Rounds : q \in Processes
  BY SweepIs
<1>2. pc'[r] = s /\ \A q \in Processes : q # r => pc'[q] = pc[q]
  BY <1>1, MovesOne
<1>3. \A q \in Rounds : q # r => pc[q] = "idle"
  BY DEF Locked
<1> QED
  BY <1>1, <1>2, <1>3 DEF Locked

LEMMA DropSupersededKeys ==
    ASSUME Shaped, KeysSafe, NEW r \in Rounds, DropSuperseded(r)
    PROVE  KeysSafe'
<1>0. PlacesTyped /\ Locked /\ r \in Processes
  BY SweepIs DEF Shaped, KeysSafe
<1>1. /\ pc[r] = "supersede" /\ Go(r, "reserve") /\ Hold(r, Nothing) /\ objects' = objects \ hand[r].keys
      /\ UNCHANGED <<live, history, staged, pending, lastKey, round, cut>>
  BY DEF DropSuperseded, At, tables, ghosts
<1>2. /\ pc'[r] = "reserve" /\ \A q \in Rounds : q # r => pc'[q] = "idle"
      /\ Locked'
  BY <1>0, <1>1, Others
<1>3. Nothing.keys \cup KeysOf(Nothing.rows) = {} /\ Nothing.keys = {}
  BY HeldNothing
<1>4. \A q \in Rounds : (Before(q)' => Before(q)) /\ pc'[q] # "commit"
  BY <1>1, <1>2 DEF Before
<1>5. Shrinks(r, "reserve", Nothing)
  BY <1>1, <1>2, <1>3, <1>4 DEF Shrinks, Dropping
<1> QED
  BY <1>0, <1>5, ShrinksSafely

LEMMA ReserveKeys ==
    ASSUME Shaped, KeysSafe, NEW r \in Rounds, Reserve(r)
    PROVE  KeysSafe'
<1> DEFINE new == round[r].new
           mine == { [id |-> n.id, key |-> n.key] : n \in new }
           rest == { p \in pending : \A n \in new : n.id # p.id }
<1>0. PlacesTyped /\ Locked /\ r \in Processes
  BY SweepIs DEF Shaped, KeysSafe
<1>1. /\ pc[r] = "reserve" /\ Go(r, "put") /\ pending' = rest \cup mine
      /\ UNCHANGED <<live, history, staged, lastKey, round, cut, hand, objects>>
  BY DEF Reserve, At, ghosts
<1>2. /\ pc'[r] = "put" /\ (\A q \in Processes : q # r => pc'[q] = pc[q])
      /\ (\A q \in Rounds : q # r => pc'[q] = "idle" /\ pc[q] = "idle") /\ Locked'
  BY <1>0, <1>1, Others
<1>3. Before(r) /\ OwnKeys(r)
  BY <1>1 DEF KeysSafe, Before
<1>4. /\ KeysOf(pending') \subseteq KeysOf(pending) \cup KeysOf(new)
      /\ \A x \in pending' : x \in pending \/ \E n \in new : n.id = x.id
  BY <1>1 DEF KeysOf
<1>5. KeysGiven'
  <2>1. \A q \in Processes : HeldKeys(q)' = HeldKeys(q)
    BY <1>1 DEF HeldKeys
  <2>2. KeysOf(pending') \subseteq 1 .. lastKey
    BY <1>4 DEF KeysSafe, KeysGiven
  <2> QED
    BY <1>1, <2>1, <2>2 DEF KeysSafe, KeysGiven
<1>6. OwnKeys(r)'
  <2>1. \A q \in Processes : HeldKeys(q)' = HeldKeys(q)
    BY <1>1 DEF HeldKeys
  <2> QED
    BY <1>1, <1>3, <1>4, <2>1 DEF OwnKeys
<1>7. \A q \in Rounds : Before(q)' => OwnKeys(q)'
  BY <1>2, <1>6 DEF Before
<1>8. KeysOf(pending') \cap KeysOf(live') = {}
  BY <1>1, <1>3, <1>4 DEF KeysSafe, OwnKeys
<1>9. \A q \in Processes : Spared(q)'
  <2>1. \A q \in Processes : pc'[q] = pc[q] \/ q = r
    BY <1>2
  <2>2. Spared(r)'
    BY <1>0, <1>1 DEF KeysSafe, Spared, Dropping
  <2>3. \A q \in Processes : Spared(q)
    BY DEF KeysSafe
  <2> QED
    BY <1>1, <2>1, <2>2, <2>3 DEF Spared, Dropping
<1>10. LiveReadable'
  <2>1. cut \/ KeysOf(live) \subseteq objects
    BY <1>1, <1>2 DEF KeysSafe, LiveReadable, At
  <2> QED
    BY <1>1, <2>1 DEF LiveReadable
<1>11. \A q \in Rounds : pc'[q] = "commit" => KeysOf(round'[q].new) \subseteq objects'
  BY <1>2
<1> QED
  BY <1>2, <1>5, <1>7, <1>8, <1>9, <1>10, <1>11 DEF KeysSafe

LEMMA PutObjectKeys ==
    ASSUME Shaped, KeysSafe, NEW r \in Rounds, PutObject(r)
    PROVE  KeysSafe'
<1>0. PlacesTyped /\ Locked /\ r \in Processes
  BY SweepIs DEF Shaped, KeysSafe
<1>1. PICK k \in KeysOf(round[r].new), s \in {"put", "commit"} :
        /\ pc[r] = "put" /\ Go(r, s) /\ objects' = objects \cup {k}
        /\ s = "commit" => KeysOf(round[r].new) \subseteq objects'
        /\ UNCHANGED <<live, history, staged, pending, lastKey, round, cut, hand>>
  BY DEF PutObject, At, tables, ghosts
<1>2. /\ pc'[r] = s /\ (\A q \in Processes : q # r => pc'[q] = pc[q])
      /\ (\A q \in Rounds : q # r => pc'[q] = "idle" /\ pc[q] = "idle") /\ Locked'
  BY <1>0, <1>1, Others
<1>3. Before(r) /\ OwnKeys(r) /\ \A q \in Processes : HeldKeys(q)' = HeldKeys(q)
  BY <1>1 DEF KeysSafe, Before, HeldKeys
<1>4. KeysGiven'
  <2>1. k \in 1 .. lastKey
    BY <1>1 DEF KeysSafe, KeysGiven
  <2> QED
    BY <1>1, <1>3, <2>1 DEF KeysSafe, KeysGiven
<1>5. \A q \in Rounds : Before(q)' => OwnKeys(q)'
  <2>1. OwnKeys(r)'
    BY <1>1, <1>3 DEF OwnKeys
  <2> QED
    BY <1>2, <2>1 DEF Before
<1>6. \A q \in Processes : Spared(q)'
  <2>1. Spared(r)'
    BY <1>0, <1>1 DEF KeysSafe, Spared, Dropping
  <2>2. \A q \in Processes : Spared(q)
    BY DEF KeysSafe
  <2> QED
    BY <1>1, <1>2, <2>1, <2>2 DEF Spared, Dropping
<1>7. LiveReadable'
  <2>1. cut \/ KeysOf(live) \subseteq objects
    BY <1>1, <1>2 DEF KeysSafe, LiveReadable, At
  <2> QED
    BY <1>1, <2>1 DEF LiveReadable
<1>8. \A q \in Rounds : pc'[q] = "commit" => KeysOf(round'[q].new) \subseteq objects'
  BY <1>1, <1>2
<1>9. KeysOf(pending') \cap KeysOf(live') = {}
  BY <1>1 DEF KeysSafe
<1> QED
  BY <1>2, <1>4, <1>5, <1>6, <1>7, <1>8, <1>9 DEF KeysSafe

\* The commit makes live what has its objects, and what nobody is about to delete.
LEMMA CommitKeys ==
    ASSUME Shaped, KeysSafe, Sound, NEW r \in Rounds, Commit(r)
    PROVE  KeysSafe'
<1> DEFINE new == round[r].new
<1>0. PlacesTyped /\ TablesTyped /\ RoundsTyped /\ Locked /\ r \in Processes
  BY SweepIs DEF Shaped, KeysSafe
<1>1. PICK s \in {"purge", "prune"} :
        /\ pc[r] = "commit" /\ Go(r, s) /\ live' = (Left(r) \ Prior(r)) \cup new
        /\ staged' = Staged(round[r].removed) /\ history' = history \cup Versions(new, Prior(r))
        /\ pending' = { p \in pending : \A n \in new : n.id # p.id }
        /\ UNCHANGED <<objects, lastKey, round, hand, cut>>
  BY CommitIs DEF ghosts
<1>2. /\ pc'[r] = s /\ (\A q \in Processes : q # r => pc'[q] = pc[q])
      /\ (\A q \in Rounds : q # r => pc'[q] = "idle" /\ pc[q] = "idle") /\ Locked'
  BY <1>0, <1>1, Others
<1>3. /\ Before(r) /\ OwnKeys(r) /\ KeysOf(new) \subseteq objects
      /\ \A q \in Processes : HeldKeys(q)' = HeldKeys(q)
  BY <1>1 DEF KeysSafe, Before, HeldKeys
<1>4. /\ KeysOf(live') \subseteq KeysOf(live) \cup KeysOf(new) /\ KeysOf(pending') \subseteq KeysOf(pending)
  BY <1>1 DEF KeysOf, Left
<1>5. KeysOf(history') \subseteq KeysOf(history) \cup KeysOf(live) \cup KeysOf(new)
  <2>1. Prior(r) \subseteq live
    BY DEF Prior, Left
  <2>2. ASSUME NEW h \in Versions(new, Prior(r)) PROVE h.key \in KeysOf(live) \cup KeysOf(new)
    <3>1. PICK n \in new :
            \/ h = Version(lastHid + 2 * Rank(new, n), n)
            \/ \E l \in Unsaved(n, Prior(r)) : h = Version(lastHid + 2 * Rank(new, n) - 1, l)
      BY VersionsAre
    <3>2. \A k, x : Version(k, x).key = x.key
      BY DEF Version
    <3>3. Unsaved(n, Prior(r)) \subseteq Prior(r)
      BY DEF Unsaved
    <3> QED
      BY <2>1, <3>1, <3>2, <3>3 DEF KeysOf
  <2> QED
    BY <1>1, <2>2 DEF KeysOf
<1>6. KeysOf(staged') \subseteq KeysOf(staged) \cup KeysOf(round[r].removed)
  BY <1>1 DEF Staged, StagedCopies, KeysOf
<1>7. KeysGiven'
  <2>1. round[r].removed \subseteq live
    BY <1>3 DEF Sound, Decided, Decides
  <2>2. KeysOf(round[r].removed) \subseteq KeysOf(live)
    BY <2>1, KeysGrow
  <2>3. objects' \cup KeysOf(live') \cup KeysOf(history') \cup KeysOf(staged') \cup KeysOf(pending')
            \subseteq 1 .. lastKey
    BY <1>1, <1>4, <1>5, <1>6, <2>2 DEF KeysSafe, KeysGiven
  <2> QED
    BY <1>1, <1>3, <2>3 DEF KeysSafe, KeysGiven
<1>8. \A q \in Rounds : ~Before(q)' /\ pc'[q] # "commit"
  BY <1>1, <1>2 DEF Before
<1>9. KeysOf(pending') \cap KeysOf(live') = {}
  <2>1. ASSUME NEW x \in pending' PROVE x.key \notin KeysOf(new)
    BY <1>1, <1>3 DEF OwnKeys
  <2>2. KeysOf(pending') \cap KeysOf(new) = {}
    BY <2>1 DEF KeysOf
  <2> QED
    BY <1>4, <2>2 DEF KeysSafe
<1>10. ASSUME NEW q \in Processes PROVE Spared(q)'
  <2>1. ~(q \in Rounds /\ Dropping(q))
    BY <1>1, <1>2 DEF Dropping
  <2>2. hand[q].keys \cap KeysOf(live) = {} /\ hand[q].keys \subseteq HeldKeys(q)
    BY <2>1 DEF KeysSafe, Spared, HeldKeys
  <2>3. hand[q].keys \cap KeysOf(new) = {}
    BY <1>3, <2>2 DEF OwnKeys
  <2> QED
    BY <1>1, <1>4, <2>2, <2>3 DEF Spared
<1>11. LiveReadable'
  <2>1. cut \/ KeysOf(live) \subseteq objects
    BY <1>1, <1>2 DEF KeysSafe, LiveReadable, At
  <2> QED
    BY <1>1, <1>3, <1>4, <2>1 DEF LiveReadable
<1> QED
  BY <1>2, <1>7, <1>8, <1>9, <1>10, <1>11 DEF KeysSafe

LEMMA BeyondIn == ASSUME NEW V, NEW n PROVE Beyond(V, n) \in SUBSET V
BY DEF Beyond

LEMMA PruneKeys ==
    ASSUME Shaped, KeysSafe, NEW r \in Rounds, PruneHistory(r)
    PROVE  KeysSafe'
<1> DEFINE V == Beyond({ h \in OfSlots(WrittenSlots(round[r].new, round[r].batch)) : h.id \notin round[r].continued }, Window)
                \cup { h \in history : h.id \in round[r].continued }
<1>1. V \in SUBSET history
  BY BeyondIn DEF OfSlots
<1>2. /\ CleanUp(r, { h.hid : h \in V }, "count") /\ pc[r] = "prune"
      /\ UNCHANGED <<live, history, staged, pending, objects, lastKey, round, cut>>
  BY DEF PruneHistory, At, tables, ghosts
<1> HIDE DEF V
<1>3. { h.hid : h \in V } \in SUBSET Nat /\ "count" \in Nexts /\ "count" \notin BeforeSteps
  BY <1>1, HidsTyped DEF Shaped, Nexts, BeforeSteps
<1>4. r \in Processes /\ pc[r] # "idle" /\ ~(r \in Rounds /\ Dropping(r))
      /\ \A q \in Rounds : round'[q].new = round[q].new
  BY <1>2, SweepIs DEF Dropping
<1> QED
  BY <1>2, <1>3, <1>4, CleanUpKeys

LEMMA CountKeys ==
    ASSUME Shaped, KeysSafe, NEW r \in Rounds, CountVersions(r)
    PROVE  KeysSafe'
<1> DEFINE total == Plus(round[r].seen, Minus(Counted(OfSlots(WrittenSlots(round[r].new, round[r].batch))), round[r].before))
           u == Minus(total, Counted(Evicted(total)))
           V == Evicted(total)
<1>1. V \in SUBSET history
  BY DEF Evicted, OlderVersions
<1>2. /\ CleanUp(r, { h.hid : h \in V }, "usage") /\ pc[r] = "count"
      /\ round' = [round EXCEPT ![r].now = u]
      /\ UNCHANGED <<live, history, staged, pending, objects, lastKey, cut>>
  BY DEF CountVersions, At, tables, ghosts
<1>3. u \in UsageRow
  BY CountedNow
<1> HIDE DEF V, u
<1>4. { h.hid : h \in V } \in SUBSET Nat /\ "usage" \in Nexts /\ "usage" \notin BeforeSteps
  BY <1>1, HidsTyped DEF Shaped, Nexts, BeforeSteps
<1>5. \A q \in Rounds : round'[q].new = round[q].new
  <2>1. round'[r].new = round[r].new /\ \A q \in Rounds : q # r => round'[q] = round[q]
    BY <1>2, <1>3, CountIs DEF Shaped
  <2> QED
    BY <2>1
<1>6. r \in Processes /\ pc[r] # "idle" /\ ~(r \in Rounds /\ Dropping(r))
  BY <1>2, SweepIs DEF Dropping
<1> QED
  BY <1>2, <1>4, <1>5, <1>6, CleanUpKeys

LEMMA WriteUsageKeys ==
    ASSUME Shaped, KeysSafe, NEW r \in Rounds, WriteUsage(r)
    PROVE  KeysSafe'
<1>0. PlacesTyped /\ r \in Processes /\ FitsAt(r, pc[r], hand[r])
  BY SweepIs DEF Shaped, PlacesTyped
<1>1. /\ pc[r] = "usage" /\ Go(r, "idle") /\ hand' = hand /\ round' = [round EXCEPT ![r] = NoRound]
      /\ UNCHANGED <<live, history, staged, pending, objects, lastKey, cut>>
  BY DEF WriteUsage, At, ghosts
<1>2. Hold(r, hand[r]) /\ hand[r].keys = {}
  BY <1>0, <1>1, MovedOnly DEF FitsAt
<1>3. \A q \in Rounds : round'[q].new = round[q].new \/ (q = r /\ round'[q].new = {})
  <2>1. round'[r] = NoRound /\ \A q \in Rounds : q # r => round'[q] = round[q]
    BY <1>1 DEF Shaped, RoundsTyped
  <2> QED
    BY <2>1, NoRoundIs
<1>4. /\ "idle" \notin BeforeSteps /\ pc[r] # "idle" /\ ~(r \in Rounds /\ Dropping(r))
      /\ hand[r].keys \cup KeysOf(hand[r].rows) \subseteq KeysOf(live) \cup KeysOf(history) \cup KeysOf(staged) \cup HeldKeys(r)
      /\ hand[r].keys \cap KeysOf(live) = {} /\ objects \ objects' \subseteq hand[r].keys
      /\ history' \subseteq history /\ staged' \subseteq staged /\ pending' \subseteq pending /\ objects' \subseteq objects
  BY <1>1, <1>2 DEF BeforeSteps, Dropping, HeldKeys
<1> QED
  BY <1>0, <1>1, <1>2, <1>3, <1>4, CleanStep

LEMMA DeleteAccountKeys ==
    ASSUME Shaped, KeysSafe, NEW r \in Rounds, DeleteAccount(r)
    PROVE  KeysSafe'
<1> DEFINE keys == KeysOf(live) \cup KeysOf(staged) \cup KeysOf(history) \cup KeysOf(pending)
           h == [Nothing EXCEPT !.keys = keys]
<1>0. PlacesTyped /\ r \in Processes /\ Locked
  BY SweepIs DEF Shaped, KeysSafe
<1>1. /\ Idle /\ Go(r, "drop") /\ Hold(r, h)
      /\ UNCHANGED <<live, history, staged, pending, objects, lastKey, round, cut>>
  BY DEF DeleteAccount, LockFree, tables, ghosts
<1>2. keys \subseteq 1 .. lastKey
  BY DEF KeysSafe, KeysGiven
<1> HIDE DEF keys
<1>3. h = [hids |-> {}, keys |-> keys, rows |-> {}, then |-> "idle"]
  BY HeldPart
<1> HIDE DEF h
<1>4. h.keys \cup KeysOf(h.rows) \subseteq 1 .. lastKey
  BY <1>2, <1>3, HeldNothing
<1>5. /\ pc'[r] = "drop" /\ \A q \in Processes : q # r => pc'[q] = pc[q]
  BY <1>0, <1>1, MovesOne
<1>6. \A q \in Rounds : ~Before(q)' /\ pc'[q] # "commit" /\ pc[q] = "idle"
  BY <1>1, <1>5, SweepIs DEF Before, Idle, At
<1>7. Locked'
  BY <1>0, <1>1, LockKept
<1>8. Shrinks(r, "drop", h)
  BY <1>1, <1>4, <1>6, <1>7 DEF Shrinks, Dropping
<1> QED
  BY <1>0, <1>8, ShrinksSafely

LEMMA DropObjectsKeys ==
    ASSUME Shaped, KeysSafe, NEW r \in Rounds, DropObjects(r)
    PROVE  KeysSafe'
<1>0. PlacesTyped /\ r \in Processes /\ Locked
  BY SweepIs DEF Shaped, KeysSafe
<1>1. /\ pc[r] = "drop" /\ Go(r, "dropRows") /\ hand' = hand /\ objects' = objects \ hand[r].keys
      /\ UNCHANGED <<live, history, staged, pending, lastKey, round, cut>>
  BY DEF DropObjects, At, tables, ghosts
<1>2. Hold(r, hand[r])
  BY <1>0, <1>1, MovedOnly
<1>3. /\ pc'[r] = "dropRows" /\ (\A q \in Rounds : q # r => pc'[q] = "idle") /\ Locked'
  BY <1>0, <1>1, Others
<1>4. \A q \in Rounds : ~Before(q)' /\ pc'[q] # "commit"
  BY <1>3 DEF Before
<1>5. hand[r].keys \cup KeysOf(hand[r].rows) \subseteq 1 .. lastKey
  BY <1>0 DEF KeysSafe, KeysGiven, HeldKeys
<1>6. Shrinks(r, "dropRows", hand[r])
  BY <1>1, <1>2, <1>3, <1>4, <1>5 DEF Shrinks, Dropping
<1> QED
  BY <1>0, <1>6, ShrinksSafely

LEMMA DropRowsKeys ==
    ASSUME Shaped, KeysSafe, NEW r \in Rounds, DropRows(r)
    PROVE  KeysSafe'
<1>0. PlacesTyped /\ r \in Processes /\ Locked
  BY SweepIs DEF Shaped, KeysSafe
<1>1. /\ pc[r] = "dropRows" /\ Go(r, "idle") /\ Hold(r, Nothing)
      /\ live' = {} /\ history' = {} /\ staged' = {} /\ pending' = {}
      /\ UNCHANGED <<objects, lastKey, round>>
  BY DEF DropRows, At
<1>2. /\ pc'[r] = "idle" /\ (\A q \in Rounds : q # r => pc'[q] = "idle") /\ Locked'
  BY <1>0, <1>1, Others
<1>3. /\ hand'[r] = Nothing /\ \A q \in Processes : q # r => hand'[q] = hand[q]
  BY <1>0, <1>1, HoldsOne
<1>4. KeysOf({}) = {} /\ HeldKeys(r)' = {}
  BY <1>3, HeldNothing DEF HeldKeys
<1>5. \A q \in Processes : HeldKeys(q)' \subseteq HeldKeys(q)
  <2>1. \A q \in Processes : q # r => HeldKeys(q)' = HeldKeys(q)
    BY <1>3 DEF HeldKeys
  <2> QED
    BY <1>4, <2>1
<1>6. KeysGiven'
  BY <1>1, <1>4, <1>5 DEF KeysSafe, KeysGiven
<1>7. \A q \in Rounds : ~Before(q)' /\ pc'[q] # "commit"
  BY <1>2 DEF Before
<1>8. \A q \in Processes : Spared(q)'
  BY <1>1, <1>4 DEF Spared
<1>9. LiveReadable' /\ KeysOf(pending') \cap KeysOf(live') = {}
  BY <1>1, <1>4 DEF LiveReadable
<1> QED
  BY <1>2, <1>6, <1>7, <1>8, <1>9 DEF KeysSafe

\* Nothing that is about keys changes.
LEMMA SameKeys ==
    ASSUME KeysSafe, UNCHANGED <<live, history, staged, pending, objects, lastKey, pc, hand, round, cut>>
    PROVE  KeysSafe'
<1>1. \A p \in Processes : HeldKeys(p)' = HeldKeys(p) /\ (Spared(p) => Spared(p)')
  BY DEF HeldKeys, Spared, Dropping
<1>2. \A r \in Rounds : Before(r)' = Before(r) /\ (OwnKeys(r) => OwnKeys(r)')
  BY <1>1 DEF Before, OwnKeys
<1>3. Locked' /\ KeysGiven' /\ LiveReadable'
  BY <1>1 DEF KeysSafe, Locked, KeysGiven, LiveReadable, At
<1> QED
  BY <1>1, <1>2, <1>3 DEF KeysSafe

LEMMA RoundStepKeys ==
    ASSUME Shaped, KeysSafe, Sound, NEW r \in Rounds, RoundStep(r)
    PROVE  KeysSafe'
<1>1. CASE \E b \in Batches : Begin(r, b)
  BY <1>1, BeginKeys
<1>2. CASE DropSuperseded(r) \/ Reserve(r) \/ PutObject(r) \/ Commit(r)
  BY <1>2, DropSupersededKeys, ReserveKeys, PutObjectKeys, CommitKeys
<1>3. CASE PruneHistory(r) \/ CountVersions(r) \/ WriteUsage(r)
  BY <1>3, PruneKeys, CountKeys, WriteUsageKeys
<1>4. CASE DeleteAccount(r) \/ DropObjects(r) \/ DropRows(r)
  BY <1>4, DeleteAccountKeys, DropObjectsKeys, DropRowsKeys
<1> QED
  BY <1>1, <1>2, <1>3, <1>4 DEF RoundStep

LEMMA KeysStaySafe ==
    ASSUME Shaped, KeysSafe, Sound, Next
    PROVE  KeysSafe'
<1>1. CASE CreateAccount
  <2>1. UNCHANGED <<live, history, staged, pending, objects, lastKey, pc, hand, round, cut>>
    BY <1>1 DEF CreateAccount, ghosts
  <2> QED
    BY <2>1, SameKeys
<1>2. CASE SweepStep \/ \E r \in Rounds : RoundStep(r)
  BY <1>2, SweepKeys, RoundStepKeys
<1>3. CASE \E p \in Processes : Cleaning(p) \/ CutShort(p)
  BY <1>3, CleaningKeys, CutKeys
<1> QED
  BY <1>1, <1>2, <1>3 DEF Next

LEMMA KeysSafeAtFirst == ASSUME Init PROVE KeysSafe
<1>1. KeysOf({}) = {} /\ \A p \in Processes : hand[p] = Nothing /\ pc[p] = "idle" /\ HeldKeys(p) = {}
  BY HeldNothing DEF Init, HeldKeys
<1>2. \A r \in Rounds : pc[r] = "idle" /\ ~Before(r) /\ round[r].new = {}
  BY <1>1, SweepIs, NoRoundIs DEF Init, Before
<1>3. Locked /\ KeysGiven /\ LiveReadable
  BY <1>1, <1>2 DEF Init, Locked, KeysGiven, LiveReadable
<1>4. KeysOf(pending) \cap KeysOf(live) = {} /\ \A p \in Processes : Spared(p)
  BY <1>1 DEF Init, Spared
<1>5. \A r \in Rounds : pc[r] = "commit" => KeysOf(round[r].new) \subseteq objects
  BY <1>2
<1> QED
  BY <1>2, <1>3, <1>4, <1>5 DEF KeysSafe

-----------------------------------------------------------------------------
(* What a round decided holds when it commits.  Each action keeps Sound:    *)
(* lemmas ...Sound.                                                         *)

CleanSteps == {"purge", "find", "objects", "rows", "staged", "erase", "unstage", "prune", "count", "usage"}

\* A step that leaves the rows and the decisions alone.
LEMMA SoundKept ==
    ASSUME PlacesTyped, Sound, NEW p \in Processes, NEW s, Go(p, s),
           live' = live, account' = account, lastHid' = lastHid,
           history' \subseteq history, staged' \subseteq staged,
           \A x, y \in pending' : x.id = y.id => x = y,
           \A r \in Rounds : r # p => round'[r] = round[r],
           p \in Rounds /\ s \in BeforeSteps => pc[p] \in BeforeSteps /\ round'[p] = round[p],
           p \in Rounds /\ s \in CleanSteps => pc[p] \in CleanSteps /\ round'[p].continued = round[p].continued
    PROVE  Sound'
<1>1. /\ pc'[p] = s /\ \A q \in Processes : q # p => pc'[q] = pc[q]
  BY MovesOne
<1>2. \A r \in Rounds : r \in Processes
  BY SweepIs
<1>3. \A r \in Rounds : Before(r)' => Before(r) /\ round'[r] = round[r]
  BY <1>1, <1>2 DEF Before, BeforeSteps
<1>4. \A r \in Rounds : Cleans(r)' => Cleans(r) /\ round'[r].continued = round[r].continued
  BY <1>1, <1>2 DEF Cleans, CleanSteps
<1>5. LiveSound' /\ VersionsSound' /\ OneEach'
  BY DEF Sound, LiveSound, VersionsSound, OneEach
<1>6. Decided'
  <2> SUFFICES ASSUME NEW r \in Rounds, Before(r)' PROVE Decides(round[r])'
    BY DEF Decided
  <2>1. Decides(round[r]) /\ round'[r] = round[r]
    BY <1>3 DEF Sound, Decided
  <2> QED
    BY <2>1 DEF Decides
<1>7. Continued'
  BY <1>4 DEF Sound, Continued
<1> QED
  BY <1>5, <1>6, <1>7 DEF Sound

LEMMA CleaningSound ==
    ASSUME Shaped, Sound, NEW p \in Processes, Cleaning(p)
    PROVE  Sound'
<1>0. /\ PlacesTyped /\ FitsAt(p, pc[p], hand[p]) /\ hand[p].then \in Nexts
  BY HeldFields DEF Shaped, PlacesTyped
<1>1. PICK s \in {"objects", "rows", "erase", "unstage", "find", "staged", "count", "usage", "window",
                  "recount", "prune"} :
        /\ Go(p, s) /\ pc[p] \in CleanSteps
        /\ history' \subseteq history /\ staged' \subseteq staged
        /\ UNCHANGED <<live, account, lastHid, pending, round>>
  <2>1. CASE FindUnreferenced(p) \/ DeleteObjects(p) \/ ReadStaged(p) \/ EraseStaged(p)
    BY <2>1 DEF FindUnreferenced, DeleteObjects, ReadStaged, EraseStaged, At, tables, CleanSteps
  <2>2. CASE PurgeVersions(p)
    BY <2>2 DEF PurgeVersions, CleanUp, At, tables, CleanSteps
  <2>3. CASE DeleteRows(p)
    <3>1. hand[p].then \in {"staged", "recount", "count", "usage"} /\ pc[p] = "rows"
      BY <1>0, <2>3 DEF DeleteRows, At, FitsAt
    <3> QED
      BY <2>3, <3>1 DEF DeleteRows, CleanSteps
  <2>4. CASE Unstage(p)
    BY <2>4 DEF Unstage, At, CleanSteps
  <2> QED
    BY <2>1, <2>2, <2>3, <2>4 DEF Cleaning
<1>2. s \notin BeforeSteps /\ \A x, y \in pending' : x.id = y.id => x = y
  BY <1>1 DEF BeforeSteps, Sound, OneEach
<1> QED
  BY <1>0, <1>1, <1>2, SoundKept

LEMMA SweepSound ==
    ASSUME Shaped, Sound, SweepStep
    PROVE  Sound'
<1>1. PICK s : /\ Go(Sweep, s) /\ UNCHANGED <<live, account, lastHid, history, staged, round>>
               /\ pending' \subseteq pending
  BY DEF SweepStep, StartSweep, EnforceWindow, Recount, ReadAbandoned, ReleaseReservations, ReclaimObjects,
         CleanUp, tables
<1>2. Sweep \in Processes /\ Sweep \notin Rounds /\ PlacesTyped
  BY SweepIs DEF Shaped
<1>3. \A x, y \in pending' : x.id = y.id => x = y
  BY <1>1 DEF Sound, OneEach
<1> QED
  BY <1>1, <1>2, <1>3, SoundKept

LEMMA CutSound ==
    ASSUME Shaped, Sound, NEW p \in Processes, CutShort(p)
    PROVE  Sound'
<1>1. /\ Go(p, "idle") /\ round' = [r \in Rounds |-> IF r = p THEN NoRound ELSE round[r]]
      /\ UNCHANGED <<live, account, lastHid, history, staged, pending>>
  BY DEF CutShort, tables
<1>2. "idle" \notin BeforeSteps /\ "idle" \notin CleanSteps /\ PlacesTyped
  BY DEF BeforeSteps, CleanSteps, Shaped
<1>3. /\ \A x, y \in pending' : x.id = y.id => x = y
      /\ \A r \in Rounds : r # p => round'[r] = round[r]
  BY <1>1 DEF Sound, OneEach
<1> QED
  BY <1>1, <1>2, <1>3, SoundKept

\* Reservations have an id each: those of the round replace earlier ones.
LEMMA ReserveSound ==
    ASSUME Shaped, Sound, NEW r \in Rounds, Reserve(r)
    PROVE  Sound'
<1> DEFINE new == round[r].new
           mine == { [id |-> n.id, key |-> n.key] : n \in new }
           rest == { p \in pending : \A n \in new : n.id # p.id }
<1>0. PlacesTyped /\ r \in Processes /\ RowsNumbered(new)
  BY SweepIs DEF Shaped, RoundsTyped, RoundFits
<1>1. /\ pc[r] = "reserve" /\ Go(r, "put") /\ pending' = rest \cup mine
      /\ UNCHANGED <<live, account, lastHid, history, staged, round>>
  BY DEF Reserve, At
<1>2. ASSUME NEW x \in pending', NEW y \in pending', x.id = y.id PROVE x = y
  <2>1. CASE x \in rest /\ y \in rest
    BY <1>2, <2>1 DEF Sound, OneEach
  <2>2. CASE x \in mine /\ y \in mine
    <3>1. PICK n \in new : x = [id |-> n.id, key |-> n.key]
      BY <2>2
    <3>2. PICK m \in new : y = [id |-> m.id, key |-> m.key]
      BY <2>2
    <3>3. n = m
      BY <1>0, <1>2, <3>1, <3>2 DEF RowsNumbered
    <3> QED
      BY <3>1, <3>2, <3>3
  <2>3. CASE (x \in rest /\ y \in mine) \/ (x \in mine /\ y \in rest)
    BY <1>2, <2>3
  <2> QED
    BY <1>1, <2>1, <2>2, <2>3
<1>3. "put" \notin CleanSteps /\ pc[r] \in BeforeSteps /\ round'[r] = round[r]
      /\ \A q \in Rounds : q # r => round'[q] = round[q]
  BY <1>1 DEF CleanSteps, BeforeSteps
<1> HIDE DEF new, mine, rest
<1>4. history' \subseteq history /\ staged' \subseteq staged
  BY <1>1
<1> QED
  BY <1>0, <1>1, <1>2, <1>3, <1>4, SoundKept

LEMMA PlainRoundSound ==
    ASSUME Shaped, Sound, NEW r \in Rounds,
           DropSuperseded(r) \/ PutObject(r) \/ PruneHistory(r) \/ CountVersions(r) \/ WriteUsage(r)
            \/ DeleteAccount(r) \/ DropObjects(r)
    PROVE  Sound'
<1>0. PlacesTyped /\ r \in Processes /\ RoundsTyped
  BY SweepIs DEF Shaped
<1>1. \A x, y \in pending : x.id = y.id => x = y
  BY DEF Sound, OneEach
<1>2. CASE DropSuperseded(r) \/ PutObject(r)
  <2>1. PICK s \in {"reserve", "put", "commit"} :
            /\ pc[r] \in BeforeSteps /\ Go(r, s)
            /\ UNCHANGED <<live, account, lastHid, history, staged, pending, round>>
    BY <1>2 DEF DropSuperseded, PutObject, At, BeforeSteps, tables
  <2>2. s \notin CleanSteps
    BY DEF CleanSteps
  <2> QED
    BY <1>0, <1>1, <2>1, <2>2, SoundKept
<1>3. CASE PruneHistory(r)
  <2>1. PICK s \in {"find", "count"} :
            /\ pc[r] = "prune" /\ Go(r, s)
            /\ UNCHANGED <<live, account, lastHid, history, staged, pending, round>>
    BY <1>3 DEF PruneHistory, CleanUp, At, tables
  <2>2. s \notin BeforeSteps /\ pc[r] \in CleanSteps
    BY <2>1 DEF CleanSteps, BeforeSteps
  <2> QED
    BY <1>0, <1>1, <2>1, <2>2, SoundKept
<1>4. CASE CountVersions(r)
  <2> DEFINE total == Plus(round[r].seen, Minus(Counted(OfSlots(WrittenSlots(round[r].new, round[r].batch))), round[r].before))
             u == Minus(total, Counted(Evicted(total)))
  <2>1. PICK s \in {"find", "usage"} :
            /\ pc[r] = "count" /\ Go(r, s) /\ round' = [round EXCEPT ![r].now = u]
            /\ UNCHANGED <<live, account, lastHid, history, staged, pending>>
    BY <1>4 DEF CountVersions, CleanUp, At, tables
  <2>2. u \in UsageRow
    BY CountedNow
  <2> HIDE DEF u
  <2>3. round'[r].continued = round[r].continued /\ \A q \in Rounds : q # r => round'[q] = round[q]
    BY <1>0, <2>1, <2>2, CountIs
  <2>4. s \notin BeforeSteps /\ pc[r] \in CleanSteps
    BY <2>1 DEF CleanSteps, BeforeSteps
  <2> QED
    BY <1>0, <1>1, <2>1, <2>3, <2>4, SoundKept
<1>5. CASE WriteUsage(r)
  <2>1. /\ Go(r, "idle") /\ round' = [round EXCEPT ![r] = NoRound]
        /\ UNCHANGED <<live, account, lastHid, history, staged, pending>>
    BY <1>5 DEF WriteUsage
  <2>2. "idle" \notin BeforeSteps /\ "idle" \notin CleanSteps /\ \A q \in Rounds : q # r => round'[q] = round[q]
    BY <1>0, <2>1 DEF BeforeSteps, CleanSteps, RoundsTyped
  <2> QED
    BY <1>0, <1>1, <2>1, <2>2, SoundKept
<1>6. CASE DeleteAccount(r) \/ DropObjects(r)
  <2>1. PICK s \in {"drop", "dropRows"} :
            Go(r, s) /\ UNCHANGED <<live, account, lastHid, history, staged, pending, round>>
    BY <1>6 DEF DeleteAccount, DropObjects, tables
  <2>2. s \notin BeforeSteps /\ s \notin CleanSteps
    BY DEF BeforeSteps, CleanSteps
  <2> QED
    BY <1>0, <1>1, <2>1, <2>2, SoundKept
<1> QED
  BY <1>2, <1>3, <1>4, <1>5, <1>6

LEMMA NoRows ==
    /\ Cardinality({}) = 0 /\ BytesOf({}) = 0 /\ \A n : Numbered({}, n)
<1>1. BytesIn({}) = {}
  BY DEF BytesIn
<1> QED
  BY <1>1, FS_EmptySet DEF BytesOf, Numbered, RowsNumbered

LEMMA DropRowsSound ==
    ASSUME Shaped, KeysSafe, NEW r \in Rounds, DropRows(r)
    PROVE  Sound'
<1>1. /\ pc[r] = "dropRows" /\ Go(r, "idle") /\ account' = NoAccount
      /\ live' = {} /\ history' = {} /\ staged' = {} /\ pending' = {}
  BY DEF DropRows, At
<1>2. \A q \in Rounds : pc'[q] = "idle"
  BY <1>1, Others DEF Shaped, KeysSafe
<1>3. \A q \in Rounds : ~Before(q)' /\ ~Cleans(q)'
  BY <1>2 DEF Before, Cleans
<1>4. account'.count = 0 /\ account'.bytes = 0
  BY <1>1 DEF NoAccount
<1> QED
  BY <1>1, <1>3, <1>4, NoRows DEF Sound, LiveSound, VersionsSound, OneEach, Decided, Continued

LEMMA CreateSound ==
    ASSUME Shaped, Sound, CreateAccount
    PROVE  Sound'
<1>1. /\ Idle /\ ~account.exists /\ account' = [NoAccount EXCEPT !.exists = TRUE]
      /\ UNCHANGED <<live, history, staged, pending, lastHid, pc, round>>
  BY DEF CreateAccount
<1>2. live' = {} /\ account'.count = 0 /\ account'.bytes = 0
  BY <1>1 DEF Sound, LiveSound, NoAccount
<1>3. \A q \in Rounds : ~Before(q)' /\ ~Cleans(q)'
  BY <1>1 DEF Before, Cleans, Idle, At
<1>4. LiveSound'
  BY <1>2, NoRows DEF LiveSound
<1> QED
  BY <1>1, <1>3, <1>4 DEF Sound, VersionsSound, OneEach, Decided, Continued

LEMMA SoundAtFirst == ASSUME Init PROVE Sound
<1>1. live = {} /\ account.count = 0 /\ account.bytes = 0
  BY DEF Init, NoAccount
<1>2. \A r \in Rounds : ~Before(r) /\ ~Cleans(r)
  BY SweepIs DEF Init, Before, Cleans
<1> QED
  BY <1>1, <1>2, NoRows DEF Init, Sound, LiveSound, VersionsSound, OneEach, Decided, Continued

\* What a round decides when it begins.
LEMMA BeginSound ==
    ASSUME Shaped, Sound, NEW r \in Rounds, NEW b \in Batches, Begin(r, b)
    PROVE  Sound'
<1>0. PlacesTyped /\ TablesTyped /\ RoundsTyped /\ r \in Processes /\ b \in Batch
  BY SweepIs, BatchAssumption DEF Shaped
<1>1. /\ Idle /\ (\E s : Go(r, s) /\ s \in BeforeSteps) /\ account.exists
      /\ Conflicts(Bare(live), b.uploads) = {}
      /\ UNCHANGED <<live, account, history, staged, pending, lastHid>>
  BY DEF Begin, LockFree, tables, BeforeSteps
<1>2. PICK m : m = round'[r] /\ Remembers(m, b)
  BY <1>0, BeginIs
<1>3. NewFit(b)
  BY <1>0, NewEnvelopesAre
<1>4. /\ m.batch = b /\ Bare(m.new) = NewRows(Bare(live), account.nextSeq, b) /\ RowsNumbered(m.new)
      /\ m.new \in SUBSET LiveRow
  BY <1>2, <1>3 DEF NewFit, Remembers
<1>5. m.removed = { l \in live : [slot |-> l.slot, id |-> l.id] \in b.deletions }
  BY <1>2 DEF Remembers, Removed
<1>6. m.account = [exists |-> TRUE, nextSeq |-> account.nextSeq + Cardinality(m.new),
                   count |-> Cardinality(RowsOf(b)), bytes |-> BytesOf(RowsOf(b))]
  <2> DEFINE C == Cardinality(RowsOf(b))
             B == BytesOf(RowsOf(b))
             c == Cardinality(live)
             y == BytesOf(live)
  <2>1. C \in Nat /\ B \in Nat /\ c \in Nat /\ y \in Nat
    BY <1>0, RowsOfTyped
  <2>2. account.count = c /\ account.bytes = y
    BY DEF Sound, LiveSound
  <2>3. m.account = [exists |-> account.exists, nextSeq |-> account.nextSeq + Cardinality(m.new),
                     count |-> account.count + C - c, bytes |-> account.bytes + B - y]
    BY <1>2 DEF Remembers
  <2>4. account.exists = TRUE
    BY <1>0, <1>1 DEF TablesTyped, AccountRow
  <2> HIDE DEF C, B, c, y
  <2>5. account.count + C - c = C /\ account.bytes + B - y = B
    BY <2>1, <2>2
  <2>6. m.account = [exists |-> TRUE, nextSeq |-> account.nextSeq + Cardinality(m.new), count |-> C, bytes |-> B]
    BY <2>3, <2>4, <2>5
  <2> QED
    BY <2>6 DEF C, B
<1>7. m.continued \subseteq { l.id : l \in { k \in live \ m.removed : k.slot \in SlotsOf(m.new) } }
  <2>1. ASSUME NEW l \in Replaced(b) PROVE l \in live \ m.removed /\ l.slot \in SlotsOf(m.new)
    <3>1. PICK i \in DOMAIN b.uploads :
            b.uploads[i].slot = l.slot /\ b.uploads[i].id \in { n.id : n \in m.new }
      BY <1>2 DEF Replaced, Remembers
    <3>2. PICK n \in m.new : n.id = b.uploads[i].id
      BY <3>1
    <3>3. n.slot = SlotOf[n.id] /\ b.uploads[i].slot = SlotOf[b.uploads[i].id]
      <4>1. b.uploads[i] \in Upload
        BY <1>0 DEF Batch
      <4> QED
        BY <1>4, <4>1 DEF LiveRow, Upload
    <3> QED
      BY <1>2, <3>1, <3>2, <3>3 DEF Replaced, Remembers, SlotsOf
  <2> QED
    BY <1>2, <2>1 DEF Remembers
<1>8. Decides(m)'
  <2>1. live' = live /\ account' = account
    BY <1>1
  <2>2. Decides(m)
    BY <1>1, <1>4, <1>5, <1>6, <1>7 DEF Decides, RowsOf
  <2> QED
    BY <2>1, <2>2 DEF Decides
<1>9. PICK s : Go(r, s) /\ s \in BeforeSteps
  BY <1>1
<1>10. /\ pc'[r] = s /\ \A q \in Processes : q # r => pc'[q] = pc[q]
  BY <1>0, <1>9, MovesOne
<1>11. \A q \in Rounds : q # r => pc'[q] = "idle"
  BY <1>1, <1>10, SweepIs DEF Idle, At
<1>12. round'[r] = m
  BY <1>2
<1>13. Decided'
  BY <1>8, <1>11, <1>12 DEF Decided, Before
<1>14. Continued'
  BY <1>9, <1>10, <1>11 DEF Continued, Cleans, BeforeSteps
<1>15. LiveSound' /\ VersionsSound' /\ OneEach'
  BY <1>1 DEF Sound, LiveSound, VersionsSound, OneEach
<1> QED
  BY <1>13, <1>14, <1>15 DEF Sound

-----------------------------------------------------------------------------
(* The commit writes the rows that were decided.                            *)

\* What the commit of round r makes of the rows.
CommitFits(r) ==
    LET m == round[r] IN
    /\ m.removed \in SUBSET live /\ Left(r) = live \ m.removed
    /\ live' = (Left(r) \ Prior(r)) \cup m.new
    /\ \A l \in live : l \in Prior(r) <=> l \in Left(r) /\ l.slot \in SlotsOf(m.new)
    /\ \A n \in m.new : \A l \in Left(r) : n.id # l.id
    /\ \A n \in m.new : n.seq \in (account.nextSeq + 1) .. (account.nextSeq + Cardinality(m.new))
    /\ Bare(live') = RowsAfter(Bare(live), account.nextSeq, m.batch)
    /\ RowsNumbered(live') /\ live' \in SUBSET LiveRow /\ IsFiniteSet(live')
    /\ Cardinality(m.new) \in Nat /\ m.new \in SUBSET LiveRow /\ RowsNumbered(m.new) /\ IsFiniteSet(m.new)

LEMMA CommitWrites ==
    ASSUME Shaped, Sound, NEW r \in Rounds, Commit(r)
    PROVE  CommitFits(r)
<1> DEFINE m == round[r]
           b == m.batch
           clock == account.nextSeq
           B == Bare(live)
           N == NewRows(B, clock, b)
<1>0. /\ TablesTyped /\ m \in Memory /\ RoundFits(m) /\ b \in Batch /\ clock \in Nat
      /\ live \in SUBSET LiveRow /\ m.new \in SUBSET LiveRow /\ IsFiniteSet(m.new) /\ RowsNumbered(m.new)
  BY DEF Shaped, RoundsTyped, RoundFits, Memory, TablesTyped, AccountRow
<1>1. pc[r] = "commit" /\ live' = (Left(r) \ Prior(r)) \cup m.new
  BY CommitIs
<1>2. Decides(m)
  BY <1>1 DEF Sound, Decided, Before
<1>3. Bare(m.new) = N /\ m.removed = { l \in live : [slot |-> l.slot, id |-> l.id] \in b.deletions }
  BY <1>2 DEF Decides
<1>4. RowsNumbered(live) /\ \A l \in live : l.seq <= clock
  BY DEF Sound, LiveSound, Numbered
<1>5. NewRowsFit(N, B, clock, b)
  BY <1>0, NewRowsAre
<1>6. Cardinality(N) = Cardinality(m.new) /\ Cardinality(m.new) \in Nat
  BY <1>0, <1>3, BareCounts, FS_CardinalityType
<1>7. Left(r) = live \ m.removed /\ m.removed \in SUBSET live
  <2>1. \A l \in live : (\E d \in m.removed : d.slot = l.slot /\ d.id = l.id) <=> l \in m.removed
    BY <1>3, <1>4 DEF RowsNumbered
  <2> QED
    BY <1>3, <2>1 DEF Left
<1>8. \A l \in live : l \in Prior(r) <=> l \in Left(r) /\ l.slot \in SlotsOf(m.new)
  BY <1>7 DEF Prior, SlotsOf
<1>9. \A n \in N :
        /\ n.seq \in (clock + 1) .. (clock + Cardinality(N))
        /\ n.id \notin { x.id : x \in B \ Deleted(B, b.deletions) }
  BY <1>5 DEF NewRowsFit
<1>10. \A n \in m.new : \E k \in N : k.slot = n.slot /\ k.seq = n.seq /\ k.id = n.id
  <2>1. \A n \in m.new : [slot |-> n.slot, seq |-> n.seq, id |-> n.id] \in Bare(m.new)
    BY DEF Bare
  <2> HIDE DEF N
  <2>2. \A n \in m.new : [slot |-> n.slot, seq |-> n.seq, id |-> n.id] \in N
    BY <1>3, <2>1
  <2> QED
    BY <2>2
<1>11. ASSUME NEW l \in Left(r)
       PROVE  [slot |-> l.slot, seq |-> l.seq, id |-> l.id] \in B \ Deleted(B, b.deletions)
  <2>1. l \in live /\ [slot |-> l.slot, id |-> l.id] \notin b.deletions
    BY <1>3, <1>7
  <2>2. [slot |-> l.slot, seq |-> l.seq, id |-> l.id] \in B
    BY <2>1 DEF Bare
  <2> QED
    BY <2>1, <2>2 DEF Deleted
<1>12. ASSUME NEW x \in B \ Deleted(B, b.deletions)
       PROVE  \E l \in Left(r) : x = [slot |-> l.slot, seq |-> l.seq, id |-> l.id]
  <2>1. PICK l \in live : x = [slot |-> l.slot, seq |-> l.seq, id |-> l.id]
    BY DEF Bare
  <2>2. [slot |-> l.slot, id |-> l.id] \notin b.deletions
    BY <2>1 DEF Deleted
  <2> QED
    BY <1>3, <1>7, <2>1, <2>2
<1> HIDE DEF B, clock, N, b
<1>13. \A n \in m.new : \A l \in Left(r) : n.id # l.id
  <2> SUFFICES ASSUME NEW n \in m.new, NEW l \in Left(r) PROVE n.id # l.id
    OBVIOUS
  <2>1. PICK k \in N : k.id = n.id
    BY <1>10
  <2>2. [slot |-> l.slot, seq |-> l.seq, id |-> l.id].id = l.id
    OBVIOUS
  <2> QED
    BY <1>9, <1>11, <2>1, <2>2
<1>14. \A n \in m.new : n.seq \in (clock + 1) .. (clock + Cardinality(m.new))
  BY <1>6, <1>9, <1>10
<1>15. Bare(live') = RowsAfter(B, clock, b)
  <2> DEFINE kept == { x \in B \ Deleted(B, b.deletions) : \A n \in N : n.slot # x.slot }
             stay == Left(r) \ Prior(r)
  <2>1. RowsAfter(B, clock, b) = kept \cup N
    BY DEF RowsAfter, N
  <2>2. Bare(live') = Bare(stay) \cup N
    BY <1>1, <1>3, BareIs
  <2>3. \A x : (\E n \in N : n.slot = x) <=> x \in SlotsOf(m.new)
    <3>1. \A n \in N : \E k \in m.new : k.slot = n.slot
      BY <1>3 DEF Bare
    <3> QED
      BY <1>10, <3>1 DEF SlotsOf
  <2>4. \A l \in Left(r) : l \in stay <=> l.slot \notin SlotsOf(m.new)
    BY <1>7, <1>8
  <2>5. ASSUME NEW x \in kept PROVE x \in Bare(stay)
    <3>1. PICK l \in Left(r) : x = [slot |-> l.slot, seq |-> l.seq, id |-> l.id]
      BY <1>12
    <3>2. l.slot \notin SlotsOf(m.new)
      BY <2>3, <3>1
    <3>3. l \in stay
      BY <2>4, <3>2
    <3> HIDE DEF stay
    <3> QED
      BY <3>1, <3>3 DEF Bare
  <2>6. ASSUME NEW x \in Bare(stay) PROVE x \in kept
    <3>1. PICK l \in stay : x = [slot |-> l.slot, seq |-> l.seq, id |-> l.id]
      BY DEF Bare
    <3>2. l \in Left(r) /\ l.slot \notin SlotsOf(m.new)
      BY <2>4, <3>1
    <3>3. \A n \in N : n.slot # x.slot
      BY <2>3, <3>1, <3>2
    <3> QED
      BY <1>11, <3>1, <3>2, <3>3
  <2> HIDE DEF kept, stay
  <2>7. Bare(stay) = kept
    BY <2>5, <2>6
  <2> QED
    BY <2>1, <2>2, <2>7
<1>16. RowsNumbered(live')
  <2> DEFINE stay == Left(r) \ Prior(r)
  <2>1. \A l \in stay : l \in live /\ l \in Left(r) /\ l.slot \notin SlotsOf(m.new) /\ l.seq <= clock /\ l.seq \in Nat
    BY <1>0, <1>4, <1>7, <1>8 DEF LiveRow
  <2>2. \A l \in stay, n \in m.new : l.slot # n.slot /\ l.id # n.id /\ l.seq # n.seq
    <3> SUFFICES ASSUME NEW l \in stay, NEW n \in m.new PROVE l.slot # n.slot /\ l.id # n.id /\ l.seq # n.seq
      OBVIOUS
    <3>1. l.slot # n.slot
      BY <2>1 DEF SlotsOf
    <3>2. l.id # n.id
      BY <1>13
    <3>3. l.seq # n.seq
      BY <1>0, <1>6, <1>14, <2>1
    <3> QED
      BY <3>1, <3>2, <3>3
  <2>3. live' = stay \cup m.new
    BY <1>1
  <2>4. RowsNumbered(stay)
    BY <1>4, <2>1 DEF RowsNumbered
  <2> HIDE DEF stay
  <2> QED
    BY <1>0, <2>2, <2>3, <2>4 DEF RowsNumbered
<1>17. live' \in SUBSET LiveRow /\ IsFiniteSet(live')
  BY CommitTyped DEF TablesTyped
<1> QED
  BY <1>0, <1>1, <1>6, <1>7, <1>8, <1>13, <1>14, <1>15, <1>16, <1>17 DEF CommitFits, B, clock, b

\* The row numbers of the versions a commit adds are new, and each is used once.
LEMMA NewVersionsSound ==
    ASSUME TablesTyped, VersionsSound, NEW new \in SUBSET LiveRow, IsFiniteSet(new), RowsNumbered(new),
           NEW prior \in SUBSET live, RowsNumbered(live)
    PROVE  /\ \A g, h \in Versions(new, prior) : g.hid = h.hid => g = h
           /\ \A h \in Versions(new, prior) : h.hid > lastHid /\ h.hid <= lastHid + 2 * Cardinality(new)
<1> DEFINE top(n) == lastHid + 2 * Rank(new, n)
           low(n) == lastHid + 2 * Rank(new, n) - 1
<1>1. /\ Cardinality(new) \in Nat /\ lastHid \in Nat
      /\ \A n \in new : Rank(new, n) \in 1 .. Cardinality(new)
      /\ \A n, m \in new : Rank(new, n) = Rank(new, m) => n = m
  BY RanksAre DEF TablesTyped
<1>2. /\ \A n \in new : top(n) > lastHid /\ top(n) <= lastHid + 2 * Cardinality(new)
      /\ \A n \in new : low(n) > lastHid /\ low(n) <= lastHid + 2 * Cardinality(new)
  BY <1>1
<1>3. /\ \A n, m \in new : top(n) = top(m) => n = m
      /\ \A n, m \in new : low(n) = low(m) => n = m
      /\ \A n, m \in new : top(n) # low(m)
  <2> SUFFICES ASSUME NEW n \in new, NEW m \in new
               PROVE  (top(n) = top(m) => n = m) /\ (low(n) = low(m) => n = m) /\ top(n) # low(m)
    OBVIOUS
  <2>1. Rank(new, n) \in Nat /\ Rank(new, m) \in Nat
    BY <1>1
  <2>2. top(n) = top(m) => Rank(new, n) = Rank(new, m)
    BY <1>1, <2>1
  <2>3. low(n) = low(m) => Rank(new, n) = Rank(new, m)
    BY <1>1, <2>1
  <2>4. top(n) # low(m)
    BY <1>1, <2>1
  <2> HIDE DEF top, low
  <2> QED
    BY <1>1, <2>2, <2>3, <2>4
<1> HIDE DEF top, low
<1>4. ASSUME NEW h \in Versions(new, prior)
      PROVE  \E n \in new :
                \/ h.hid = top(n) /\ h = Version(h.hid, n)
                \/ h.hid = low(n) /\ \E l \in Unsaved(n, prior) : h = Version(h.hid, l)
  <2>1. PICK n \in new : h = Version(top(n), n) \/ \E l \in Unsaved(n, prior) : h = Version(low(n), l)
    BY VersionsAre DEF top, low
  <2>2. \A k, x : Version(k, x).hid = k
    BY DEF Version
  <2> QED
    BY <2>1, <2>2
<1>5. \A n \in new : \A k, l \in Unsaved(n, prior) : k = l
  BY DEF Unsaved, RowsNumbered
<1>6. ASSUME NEW g \in Versions(new, prior), NEW h \in Versions(new, prior), g.hid = h.hid PROVE g = h
  <2>1. PICK n \in new : \/ g.hid = top(n) /\ g = Version(g.hid, n)
                         \/ g.hid = low(n) /\ \E l \in Unsaved(n, prior) : g = Version(g.hid, l)
    BY <1>4
  <2>2. PICK m \in new : \/ h.hid = top(m) /\ h = Version(h.hid, m)
                         \/ h.hid = low(m) /\ \E l \in Unsaved(m, prior) : h = Version(h.hid, l)
    BY <1>4
  <2>3. n = m
    BY <1>3, <1>6, <2>1, <2>2
  <2>4. CASE g.hid = top(n)
    BY <1>3, <1>6, <2>1, <2>2, <2>3, <2>4
  <2>5. CASE g.hid = low(n)
    BY <1>3, <1>5, <1>6, <2>1, <2>2, <2>3, <2>5
  <2> QED
    BY <2>1, <2>4, <2>5
<1>7. ASSUME NEW h \in Versions(new, prior)
      PROVE  h.hid > lastHid /\ h.hid <= lastHid + 2 * Cardinality(new)
  BY <1>2, <1>4
<1> QED
  BY <1>6, <1>7

LEMMA CommitSound ==
    ASSUME Shaped, KeysSafe, Sound, NEW r \in Rounds, Commit(r)
    PROVE  Sound'
<1> DEFINE m == round[r]
<1>0. /\ TablesTyped /\ PlacesTyped /\ account.nextSeq \in Nat /\ r \in Processes /\ Locked
  BY SweepIs DEF Shaped, TablesTyped, AccountRow, KeysSafe
<1>1. CommitFits(r)
  BY CommitWrites
<1>2. /\ pc[r] = "commit" /\ staged' = Staged(m.removed) /\ history' = history \cup Versions(m.new, Prior(r))
      /\ lastHid' = lastHid + 2 * Cardinality(m.new) /\ pending' \subseteq pending
      /\ account' = m.account /\ round' = round
  BY CommitIs
<1>3. PICK s \in {"purge", "prune"} : Go(r, s)
  BY CommitIs
<1>4. pc'[r] = s /\ \A q \in Rounds : q # r => pc'[q] = "idle"
  BY <1>0, <1>2, <1>3, Others
<1>5. Decides(m)
  BY <1>2 DEF Sound, Decided, Before
<1>6. LiveSound'
  <2>1. Cardinality(Bare(live')) = Cardinality(live') /\ BytesOf(Bare(live')) = BytesOf(live')
    BY <1>1, BareCounts DEF CommitFits
  <2>2. /\ account'.exists /\ account'.nextSeq = account.nextSeq + Cardinality(m.new)
        /\ account'.count = Cardinality(live') /\ account'.bytes = BytesOf(live')
    <3>1. account' = [exists |-> TRUE, nextSeq |-> account.nextSeq + Cardinality(m.new),
                      count |-> Cardinality(Bare(live')), bytes |-> BytesOf(Bare(live'))]
      BY <1>1, <1>2, <1>5 DEF Decides, CommitFits
    <3> QED
      BY <2>1, <3>1
  <2>3. \A l \in live' : l.seq <= account'.nextSeq
    <3>1. \A l \in live : l.seq <= account.nextSeq /\ l.seq \in Nat
      BY <1>0 DEF Sound, LiveSound, Numbered, TablesTyped, LiveRow
    <3>2. Cardinality(m.new) \in Nat /\ \A n \in m.new :
            n.seq \in (account.nextSeq + 1) .. (account.nextSeq + Cardinality(m.new))
      BY <1>1 DEF CommitFits
    <3>3. live' \subseteq live \cup m.new
      BY <1>1 DEF CommitFits
    <3>4. \A l \in live : l.seq <= account.nextSeq + Cardinality(m.new)
      BY <1>0, <3>1, <3>2
    <3>5. \A n \in m.new : n.seq <= account.nextSeq + Cardinality(m.new)
      BY <1>0, <3>2
    <3> QED
      BY <2>2, <3>3, <3>4, <3>5
  <2>4. RowsNumbered(live')
    BY <1>1 DEF CommitFits
  <2> QED
    BY <2>2, <2>3, <2>4 DEF LiveSound, Numbered
<1>7. VersionsSound'
  <2> DEFINE V == Versions(m.new, Prior(r))
  <2>1. /\ \A g, h \in V : g.hid = h.hid => g = h
        /\ \A h \in V : h.hid > lastHid /\ h.hid <= lastHid + 2 * Cardinality(m.new)
    <3>1. /\ m.new \in SUBSET LiveRow /\ IsFiniteSet(m.new) /\ RowsNumbered(m.new) /\ Prior(r) \in SUBSET live
      BY <1>1 DEF CommitFits, Prior, Left
    <3>2. RowsNumbered(live) /\ VersionsSound
      BY DEF Sound, LiveSound, Numbered
    <3> QED
      BY <1>0, <3>1, <3>2, NewVersionsSound
  <2>2. V \in SUBSET VersionRow
    BY <1>2, CommitTyped DEF TablesTyped
  <2>3. /\ \A h \in history : h.hid <= lastHid /\ h.hid \in Nat
        /\ \A h \in V : h.hid \in Nat
        /\ lastHid \in Nat /\ Cardinality(m.new) \in Nat
    BY <1>0, <1>1, <2>2 DEF Sound, VersionsSound, TablesTyped, VersionRow, CommitFits
  <2> HIDE DEF V
  <2>4. \A g \in history, h \in V : g.hid # h.hid
    BY <2>1, <2>3
  <2>5. \A h \in history' : h.hid <= lastHid'
    <3>1. \A h \in history : h.hid <= lastHid + 2 * Cardinality(m.new)
      BY <2>3
    <3> QED
      BY <1>2, <2>1, <3>1 DEF V
  <2>6. \A g, h \in history : g.hid = h.hid => g = h
    BY DEF Sound, VersionsSound
  <2>7. history' = history \cup V
    BY <1>2 DEF V
  <2>8. \A g, h \in history' : g.hid = h.hid => g = h
    BY <2>1, <2>4, <2>6, <2>7
  <2> QED
    BY <2>5, <2>8 DEF VersionsSound
<1>8. OneEach'
  <2>1. \A c, d \in m.removed : c.slot = d.slot => c = d
    BY <1>1 DEF CommitFits, Sound, LiveSound, Numbered, RowsNumbered
  <2>2. ASSUME NEW x \in staged', NEW y \in staged', x.slot = y.slot PROVE x = y
    <3>1. \A z \in staged' : \/ z \in staged /\ z.slot \notin SlotsOf(m.removed)
                            \/ \E d \in m.removed : z = [slot |-> d.slot, id |-> d.id, key |-> d.key]
      BY <1>2 DEF Staged, StagedCopies
    <3>2. CASE x.slot \in SlotsOf(m.removed)
      <4>1. PICK c \in m.removed : x = [slot |-> c.slot, id |-> c.id, key |-> c.key]
        BY <3>1, <3>2
      <4>2. PICK d \in m.removed : y = [slot |-> d.slot, id |-> d.id, key |-> d.key]
        BY <2>2, <3>1, <3>2
      <4>3. c = d
        BY <2>1, <2>2, <4>1, <4>2
      <4> QED
        BY <4>1, <4>2, <4>3
    <3>3. CASE x.slot \notin SlotsOf(m.removed)
      <4>1. \A d \in m.removed : d.slot \in SlotsOf(m.removed)
        BY DEF SlotsOf
      <4>2. x \in staged /\ y \in staged
        BY <2>2, <3>1, <3>3, <4>1
      <4> QED
        BY <2>2, <4>2 DEF Sound, OneEach
    <3> QED
      BY <3>2, <3>3
  <2>3. \A x, y \in pending' : x.id = y.id => x = y
    BY <1>2 DEF Sound, OneEach
  <2> QED
    BY <2>2, <2>3 DEF OneEach
<1>9. Decided'
  BY <1>4 DEF Decided, Before
<1>10. Continued'
  <2> SUFFICES ASSUME NEW l \in live' PROVE l.id \notin m.continued
    BY <1>2, <1>4 DEF Continued, Cleans
  <2> SUFFICES ASSUME l.id \in m.continued PROVE FALSE
    OBVIOUS
  <2>1. PICK k \in live \ m.removed : k.slot \in SlotsOf(m.new) /\ k.id = l.id
    BY <1>5 DEF Decides
  <2>2. k \in Left(r) /\ k \in Prior(r)
    BY <1>1, <2>1 DEF CommitFits
  <2>3. CASE l \in m.new
    BY <1>1, <2>1, <2>2, <2>3 DEF CommitFits
  <2>4. CASE l \in Left(r) \ Prior(r)
    <3>1. l \in live /\ k \in live
      BY <2>1, <2>4 DEF Left
    <3>2. l = k
      BY <2>1, <3>1 DEF Sound, LiveSound, Numbered, RowsNumbered
    <3> QED
      BY <2>2, <2>4, <3>2
  <2> QED
    BY <1>1, <2>3, <2>4 DEF CommitFits
<1> QED
  BY <1>6, <1>7, <1>8, <1>9, <1>10 DEF Sound

LEMMA SoundStays ==
    ASSUME Shaped, KeysSafe, Sound, Next
    PROVE  Sound'
<1>1. ASSUME NEW r \in Rounds, RoundStep(r) PROVE Sound'
  BY <1>1, BeginSound, ReserveSound, CommitSound, PlainRoundSound, DropRowsSound DEF RoundStep
<1> QED
  BY <1>1, CreateSound, SweepSound, CleaningSound, CutSound DEF Next

-----------------------------------------------------------------------------
LEMMA TypesAreOK ==
    ASSUME Shaped, KeysSafe, Sound
    PROVE  TypeOK
<1>1. Numbered(live, account.nextSeq) /\ live \in SUBSET LiveRow /\ IsFiniteSet(live)
  BY DEF Shaped, TablesTyped, Sound, LiveSound
<1>2. Bare(live) \subseteq Row /\ RowsNumbered(Bare(live)) /\ Cardinality(live) = Cardinality(Bare(live))
  BY <1>1, BareFinite, BareNumbered, BareCounts DEF Numbered
<1>3. \A x \in Bare(live) : x.seq <= account.nextSeq
  BY <1>1 DEF Numbered, Bare
<1>4. objects \cup KeysOf(live) \cup KeysOf(history) \cup KeysOf(pending) \subseteq 1 .. lastKey
  BY DEF KeysSafe, KeysGiven
<1> QED
  BY <1>2, <1>3, <1>4 DEF TypeOK, Numbered, Sound, LiveSound, VersionsSound, OneEach

\* A commit writes the rows its batch would, were the round alone.
LEMMA CommitIsSerial ==
    ASSUME Shaped, Sound, NEW r \in Rounds, Commit(r)
    PROVE  LET b == round[r].batch IN
           /\ Conflicts(Bare(live), b.uploads) = {}
           /\ account'.nextSeq = ClockAfter(Bare(live), account.nextSeq, b)
           /\ Bare(live') = RowsAfter(Bare(live), account.nextSeq, b)
<1> DEFINE m == round[r]
           b == m.batch
           N == NewRows(Bare(live), account.nextSeq, b)
<1>1. Decides(m) /\ account' = m.account
  BY CommitIs DEF Sound, Decided, Before
<1>2. CommitFits(r)
  BY CommitWrites
<1>3. b \in Batch /\ account.nextSeq \in Nat
  BY DEF Shaped, RoundsTyped, Memory, TablesTyped, AccountRow
<1>4. NewRowsFit(N, Bare(live), account.nextSeq, b)
  BY <1>3, NewRowsAre
<1>5. Cardinality(m.new) = Cardinality(FreshUploads(Bare(live), b))
  <2>1. Bare(m.new) = N
    BY <1>1 DEF Decides
  <2>2. Cardinality(Bare(m.new)) = Cardinality(m.new)
    BY <1>2, BareCounts DEF CommitFits
  <2> QED
    BY <1>4, <2>1, <2>2 DEF NewRowsFit
<1>6. account'.nextSeq = account.nextSeq + Cardinality(m.new)
  <2>1. account' = [exists |-> TRUE, nextSeq |-> account.nextSeq + Cardinality(m.new),
                    count |-> Cardinality(RowsAfter(Bare(live), account.nextSeq, b)),
                    bytes |-> BytesOf(RowsAfter(Bare(live), account.nextSeq, b))]
    BY <1>1 DEF Decides
  <2> QED
    BY <2>1
<1>7. Conflicts(Bare(live), b.uploads) = {}
  BY <1>1 DEF Decides
<1>8. Bare(live') = RowsAfter(Bare(live), account.nextSeq, b)
  BY <1>2 DEF CommitFits
<1> QED
  BY <1>5, <1>6, <1>7, <1>8 DEF ClockAfter

\* Only its commit, and a cut, takes a round from where it commits.
LEMMA OnlyCommits ==
    ASSUME Shaped, Next, NEW r \in Rounds, pc[r] = "commit", pc'[r] # "commit", round'[r] = round[r], KeysSafe
    PROVE  Commit(r) \/ CutShort(r)
<1>0. PlacesTyped /\ r \in Processes /\ r # Sweep /\ \A q \in Rounds : q # r => pc[q] = "idle"
  BY SweepIs DEF Shaped, KeysSafe, Locked
<1>1. ~Idle /\ ~CreateAccount
  BY DEF Idle, At, CreateAccount
<1>2. ASSUME NEW q \in Rounds, RoundStep(q) PROVE q = r /\ Commit(r)
  <2>1. CASE q # r
    <3>1. pc[q] = "idle"
      BY <1>0, <2>1
    <3> QED
      BY <1>1, <1>2, <3>1 DEF RoundStep, Begin, DropSuperseded, Reserve, PutObject, Commit, PruneHistory,
         CountVersions, WriteUsage, DeleteAccount, DropObjects, DropRows, LockFree, At
  <2>2. CASE q = r
    BY <1>1, <1>2, <2>2 DEF RoundStep, Begin, DropSuperseded, Reserve, PutObject, PruneHistory,
         CountVersions, WriteUsage, DeleteAccount, DropObjects, DropRows, LockFree, At
  <2> QED
    BY <2>1, <2>2
<1>3. ASSUME NEW p \in Processes, p # r, NEW s, Go(p, s) PROVE FALSE
  BY <1>0, <1>3, MovesOne
<1>4. ~SweepStep
  <2>1. SweepStep => \E s : Go(Sweep, s)
    BY DEF SweepStep, StartSweep, EnforceWindow, Recount, ReadAbandoned, ReleaseReservations, ReclaimObjects,
           CleanUp
  <2> QED
    BY <1>0, <1>3, <2>1, SweepIs
<1>5. ASSUME NEW p \in Processes, Cleaning(p) PROVE FALSE
  <2>1. \E s : Go(p, s) /\ pc[p] # "commit"
    BY <1>5 DEF Cleaning, FindUnreferenced, DeleteObjects, DeleteRows, PurgeVersions, ReadStaged, EraseStaged,
           Unstage, CleanUp, At
  <2> QED
    BY <1>3, <2>1
<1>6. ASSUME NEW p \in Processes, CutShort(p) PROVE p = r
  BY <1>3, <1>6 DEF CutShort
<1> QED
  BY <1>1, <1>2, <1>4, <1>5, <1>6 DEF Next

\* A batch of nothing writes nothing.
LEMMA NothingWritten ==
    ASSUME NEW records, NEW clock \in Nat, NEW b, b.uploads = <<>>, b.deletions = {}
    PROVE  /\ Conflicts(records, b.uploads) = {} /\ ClockAfter(records, clock, b) = clock
           /\ RowsAfter(records, clock, b) = records
<1>1. DOMAIN b.uploads = {}
  OBVIOUS
<1>2. FreshUploads(records, b) = {} /\ Conflicts(records, b.uploads) = {}
  BY <1>1 DEF FreshUploads, Conflicts
<1>3. NewRows(records, clock, b) = {} /\ Deleted(records, b.deletions) = {}
  BY <1>2 DEF NewRows, Deleted
<1>4. RowsAfter(records, clock, b) = records
  BY <1>3 DEF RowsAfter
<1> QED
  BY <1>2, <1>4, FS_EmptySet DEF ClockAfter

LEMMA SerialStep ==
    ASSUME Shaped, KeysSafe, Sound, Next, NEW r \in Rounds,
           pc[r] = "commit", pc'[r] # "commit", round'[r] = round[r]
    PROVE  LET b == round[r].batch IN
           /\ Conflicts(Bare(live), b.uploads) = {}
           /\ account'.nextSeq = ClockAfter(Bare(live), account.nextSeq, b)
           /\ Bare(live') = RowsAfter(Bare(live), account.nextSeq, b)
<1>1. CASE Commit(r)
  BY <1>1, CommitIsSerial
<1>2. CASE CutShort(r)
  <2>1. round' = [q \in Rounds |-> IF q = r THEN NoRound ELSE round[q]] /\ live' = live /\ account' = account
    BY <1>2 DEF CutShort, tables
  <2>2. round[r] = NoRound
    BY <2>1
  <2>3. round[r].batch.uploads = <<>> /\ round[r].batch.deletions = {} /\ account.nextSeq \in Nat
    BY <2>2 DEF NoRound, Shaped, TablesTyped, AccountRow
  <2> DEFINE b == round[r].batch
             B == Bare(live)
             clock == account.nextSeq
  <2>4. b.uploads = <<>> /\ b.deletions = {} /\ clock \in Nat
    BY <2>3
  <2>5. Bare(live') = B /\ account'.nextSeq = clock
    BY <2>1
  <2> HIDE DEF b, B, clock
  <2>6. Conflicts(B, b.uploads) = {} /\ ClockAfter(B, clock, b) = clock /\ RowsAfter(B, clock, b) = B
    BY <2>4, NothingWritten
  <2> QED
    BY <2>5, <2>6 DEF b, B, clock
<1> QED
  BY <1>1, <1>2, OnlyCommits

-----------------------------------------------------------------------------
(* Types, keys and decisions together.                                      *)

LEMMA FirmAtFirst == ASSUME Init PROVE Firm
BY TypedAtFirst, KeysSafeAtFirst, SoundAtFirst DEF Firm

LEMMA SameTables ==
    ASSUME UNCHANGED vars
    PROVE  /\ account' = account /\ usage' = usage /\ live' = live /\ history' = history /\ staged' = staged
           /\ pending' = pending /\ lastHid' = lastHid /\ objects' = objects /\ lastKey' = lastKey /\ pc' = pc
           /\ round' = round /\ hand' = hand /\ cut' = cut /\ exact' = exact /\ calm' = calm
BY DEF vars, tables, ghosts

LEMMA FirmStays == ASSUME Firm, [Next]_vars PROVE Firm'
<1>1. CASE Next
  BY <1>1, CoordinatorTyped, KeysStaySafe, SoundStays DEF Firm
<1>2. CASE UNCHANGED vars
  <2>1. Shaped'
    <3>1. TablesTyped'
      BY <1>2, SameTables DEF Firm, Shaped, TablesTyped
    <3>2. PlacesTyped'
      BY <1>2, SameTables DEF Firm, Shaped, PlacesTyped
    <3>3. RoundsTyped'
      <4>1. round' = round
        BY <1>2, SameTables
      <4> QED
        BY <4>1 DEF Firm, Shaped, RoundsTyped, RoundFits
    <3> QED
      BY <3>1, <3>2, <3>3 DEF Shaped
  <2>2. KeysSafe'
    BY <1>2, SameTables, SameKeys DEF Firm
  <2>3. Sound'
    <3>1. LiveSound' /\ VersionsSound' /\ OneEach'
      BY <1>2, SameTables DEF Firm, Sound, LiveSound, VersionsSound, OneEach
    <3>2. \A r \in Rounds : Before(r)' = Before(r) /\ Cleans(r)' = Cleans(r) /\ (Decides(round[r]) => Decides(round[r])')
      BY <1>2, SameTables DEF Before, Cleans, Decides
    <3> QED
      BY <1>2, <3>1, <3>2, SameTables DEF Firm, Sound, Decided, Continued
  <2> QED
    BY <2>1, <2>2, <2>3 DEF Firm
<1> QED
  BY <1>1, <1>2

-----------------------------------------------------------------------------
(* The count of versions is right.  Each action keeps UsageKept: lemmas     *)
(* ...Usage.                                                                *)

LEMMA CountedIs ==
    ASSUME NEW V
    PROVE  Counted(V) = CountedBy(live, V) /\ \A S : OfSlots(S) = Within(history, S)
BY DEF Counted, CountedBy, OlderVersions, OlderThan, OfSlots, Within

\* Sweeping leaves no count to keep.
LEMMA UsageQuiet ==
    ASSUME \A r \in Rounds : pc'[r] = "idle" \/ Dropping(r)', SweepCounts' \/ usage' = CountedBy(live', history')
    PROVE  UsageKept'
<1>1. \A r \in Rounds : ~Before(r)' /\ ~Cleans(r)' /\ ~Evicting(r)'
  BY DEF Before, Cleans, Dropping, Evicting
<1>2. CountsAlone' /\ CountRight'
  BY DEF CountsAlone, CountRight
<1>3. \A r \in Rounds : Remembered(r)'
  BY <1>1 DEF Remembered
<1> QED
  BY <1>2, <1>3 DEF UsageKept

\* A step that counts nothing and leaves versions alone.
LEMMA UsageSame ==
    ASSUME UsageKept, usage' = usage, live' = live, history' = history, exact' => exact,
           SweepCounts' = SweepCounts,
           \A r \in Rounds :
                /\ (Before(r)' => Before(r)) /\ (Cleans(r)' => Cleans(r)) /\ (Cleans(r) => Cleans(r)')
                /\ Cleans(r)' => pc'[r] = pc[r] /\ hand'[r] = hand[r]
                /\ Before(r)' \/ Cleans(r)' => round'[r] = round[r]
                /\ (pc[r] = "idle" \/ Dropping(r)) => (pc'[r] = "idle" \/ Dropping(r)')
    PROVE  UsageKept'
<1> SUFFICES ASSUME exact' PROVE CountsAlone' /\ CountRight' /\ \A r \in Rounds : Remembered(r)'
  BY DEF UsageKept
<1>1. CountsAlone /\ CountRight /\ \A r \in Rounds : Remembered(r)
  BY DEF UsageKept
<1>2. CountsAlone' /\ CountRight'
  BY <1>1 DEF CountsAlone, CountRight
<1>3. ASSUME NEW r \in Rounds PROVE Remembered(r)'
  <2>1. Evicting(r)' => Cleans(r)'
    BY DEF Evicting, Cleans
  <2>2. CASE Before(r)' \/ Cleans(r)'
    <3>1. /\ round'[r] = round[r] /\ (Before(r)' => Before(r)) /\ (Cleans(r)' => Cleans(r))
          /\ Cleans(r)' => pc'[r] = pc[r] /\ hand'[r] = hand[r]
      BY <2>2
    <3>2. Cleans(r)' => Evicting(r)' = Evicting(r)
      BY <3>1 DEF Evicting
    <3>3. Remembered(r)
      BY <1>1
    <3> QED
      BY <2>1, <3>1, <3>2, <3>3 DEF Remembered
  <2>3. CASE ~(Before(r)' \/ Cleans(r)')
    BY <2>1, <2>3 DEF Remembered
  <2> QED
    BY <2>2, <2>3
<1> QED
  BY <1>2, <1>3

\* While the sweep counts no round does.
LEMMA SweepingAlone ==
    ASSUME Shaped, UsageKept, exact, SweepCounts, NEW s, Go(Sweep, s)
    PROVE  \A r \in Rounds : pc'[r] = "idle" \/ Dropping(r)'
<1>1. \A r \in Rounds : pc'[r] = pc[r]
  BY MovesOne, SweepIs DEF Shaped
<1> QED
  BY <1>1 DEF UsageKept, CountsAlone, Dropping

LEMMA SweepUsage ==
    ASSUME Shaped, UsageKept, SweepStep
    PROVE  UsageKept'
<1>0. PlacesTyped /\ \A r \in Rounds : r \in Processes /\ r # Sweep
  BY SweepIs DEF Shaped
<1>1. CASE StartSweep
  <2>1. Go(Sweep, "purge") /\ exact' = (exact /\ Idle)
    BY <1>1 DEF StartSweep
  <2>2. pc'[Sweep] = "purge" /\ \A r \in Rounds : pc'[r] = pc[r]
    BY <1>0, <2>1, MovesOne, SweepIs
  <2>3. CASE Idle
    <3>1. SweepCounts' /\ \A r \in Rounds : pc'[r] = "idle"
      BY <2>2, <2>3 DEF SweepCounts, Idle, At
    <3> QED
      BY <3>1, UsageQuiet
  <2>4. CASE ~Idle
    BY <2>1, <2>4 DEF UsageKept
  <2> QED
    BY <2>3, <2>4
<1>2. CASE EnforceWindow
  <2>1. PICK s \in {"find", "recount"} : pc[Sweep] = "window" /\ Go(Sweep, s) /\ exact' = exact
    BY <1>2 DEF EnforceWindow, CleanUp, At, ghosts
  <2>2. pc'[Sweep] = s
    BY <1>0, <2>1, MovesOne, SweepIs
  <2>3. SweepCounts /\ SweepCounts'
    BY <2>1, <2>2 DEF SweepCounts
  <2>4. CASE exact
    BY <2>1, <2>3, <2>4, SweepingAlone, UsageQuiet
  <2>5. CASE ~exact
    BY <2>1, <2>5 DEF UsageKept
  <2> QED
    BY <2>4, <2>5
<1>3. CASE Recount
  <2>1. Go(Sweep, "abandoned") /\ exact' = Idle /\ usage' = Counted(history) /\ UNCHANGED <<live, history>>
    BY <1>3 DEF Recount
  <2>2. \A r \in Rounds : pc'[r] = pc[r]
    BY <1>0, <2>1, MovesOne, SweepIs
  <2>3. usage' = CountedBy(live', history')
    BY <2>1, CountedIs
  <2>4. CASE Idle
    <3>1. \A r \in Rounds : pc'[r] = "idle"
      BY <2>2, <2>4 DEF Idle, At
    <3> QED
      BY <2>3, <3>1, UsageQuiet
  <2>5. CASE ~Idle
    BY <2>1, <2>5 DEF UsageKept
  <2> QED
    BY <2>4, <2>5
<1>4. CASE ReadAbandoned \/ ReleaseReservations \/ ReclaimObjects
  <2>1. PICK s \in {"release", "reclaim", "idle"} :
            /\ pc[Sweep] \in {"abandoned", "release", "reclaim"} /\ Go(Sweep, s)
            /\ (\E h : Hold(Sweep, h)) /\ UNCHANGED <<usage, live, history, round, exact>>
    <3>1. CASE ReadAbandoned
      BY <1>4, <3>1 DEF ReadAbandoned, At, tables, ghosts
    <3>2. CASE ReleaseReservations \/ ReclaimObjects
      BY <1>4, <3>2 DEF ReleaseReservations, ReclaimObjects, At, tables, ghosts
    <3> QED
      BY <1>4, <3>1, <3>2
  <2>2. /\ pc'[Sweep] = s /\ \A r \in Rounds : pc'[r] = pc[r] /\ hand'[r] = hand[r]
    BY <1>0, <2>1, MovesOne, HoldsOne, SweepIs
  <2>3. SweepCounts' = SweepCounts
    BY <2>1, <2>2 DEF SweepCounts
  <2>4. \A r \in Rounds : Before(r)' = Before(r) /\ Cleans(r)' = Cleans(r) /\ Dropping(r)' = Dropping(r)
    BY <2>2 DEF Before, Cleans, Dropping
  <2> QED
    BY <2>1, <2>2, <2>3, <2>4, UsageSame
<1> QED
  BY <1>1, <1>2, <1>3, <1>4 DEF SweepStep

\* The sweep is where it was, when a round moves.
LEMMA SweepStands ==
    ASSUME Shaped, NEW r \in Rounds, NEW s, Go(r, s)
    PROVE  pc'[Sweep] = pc[Sweep] /\ SweepCounts' = SweepCounts
<1>1. pc'[Sweep] = pc[Sweep]
  BY MovesOne, SweepIs DEF Shaped
<1> QED
  BY <1>1 DEF SweepCounts

\* A cleanup of the sweep disturbs no count: no round is under way.
LEMMA SweepCleaningUsage ==
    ASSUME Shaped, UsageKept, Cleaning(Sweep)
    PROVE  UsageKept'
<1>0. PlacesTyped /\ FitsAt(Sweep, pc[Sweep], hand[Sweep]) /\ Sweep \in Processes
  BY SweepIs DEF Shaped, PlacesTyped
<1>1. PICK s : Go(Sweep, s) /\ SweepCounts /\ exact' = exact
               /\ s \in {"objects", "rows", "erase", "unstage", "find", "staged", "window", "recount"}
  <2>1. CASE FindUnreferenced(Sweep) \/ DeleteObjects(Sweep) \/ ReadStaged(Sweep) \/ EraseStaged(Sweep)
    BY <2>1 DEF FindUnreferenced, DeleteObjects, ReadStaged, EraseStaged, At, SweepCounts, ghosts
  <2>2. CASE PurgeVersions(Sweep)
    BY <2>2 DEF PurgeVersions, CleanUp, At, SweepCounts, ghosts
  <2>3. CASE DeleteRows(Sweep)
    <3>1. hand[Sweep].then \in {"staged", "recount"} /\ pc[Sweep] = "rows"
      BY <1>0, <2>3 DEF DeleteRows, At, FitsAt
    <3> QED
      BY <2>3, <3>1 DEF DeleteRows, SweepCounts, ghosts
  <2>4. CASE Unstage(Sweep)
    BY <2>4 DEF Unstage, At, SweepCounts, ghosts
  <2> QED
    BY <2>1, <2>2, <2>3, <2>4 DEF Cleaning
<1>2. SweepCounts'
  BY <1>0, <1>1, MovesOne DEF SweepCounts
<1>3. CASE exact
  BY <1>1, <1>2, <1>3, SweepingAlone, UsageQuiet
<1>4. CASE ~exact
  BY <1>1, <1>4 DEF UsageKept
<1> QED
  BY <1>3, <1>4

LEMMA CutUsage ==
    ASSUME Shaped, KeysSafe, UsageKept, NEW p \in Processes, CutShort(p)
    PROVE  UsageKept'
<1>0. PlacesTyped /\ pc[p] \in StepsOf(p) /\ Locked /\ \A r \in Rounds : r \in Processes /\ r # Sweep
  BY SweepIs DEF Shaped, PlacesTyped, KeysSafe
<1>1. /\ Go(p, "idle") /\ Hold(p, Nothing)
      /\ round' = [r \in Rounds |-> IF r = p THEN NoRound ELSE round[r]]
      /\ exact' = (exact /\ pc[p] \in {"supersede", "reserve", "put", "commit", "drop", "dropRows",
                                       "abandoned", "release", "reclaim"})
      /\ UNCHANGED <<usage, live, history>>
  BY DEF CutShort, tables
<1>2. /\ pc'[p] = "idle" /\ \A q \in Processes : q # p => pc'[q] = pc[q] /\ hand'[q] = hand[q]
  BY <1>0, <1>1, MovesOne, HoldsOne
<1>3. CASE ~exact'
  BY <1>3 DEF UsageKept
<1>4. CASE exact'
  <2>1. pc[p] \in {"supersede", "reserve", "put", "commit", "drop", "dropRows", "abandoned", "release", "reclaim"}
    BY <1>1, <1>4
  <2>2. SweepCounts' = SweepCounts
    <3>1. CASE p = Sweep
      BY <1>0, <1>2, <2>1, <3>1 DEF SweepCounts, StepsOf, SweepSteps
    <3>2. CASE p # Sweep
      BY <1>2, <3>2, SweepIs DEF SweepCounts
    <3> QED
      BY <3>1, <3>2
  <2>3. p \in Rounds => ~Cleans(p)
    BY <2>1 DEF Cleans
  <2>4. \A r \in Rounds :
                /\ (Before(r)' => Before(r)) /\ (Cleans(r)' => Cleans(r)) /\ (Cleans(r) => Cleans(r)')
                /\ Cleans(r)' => pc'[r] = pc[r] /\ hand'[r] = hand[r]
                /\ Before(r)' \/ Cleans(r)' => round'[r] = round[r]
                /\ (pc[r] = "idle" \/ Dropping(r)) => (pc'[r] = "idle" \/ Dropping(r)')
    <3> SUFFICES ASSUME NEW r \in Rounds
                 PROVE
                    /\ (Before(r)' => Before(r)) /\ (Cleans(r)' => Cleans(r)) /\ (Cleans(r) => Cleans(r)')
                    /\ Cleans(r)' => pc'[r] = pc[r] /\ hand'[r] = hand[r]
                    /\ Before(r)' \/ Cleans(r)' => round'[r] = round[r]
                    /\ (pc[r] = "idle" \/ Dropping(r)) => (pc'[r] = "idle" \/ Dropping(r)')
      OBVIOUS
    <3>1. CASE r = p
      BY <1>2, <2>3, <3>1 DEF Before, Cleans, Dropping
    <3>2. CASE r # p
      BY <1>0, <1>1, <1>2, <3>2 DEF Before, Cleans, Dropping
    <3> QED
      BY <3>1, <3>2
  <2>5. exact' => exact
    BY <1>1
  <2> QED
    BY <1>1, <2>2, <2>4, <2>5, UsageSame
<1> QED
  BY <1>3, <1>4

\* The step of a round r that neither commits nor cleans up, before or after.
LEMMA UsageStands ==
    ASSUME Shaped, KeysSafe, UsageKept, NEW r \in Rounds, NEW s, Go(r, s),
           usage' = usage, live' = live, history' = history, exact' = exact,
           ~Cleans(r), s \notin CleanSteps, \A q \in Rounds : round'[q] = round[q],
           Idle \/ pc[r] # "idle", Dropping(r) => s \in {"drop", "dropRows"},
           Idle => s \in {"drop", "dropRows"}, s \in BeforeSteps => Before(r)
    PROVE  UsageKept'
<1>0. PlacesTyped /\ r \in Processes /\ \A q \in Rounds : q \in Processes
  BY SweepIs DEF Shaped
<1>1. pc'[r] = s /\ \A q \in Processes : q # r => pc'[q] = pc[q]
  BY <1>0, MovesOne
<1>2. SweepCounts' = SweepCounts
  BY SweepStands
<1>3. \A q \in Rounds : q # r => pc[q] = "idle" /\ pc'[q] = "idle"
  BY <1>0, <1>1 DEF KeysSafe, Locked, Idle, At
<1>4. ~Cleans(r)'
  BY <1>1 DEF Cleans, CleanSteps
<1>5. Before(r)' => Before(r)
  BY <1>1 DEF Before, BeforeSteps
<1>6. (pc[r] = "idle" \/ Dropping(r)) => (pc'[r] = "idle" \/ Dropping(r)')
  <2>1. pc[r] = "idle" => Idle
    BY <1>3 DEF Idle, At
  <2> QED
    BY <1>1, <2>1 DEF Dropping
<1>7. \A q \in Rounds :
                /\ (Before(q)' => Before(q)) /\ (Cleans(q)' => Cleans(q)) /\ (Cleans(q) => Cleans(q)')
                /\ Cleans(q)' => pc'[q] = pc[q] /\ hand'[q] = hand[q]
                /\ Before(q)' \/ Cleans(q)' => round'[q] = round[q]
                /\ (pc[q] = "idle" \/ Dropping(q)) => (pc'[q] = "idle" \/ Dropping(q)')
  <2> SUFFICES ASSUME NEW q \in Rounds, q # r
               PROVE  ~Before(q)' /\ ~Cleans(q)' /\ ~Cleans(q) /\ pc'[q] = "idle"
    BY <1>4, <1>5, <1>6
  <2> QED
    BY <1>3 DEF Before, Cleans
<1> QED
  BY <1>2, <1>7, UsageSame

LEMMA PlainRoundUsage ==
    ASSUME Shaped, KeysSafe, UsageKept, NEW r \in Rounds,
           DropSuperseded(r) \/ Reserve(r) \/ PutObject(r) \/ DeleteAccount(r) \/ DropObjects(r)
    PROVE  UsageKept'
<1>1. PICK s \in {"reserve", "put", "commit", "drop", "dropRows"} :
        /\ Go(r, s) /\ UNCHANGED <<usage, live, history, round, exact>>
        /\ \/ pc[r] \in {"supersede", "reserve", "put"} /\ s \in BeforeSteps
           \/ (Idle \/ pc[r] = "drop") /\ s \notin BeforeSteps
  <2>1. CASE DropSuperseded(r) \/ Reserve(r) \/ PutObject(r)
    BY <2>1 DEF DropSuperseded, Reserve, PutObject, At, tables, ghosts, BeforeSteps
  <2>2. CASE DeleteAccount(r) \/ DropObjects(r)
    BY <2>2 DEF DeleteAccount, DropObjects, LockFree, At, tables, ghosts, BeforeSteps
  <2> QED
    BY <2>1, <2>2
<1>2. s \notin CleanSteps
  BY DEF CleanSteps
<1>3. CASE pc[r] \in {"supersede", "reserve", "put"} /\ s \in BeforeSteps
  BY <1>1, <1>2, <1>3, UsageStands DEF Cleans, Before, Dropping, Idle, At
<1>4. CASE (Idle \/ pc[r] = "drop") /\ s \notin BeforeSteps
  <2>1. s \in {"drop", "dropRows"}
    BY <1>4 DEF BeforeSteps
  <2>2. ~Cleans(r) /\ (Idle \/ pc[r] # "idle")
    BY <1>4 DEF Cleans, Idle, At
  <2> QED
    BY <1>1, <1>2, <1>4, <2>1, <2>2, UsageStands
<1> QED
  BY <1>1, <1>3, <1>4

LEMMA NoVersions == CountedBy({}, {}) = NoUsage
<1>1. OlderThan({}, {}) = {}
  BY DEF OlderThan
<1> QED
  BY <1>1, NoRows DEF CountedBy, NoUsage

LEMMA DropRowsUsage ==
    ASSUME Shaped, KeysSafe, NEW r \in Rounds, DropRows(r)
    PROVE  UsageKept'
<1>1. /\ pc[r] = "dropRows" /\ Go(r, "idle") /\ usage' = NoUsage /\ live' = {} /\ history' = {}
  BY DEF DropRows, At
<1>2. \A q \in Rounds : pc'[q] = "idle"
  BY <1>1, Others DEF Shaped, KeysSafe
<1>3. usage' = CountedBy(live', history')
  BY <1>1, NoVersions
<1> QED
  BY <1>2, <1>3, UsageQuiet

LEMMA CreateUsage ==
    ASSUME Shaped, UsageKept, CreateAccount
    PROVE  UsageKept'
<1>1. UNCHANGED <<usage, live, history, round, exact, pc, hand>>
  BY DEF CreateAccount, ghosts
<1>2. SweepCounts' = SweepCounts
  BY <1>1 DEF SweepCounts
<1>3. \A r \in Rounds : Before(r)' = Before(r) /\ Cleans(r)' = Cleans(r) /\ Dropping(r)' = Dropping(r)
  BY <1>1 DEF Before, Cleans, Dropping
<1> QED
  BY <1>1, <1>2, <1>3, UsageSame

LEMMA UsageAtFirst == ASSUME Init PROVE UsageKept
<1>1. \A r \in Rounds : pc[r] = "idle" /\ ~Before(r) /\ ~Cleans(r) /\ ~Evicting(r)
  BY SweepIs DEF Init, Before, Cleans, Evicting
<1>2. usage = CountedBy(live, history)
  BY NoVersions DEF Init
<1> QED
  BY <1>1, <1>2 DEF UsageKept, CountsAlone, CountRight, Remembered

\* A round that begins reads the count.
LEMMA BeginUsage ==
    ASSUME Shaped, UsageKept, NEW r \in Rounds, NEW b \in Batches, Begin(r, b)
    PROVE  UsageKept'
<1>0. PlacesTyped /\ TablesTyped /\ RoundsTyped /\ r \in Processes /\ \A q \in Rounds : q \in Processes
  BY SweepIs DEF Shaped
<1>1. /\ Idle /\ (exact' => exact /\ ~SweepCounts) /\ UNCHANGED <<usage, live, history>>
  BY DEF Begin, LockFree, tables
<1>2. PICK s \in BeforeSteps : Go(r, s)
  BY DEF Begin, BeforeSteps
<1>3. pc'[r] = s /\ \A q \in Rounds : q # r => pc'[q] = "idle"
  BY <1>0, <1>1, <1>2, MovesOne DEF Idle, At
<1>4. SweepCounts' = SweepCounts
  BY <1>2, SweepStands
<1>5. PICK m : m = round'[r] /\ Remembers(m, b)
  BY <1>0, BeginIs
\* Unless an upload is held whose record has older versions, those counted before are
\* those of the records that the round writes.
<1>6. /\ m.batch = b /\ m.seen = usage
      /\ exact' => m.before = CountedBy(live, Within(history, WrittenSlots(m.new, m.batch)))
  <2>1. m.batch = b /\ m.new = NewEnvelopes(b) /\ m.seen = usage /\ m.before = Counted(OfSlots(TouchedSlots(b)))
    BY <1>5 DEF Remembers
  <2>2. SlotsOf(m.new) \subseteq TouchedSlots(b)
    BY <1>0, <2>1, NewEnvelopesAre DEF NewFit, SlotsOf, TouchedSlots
  <2>3. WrittenSlots(m.new, m.batch) \subseteq TouchedSlots(b)
    BY <2>1, <2>2 DEF WrittenSlots, TouchedSlots
  <2>4. exact' => OlderVersions(OfSlots(TouchedSlots(b) \ WrittenSlots(m.new, m.batch))) = {}
    BY <2>1 DEF Begin
  <2>5. exact' => OlderVersions(OfSlots(TouchedSlots(b))) = OlderVersions(OfSlots(WrittenSlots(m.new, m.batch)))
    BY <2>3, <2>4 DEF OlderVersions, OfSlots
  <2>6. exact' => m.before = Counted(OfSlots(WrittenSlots(m.new, m.batch)))
    BY <2>1, <2>5 DEF Counted
  <2> QED
    BY <2>1, <2>6, CountedIs
<1>7. Before(r)' /\ ~Cleans(r)' /\ ~Evicting(r)' /\ \A q \in Rounds : q # r => ~Before(q)' /\ ~Cleans(q)' /\ ~Evicting(q)'
  BY <1>3 DEF Before, Cleans, Evicting, BeforeSteps
<1>8. exact' => \A q \in Rounds : Remembered(q)'
  <2>1. exact' => Remembered(r)'
    BY <1>1, <1>5, <1>6, <1>7 DEF Remembered
  <2> QED
    BY <1>7, <2>1 DEF Remembered
<1>9. exact' => CountsAlone' /\ CountRight'
  <2>1. \A q \in Rounds : ~Cleans(q)
    BY <1>1 DEF Idle, At, Cleans
  <2> QED
    BY <1>1, <1>4, <2>1 DEF UsageKept, CountsAlone, CountRight
<1> QED
  BY <1>8, <1>9 DEF UsageKept

\* A step of a round that cleans up, when it still does: what the count needs.
LEMMA UsageCleans ==
    ASSUME Shaped, KeysSafe, NEW r \in Rounds, NEW s \in CleanSteps, Go(r, s), pc[r] # "idle",
           exact' => ~SweepCounts /\ Remembered(r)'
    PROVE  UsageKept'
<1>0. PlacesTyped /\ Locked /\ r \in Processes
  BY SweepIs DEF Shaped, KeysSafe
<1>1. pc'[r] = s /\ \A q \in Rounds : q # r => pc'[q] = "idle"
  BY <1>0, Others
<1>2. SweepCounts' = SweepCounts
  BY SweepStands
<1>3. Cleans(r)' /\ \A q \in Rounds : q # r => ~Before(q)' /\ ~Cleans(q)' /\ ~Evicting(q)'
  BY <1>1 DEF Cleans, CleanSteps, Before, Evicting
<1>4. \A q \in Rounds : q # r => Remembered(q)'
  BY <1>3 DEF Remembered
<1> QED
  BY <1>2, <1>3, <1>4 DEF UsageKept, CountsAlone, CountRight

LEMMA CommitUsage ==
    ASSUME Shaped, KeysSafe, Sound, UsageKept, NEW r \in Rounds, Commit(r)
    PROVE  UsageKept'
<1> DEFINE m == round[r]
           T == WrittenSlots(m.new, m.batch)
<1>0. /\ TablesTyped /\ PlacesTyped /\ r \in Processes /\ Locked /\ FitsAt(r, pc[r], hand[r])
      /\ RoundFits(m)
  BY SweepIs DEF Shaped, KeysSafe, PlacesTyped, RoundsTyped
<1>1. CommitFits(r)
  BY CommitWrites
<1>2. /\ pc[r] = "commit" /\ history' = history \cup Versions(m.new, Prior(r))
      /\ UNCHANGED <<usage, round, hand, exact>>
  BY CommitIs DEF ghosts
<1>3. PICK s \in {"purge", "prune"} : Go(r, s)
  BY CommitIs
<1>4. pc'[r] = s /\ \A q \in Rounds : q # r => pc[q] = "idle"
  BY <1>0, <1>2, <1>3, Others
<1>5. SlotsOf(m.new) \subseteq T /\ SlotsOf(m.removed) \subseteq T
  BY <1>0 DEF RoundFits
<1> HIDE DEF T
<1>6. \A h \in Versions(m.new, Prior(r)) : h.slot \in T
  <2> SUFFICES ASSUME NEW h \in Versions(m.new, Prior(r)) PROVE h.slot \in T
    OBVIOUS
  <2>1. PICK n \in m.new : \/ h = Version(lastHid + 2 * Rank(m.new, n), n)
                           \/ \E l \in Unsaved(n, Prior(r)) : h = Version(lastHid + 2 * Rank(m.new, n) - 1, l)
    BY VersionsAre
  <2>2. \A k, x : Version(k, x).slot = x.slot
    BY DEF Version
  <2>3. \A l \in Unsaved(n, Prior(r)) : l.slot = n.slot
    BY DEF Unsaved
  <2>4. n.slot \in T
    BY <1>5 DEF SlotsOf
  <2> QED
    BY <2>1, <2>2, <2>3, <2>4
<1>7. Besides(history', T) = Besides(history, T)
  BY <1>2, <1>6 DEF Besides
<1>8. OlderThan(live', Besides(history, T)) = OlderThan(live, Besides(history, T))
  <2>1. \A l \in live : l.slot \notin T => l \in live'
    <3> SUFFICES ASSUME NEW l \in live, l.slot \notin T PROVE l \in live'
      OBVIOUS
    <3>1. l \notin m.removed /\ l.slot \notin SlotsOf(m.new)
      BY <1>5 DEF SlotsOf
    <3> QED
      BY <1>1, <3>1 DEF CommitFits
  <2>2. \A l \in live' : l.slot \notin T => l \in live
    BY <1>1, <1>5 DEF CommitFits, SlotsOf
  <2> QED
    BY <2>1, <2>2 DEF OlderThan, Besides
<1>9. CountedBy(live', Besides(history', T)) = CountedBy(live, Besides(history, T))
  BY <1>7, <1>8 DEF CountedBy
<1>10. ASSUME exact' PROVE ~SweepCounts /\ Remembered(r)'
  <2>1. CountsAlone /\ CountRight /\ Remembered(r) /\ Before(r)
    BY <1>2, <1>10 DEF UsageKept, Before
  <2>2. ~SweepCounts
    BY <1>2, <2>1 DEF CountsAlone, Dropping
  <2>3. usage = CountedBy(live, history)
    <3>1. \A q \in Rounds : ~Cleans(q)
      BY <1>2, <1>4 DEF Cleans
    <3> QED
      BY <2>1, <2>2, <3>1 DEF CountRight
  <2>4. m.seen = usage /\ m.before = CountedBy(live, Within(history, T))
    BY <2>1 DEF Remembered, T
  <2>5. usage = Plus(CountedBy(live, Besides(history, T)), m.before)
    <3>1. history \in SUBSET VersionRow /\ IsFiniteSet(history) /\ Within(history, T) \in SUBSET history
      BY <1>0 DEF TablesTyped, Within
    <3>2. history \ Within(history, T) = Besides(history, T)
      BY DEF Within, Besides
    <3>3. Counted(history) = Plus(Counted(Besides(history, T)), Counted(Within(history, T)))
      BY <3>1, <3>2, CountedSplit
    <3> QED
      BY <2>3, <2>4, <3>3, CountedIs
  <2>6. hand'[r].hids = {}
    BY <1>0, <1>2 DEF FitsAt
  <2>7. Cleans(r)' /\ ~Before(r)' /\ ~Evicting(r)'
    BY <1>4 DEF Cleans, Before, Evicting
  <2>8. usage' = Plus(CountedBy(live', Besides(history', T)), m.before)
    BY <1>2, <1>9, <2>5
  <2>9. T = WrittenSlots(round'[r].new, round'[r].batch) /\ round'[r] = m
    BY <1>2 DEF T
  <2>10. Remembered(r)'
    BY <1>2, <2>4, <2>6, <2>7, <2>8, <2>9 DEF Remembered
  <2> QED
    BY <2>2, <2>10
<1>11. s \in CleanSteps /\ pc[r] # "idle"
  BY <1>2 DEF CleanSteps
<1> QED
  BY <1>3, <1>10, <1>11, UsageCleans

\* A cleanup of the records of the batch leaves the other versions alone.
LEMMA UsageBefore ==
    ASSUME Shaped, KeysSafe, UsageKept, NEW r \in Rounds, NEW s \in CleanSteps, NEW h, Go(r, s), Hold(r, h),
           Cleans(r), ~Evicting(r), s # "usage", s \in {"find", "objects", "rows"} => h.then # "usage",
           usage' = usage, live' = live, round' = round, exact' = exact,
           Besides(history', WrittenSlots(round[r].new, round[r].batch)) = Besides(history, WrittenSlots(round[r].new, round[r].batch)),
           \A v \in Besides(history, WrittenSlots(round[r].new, round[r].batch)) : v.hid \notin h.hids
    PROVE  UsageKept'
<1>0. PlacesTyped /\ r \in Processes
  BY SweepIs DEF Shaped
<1>1. pc'[r] = s /\ hand'[r] = h
  BY <1>0, MovesOne, HoldsOne
<1>2. pc[r] # "idle" /\ ~Dropping(r) /\ ~Before(r)
  BY DEF Cleans, Dropping, Before
<1>3. Cleans(r)' /\ ~Before(r)' /\ ~Evicting(r)'
  BY <1>1 DEF Cleans, CleanSteps, Before, Evicting
<1>4. ASSUME exact' PROVE ~SweepCounts /\ Remembered(r)'
  <2>1. ~SweepCounts /\ Remembered(r)
    BY <1>2, <1>4 DEF UsageKept, CountsAlone
  <2>2. round[r].seen = usage /\ usage = Plus(CountedBy(live, Besides(history, WrittenSlots(round[r].new, round[r].batch))), round[r].before)
    BY <2>1 DEF Remembered
  <2> QED
    BY <1>1, <1>3, <2>1, <2>2 DEF Remembered
<1> QED
  BY <1>2, <1>4, UsageCleans

\* An eviction leaves what was counted.
LEMMA UsageEvicts ==
    ASSUME Shaped, KeysSafe, UsageKept, NEW r \in Rounds, NEW s \in CleanSteps, NEW h, Go(r, s), Hold(r, h),
           Evicting(r), s = "usage" \/ (s \in {"find", "objects", "rows"} /\ h.then = "usage"),
           usage' = usage, live' = live, round' = round, exact' = exact,
           Without(history', h.hids) = Without(history, hand[r].hids)
    PROVE  UsageKept'
<1>0. PlacesTyped /\ r \in Processes
  BY SweepIs DEF Shaped
<1>1. pc'[r] = s /\ hand'[r] = h
  BY <1>0, MovesOne, HoldsOne
<1>2. pc[r] # "idle" /\ ~Dropping(r) /\ ~Before(r) /\ Cleans(r)
  BY DEF Evicting, Dropping, Before, Cleans
<1>3. Cleans(r)' /\ ~Before(r)' /\ Evicting(r)'
  BY <1>1 DEF Cleans, CleanSteps, Before, Evicting
<1>4. ASSUME exact' PROVE ~SweepCounts /\ Remembered(r)'
  <2>1. ~SweepCounts /\ Remembered(r)
    BY <1>2, <1>4 DEF UsageKept, CountsAlone
  <2>2. round[r].seen = usage /\ round[r].now = CountedBy(live, Without(history, hand[r].hids))
    BY <1>2, <2>1 DEF Remembered
  <2> QED
    BY <1>1, <1>3, <2>1, <2>2 DEF Remembered
<1> QED
  BY <1>2, <1>4, UsageCleans

\* No two versions have one number: those of other records are not among the numbers.
LEMMA OtherHids ==
    ASSUME VersionsSound, NEW T, NEW V \in SUBSET history, \A h \in V : h.slot \in T
    PROVE  \A v \in Besides(history, T) : v.hid \notin { h.hid : h \in V }
BY DEF VersionsSound, Besides

LEMMA RoundCleaningUsage ==
    ASSUME Shaped, KeysSafe, Sound, UsageKept, NEW r \in Rounds, Cleaning(r)
    PROVE  UsageKept'
<1> DEFINE T == WrittenSlots(round[r].new, round[r].batch)
           quiet == usage' = usage /\ live' = live /\ round' = round /\ exact' = exact
<1>0. /\ PlacesTyped /\ r \in Processes /\ r # Sweep /\ FitsAt(r, pc[r], hand[r]) /\ hand[r] \in Held
      /\ hand[r].then \in Nexts /\ VersionsSound /\ RoundFits(round[r]) /\ TablesTyped
  BY SweepIs, HeldFields DEF Shaped, PlacesTyped, RoundsTyped, Sound
<1>1. Nothing.hids = {} /\ Nothing.then = "idle"
  BY NothingIs
<1>2. ASSUME ~(FindUnreferenced(r) \/ DeleteObjects(r) \/ DeleteRows(r)) PROVE ~Evicting(r)
  BY <1>2 DEF Cleaning, PurgeVersions, ReadStaged, EraseStaged, Unstage, At, Evicting
<1>3. CASE FindUnreferenced(r) \/ DeleteObjects(r)
  <2>1. PICK s, h :
            /\ s \in {"objects", "rows"}
            /\ Go(r, s) /\ Hold(r, h) /\ quiet /\ history' = history /\ pc[r] \in {"find", "objects"}
            /\ h.hids = hand[r].hids /\ h.then = hand[r].then
    <3>1. CASE FindUnreferenced(r)
      <4> DEFINE keys == Unreferenced(hand[r].hids)
                 h == [hand[r] EXCEPT !.keys = keys]
      <4>1. Go(r, "objects") /\ Hold(r, h) /\ quiet /\ history' = history /\ pc[r] = "find"
        BY <3>1 DEF FindUnreferenced, At, tables, ghosts
      <4> HIDE DEF keys
      <4>2. h = [hids |-> hand[r].hids, keys |-> keys, rows |-> hand[r].rows, then |-> hand[r].then]
        BY <1>0, HeldPart
      <4> HIDE DEF h
      <4>3. h.hids = hand[r].hids /\ h.then = hand[r].then
        BY <4>2
      <4> QED
        BY <4>1, <4>3
    <3>2. CASE DeleteObjects(r)
      <4>1. Go(r, "rows") /\ hand' = hand /\ quiet /\ history' = history /\ pc[r] = "objects"
        BY <3>2 DEF DeleteObjects, At, tables, ghosts
      <4>2. Hold(r, hand[r])
        BY <1>0, <4>1, MovedOnly
      <4> QED
        BY <4>1, <4>2
    <3> QED
      BY <1>3, <3>1, <3>2
  <2>2. s \in CleanSteps /\ Cleans(r) /\ s \in {"find", "objects", "rows"} /\ s # "usage"
    BY <2>1 DEF CleanSteps, Cleans
  <2>3. CASE hand[r].then = "usage"
    <3>1. Evicting(r) /\ Without(history', h.hids) = Without(history, hand[r].hids)
      BY <2>1, <2>3 DEF Evicting
    <3> QED
      BY <2>1, <2>2, <2>3, <3>1, UsageEvicts
  <2>4. CASE hand[r].then # "usage"
    <3>1. ~Evicting(r)
      BY <2>1, <2>4 DEF Evicting
    <3>2. CASE exact
      <4>1. \A v \in Besides(history, T) : v.hid \notin h.hids
        BY <2>1, <2>2, <3>1, <3>2 DEF UsageKept, Remembered
      <4> QED
        BY <2>1, <2>2, <2>4, <3>1, <4>1, UsageBefore
    <3>3. CASE ~exact
      BY <2>1, <3>3 DEF UsageKept
    <3> QED
      BY <3>2, <3>3
  <2> QED
    BY <2>3, <2>4
<1>4. CASE DeleteRows(r)
  <2>1. /\ pc[r] = "rows" /\ Go(r, hand[r].then) /\ Hold(r, Nothing) /\ quiet
        /\ history' = Without(history, hand[r].hids)
    BY <1>4 DEF DeleteRows, At, ghosts, Without
  <2>2. hand[r].then \in {"staged", "count", "usage"} /\ Cleans(r)
    BY <1>0, <2>1 DEF FitsAt, Cleans
  <2>3. hand[r].then \in CleanSteps /\ hand[r].then \notin {"find", "objects", "rows"}
    BY <2>2 DEF CleanSteps
  <2>4. CASE hand[r].then = "usage"
    <3>1. Without(history', Nothing.hids) = Without(history, hand[r].hids)
      BY <1>1, <2>1 DEF Without
    <3>2. Evicting(r)
      BY <2>1, <2>4 DEF Evicting
    <3> QED
      BY <2>1, <2>3, <2>4, <3>1, <3>2, UsageEvicts
  <2>5. CASE hand[r].then # "usage"
    <3>1. ~Evicting(r)
      BY <2>1, <2>5 DEF Evicting
    <3>2. CASE exact
      <4>1. \A v \in Besides(history, T) : v.hid \notin hand[r].hids
        BY <2>2, <3>1, <3>2 DEF UsageKept, Remembered
      <4>2. Besides(history', T) = Besides(history, T)
        BY <2>1, <4>1 DEF Besides, Without
      <4>3. \A v \in Besides(history, T) : v.hid \notin Nothing.hids
        BY <1>1
      <4> QED
        BY <2>1, <2>2, <2>3, <2>5, <3>1, <4>2, <4>3, UsageBefore
    <3>3. CASE ~exact
      BY <2>1, <3>3 DEF UsageKept
    <3> QED
      BY <3>2, <3>3
  <2> QED
    BY <2>4, <2>5
<1>5. CASE PurgeVersions(r)
  <2> DEFINE V == OfSlots(SlotsOf(Scope(r)) \ SlotsOf(live))
             hids == { v.hid : v \in V }
             h == [Nothing EXCEPT !.hids = hids, !.then = "staged"]
             s == IF hids = {} THEN "staged" ELSE "find"
  <2>1. V \in SUBSET history /\ \A v \in V : v.slot \in T
    <3>1. SlotsOf(Scope(r)) \subseteq SlotsOf(round[r].removed)
      BY <1>0 DEF Scope, SlotsOf
    <3> QED
      BY <1>0, <3>1 DEF OfSlots, RoundFits
  <2>2. /\ pc[r] = "purge" /\ Go(r, s) /\ Hold(r, h) /\ quiet /\ history' = history
    BY <1>5 DEF PurgeVersions, CleanUp, At, tables, ghosts
  <2> HIDE DEF V
  <2>3. hids \in SUBSET Nat /\ "staged" \in Nexts
    BY <1>0, <2>1, HidsTyped DEF Nexts
  <2>4. \A v \in Besides(history, T) : v.hid \notin hids
    BY <1>0, <2>1, OtherHids
  <2> HIDE DEF hids
  <2>5. h = [hids |-> hids, keys |-> {}, rows |-> {}, then |-> "staged"]
    BY <2>3, HeldVersions
  <2> HIDE DEF h
  <2>6. h.hids = hids /\ h.then # "usage"
    BY <2>5
  <2>7. s \in CleanSteps /\ s # "usage" /\ Cleans(r)
    BY <2>2 DEF CleanSteps, Cleans
  <2>8. ~Evicting(r)
    BY <2>2 DEF Evicting
  <2> HIDE DEF s
  <2> QED
    BY <2>2, <2>4, <2>6, <2>7, <2>8, UsageBefore
<1>6. CASE ReadStaged(r) \/ EraseStaged(r) \/ Unstage(r)
  <2>1. PICK s, h :
            /\ s \in {"erase", "unstage", "prune"}
            /\ pc[r] \in {"staged", "erase", "unstage"} /\ Go(r, s) /\ Hold(r, h) /\ quiet /\ history' = history
            /\ h.hids = {}
    <3>1. CASE ReadStaged(r)
      <4> DEFINE keys == KeysOf(Scope(r)) \ (KeysOf(live) \cup KeysOf(history))
                 h == [Nothing EXCEPT !.rows = Scope(r), !.keys = keys]
      <4>1. pc[r] = "staged" /\ Go(r, "erase") /\ Hold(r, h) /\ quiet /\ history' = history
        BY <3>1 DEF ReadStaged, At, tables, ghosts
      <4>2. Scope(r) \in SUBSET staged
        BY DEF Scope
      <4>3. keys \in SUBSET Nat /\ Scope(r) \in SUBSET (StagedRow \cup Reservation)
        BY <1>0, <4>2, KeysTyped DEF TablesTyped
      <4> HIDE DEF keys
      <4>4. h = [hids |-> {}, keys |-> keys, rows |-> Scope(r), then |-> "idle"]
        BY <4>3, HeldDeletions
      <4> HIDE DEF h
      <4>5. h.hids = {}
        BY <4>4
      <4> QED
        BY <4>1, <4>5
    <3>2. CASE EraseStaged(r)
      <4>1. pc[r] = "erase" /\ Go(r, "unstage") /\ hand' = hand /\ quiet /\ history' = history
        BY <3>2 DEF EraseStaged, At, tables, ghosts
      <4>2. Hold(r, hand[r]) /\ hand[r].hids = {}
        BY <1>0, <4>1, MovedOnly DEF FitsAt
      <4> QED
        BY <4>1, <4>2
    <3>3. CASE Unstage(r)
      <4>1. pc[r] = "unstage" /\ Go(r, "prune") /\ Hold(r, Nothing) /\ quiet /\ history' = history
        BY <1>0, <3>3 DEF Unstage, At, ghosts
      <4> QED
        BY <1>1, <4>1
    <3> QED
      BY <1>6, <3>1, <3>2, <3>3
  <2>2. s \in CleanSteps /\ Cleans(r) /\ ~Evicting(r) /\ s # "usage" /\ s \notin {"find", "objects", "rows"}
    BY <2>1 DEF CleanSteps, Cleans, Evicting
  <2> QED
    BY <2>1, <2>2, UsageBefore
<1> QED
  BY <1>3, <1>4, <1>5, <1>6 DEF Cleaning

LEMMA PruneUsage ==
    ASSUME Shaped, KeysSafe, Sound, UsageKept, NEW r \in Rounds, PruneHistory(r)
    PROVE  UsageKept'
<1> DEFINE T == WrittenSlots(round[r].new, round[r].batch)
           V == Beyond({ h \in OfSlots(T) : h.id \notin round[r].continued }, Window)
                \cup { h \in history : h.id \in round[r].continued }
           hids == { v.hid : v \in V }
           h == [Nothing EXCEPT !.hids = hids, !.then = "count"]
           s == IF hids = {} THEN "count" ELSE "find"
<1>0. VersionsSound /\ RoundFits(round[r]) /\ TablesTyped
  BY DEF Shaped, RoundsTyped, Sound
<1>1. V \in SUBSET history /\ \A v \in V : v.slot \in T
  <2>1. \A v \in history : v.id \in round[r].continued => v.slot \in T
    BY <1>0 DEF RoundFits, TablesTyped, VersionRow
  <2>2. Beyond({ g \in OfSlots(T) : g.id \notin round[r].continued }, Window) \in SUBSET OfSlots(T)
    BY BeyondIn
  <2>3. \A v \in OfSlots(T) : v.slot \in T /\ v \in history
    BY DEF OfSlots
  <2> QED
    BY <2>1, <2>2, <2>3
<1>2. /\ pc[r] = "prune" /\ Go(r, s) /\ Hold(r, h)
      /\ usage' = usage /\ live' = live /\ round' = round /\ exact' = exact /\ history' = history
  BY DEF PruneHistory, CleanUp, At, tables, ghosts
<1> HIDE DEF V
<1>3. hids \in SUBSET Nat /\ "count" \in Nexts
  BY <1>0, <1>1, HidsTyped DEF Nexts
<1>4. \A v \in Besides(history, T) : v.hid \notin hids
  BY <1>0, <1>1, OtherHids
<1> HIDE DEF hids
<1>5. h = [hids |-> hids, keys |-> {}, rows |-> {}, then |-> "count"]
  BY <1>3, HeldVersions
<1> HIDE DEF h
<1>6. h.hids = hids /\ h.then # "usage"
  BY <1>5
<1>7. s \in CleanSteps /\ s # "usage" /\ Cleans(r) /\ ~Evicting(r)
  BY <1>2 DEF CleanSteps, Cleans, Evicting
<1> HIDE DEF s
<1> QED
  BY <1>2, <1>4, <1>6, <1>7, UsageBefore

\* The count a round arrives at is that of all versions; its eviction leaves the rest.
LEMMA CountUsage ==
    ASSUME Shaped, KeysSafe, Sound, UsageKept, NEW r \in Rounds, CountVersions(r)
    PROVE  UsageKept'
<1> DEFINE m == round[r]
           T == WrittenSlots(m.new, m.batch)
           after == Counted(OfSlots(T))
           total == Plus(m.seen, Minus(after, m.before))
           E == Evicted(total)
           u == Minus(total, Counted(E))
           hids == { v.hid : v \in E }
           h == [Nothing EXCEPT !.hids = hids, !.then = "usage"]
           s == IF hids = {} THEN "usage" ELSE "find"
<1>0. /\ VersionsSound /\ TablesTyped /\ RoundsTyped /\ PlacesTyped /\ r \in Processes /\ FitsAt(r, pc[r], hand[r])
      /\ history \in SUBSET VersionRow /\ IsFiniteSet(history)
  BY SweepIs DEF Shaped, RoundsTyped, Sound, TablesTyped, PlacesTyped
<1>1. E \in SUBSET history
  BY DEF Evicted, OlderVersions
<1>2. /\ pc[r] = "count" /\ Go(r, s) /\ Hold(r, h)
      /\ round' = [round EXCEPT ![r].now = u]
      /\ usage' = usage /\ live' = live /\ exact' = exact /\ history' = history
  BY DEF CountVersions, CleanUp, At, tables, ghosts
<1>3. total \in UsageRow /\ u \in UsageRow
  BY CountedNow
<1>4. Counted(history) \in UsageRow /\ after \in UsageRow /\ Counted(Besides(history, T)) \in UsageRow
      /\ Counted(E) \in UsageRow /\ Counted(history \ E) \in UsageRow
  <2>1. \A V \in SUBSET history : Counted(V) \in UsageRow
    BY <1>0, FS_Subset, CountedType
  <2>2. OfSlots(T) \in SUBSET history /\ Besides(history, T) \in SUBSET history /\ history \ E \in SUBSET history
    BY DEF OfSlots, Besides
  <2> HIDE DEF E, T
  <2> QED
    BY <1>1, <2>1, <2>2
<1>5. Counted(history) = Plus(Counted(Besides(history, T)), after)
  <2>1. OfSlots(T) \in SUBSET history /\ history \ OfSlots(T) = Besides(history, T)
    BY DEF OfSlots, Besides
  <2> HIDE DEF T
  <2> QED
    BY <1>0, <2>1, CountedSplit
<1>6. Counted(history) = Plus(Counted(history \ E), Counted(E))
  <2> HIDE DEF E
  <2> QED
    BY <1>0, <1>1, CountedSplit
<1>7. history \ E = Without(history, hids)
  BY <1>0, <1>1 DEF VersionsSound, Without
<1>8. hids \in SUBSET Nat /\ "usage" \in Nexts
  <2> HIDE DEF E
  <2> QED
    BY <1>0, <1>1, HidsTyped DEF Nexts
<1> HIDE DEF hids, u
<1>9. h = [hids |-> hids, keys |-> {}, rows |-> {}, then |-> "usage"]
  BY <1>8, HeldVersions
<1> HIDE DEF h
<1>10. h.hids = hids /\ h.then = "usage"
  BY <1>9
<1>11. /\ round'[r].now = u /\ round'[r].seen = m.seen /\ round'[r].before = m.before
       /\ round'[r].batch = m.batch
  BY <1>0, <1>2, <1>3, CountIs
<1>12. pc'[r] = s /\ hand'[r] = h
  BY <1>0, <1>2, MovesOne, HoldsOne
<1>13. s \in CleanSteps /\ s \in {"usage", "find"} /\ pc[r] # "idle" /\ ~Dropping(r)
  BY <1>2 DEF CleanSteps, Dropping
<1>14. (s = "usage" => Evicting(r)') /\ (s = "find" => Evicting(r)') /\ ~Before(r)' /\ Cleans(r)'
  BY <1>10, <1>12, <1>13 DEF Evicting, Before, Cleans, CleanSteps
<1>15. ASSUME exact' PROVE ~SweepCounts /\ Remembered(r)'
  <2>1. CountsAlone /\ Remembered(r) /\ Cleans(r) /\ ~Evicting(r)
    BY <1>2, <1>15 DEF UsageKept, Cleans, Evicting
  <2>2. ~SweepCounts
    BY <1>13, <2>1 DEF CountsAlone
  <2>3. m.seen = usage /\ usage = Plus(Counted(Besides(history, T)), m.before)
    BY <2>1, CountedIs DEF Remembered
  <2>4. m.before \in UsageRow
    BY <1>0 DEF RoundsTyped, Memory
  <2>5. total = Counted(history)
    <3> DEFINE w == Counted(Besides(history, T))
    <3>1. w \in UsageRow /\ after \in UsageRow /\ m.before \in UsageRow
      BY <1>4, <2>4
    <3>2. Plus(Plus(w, m.before), Minus(after, m.before)) = Plus(w, after)
      <4> DEFINE before == m.before
      <4>1. \A x \in UsageRow : Plus(Plus(x, before), Minus(after, before)) = Plus(x, after)
        <5>1. before \in UsageRow /\ after \in UsageRow
          BY <3>1
        <5> HIDE DEF w, after, before
        <5> QED
          BY <5>1, UsageRows
      <4> QED
        BY <3>1, <4>1
    <3>3. total = Plus(Plus(w, m.before), Minus(after, m.before))
      BY <2>3
    <3> HIDE DEF w, after, total
    <3> QED
      BY <1>5, <3>2, <3>3 DEF w
  <2>6. u = Counted(history \ E)
    <3> DEFINE a == Counted(history \ E)
               c == Counted(E)
    <3>1. total = Plus(a, c) /\ a \in UsageRow /\ c \in UsageRow
      BY <1>4, <1>6, <2>5
    <3>2. Minus(Plus(a, c), c) = a
      <4> HIDE DEF a, c
      <4> QED
        BY <3>1, UsageRows
    <3>3. u = Minus(total, c)
      BY DEF u
    <3> HIDE DEF a, c, total, E
    <3>4. u = a
      BY <3>1, <3>2, <3>3
    <3> QED
      BY <3>4 DEF a
  <2>7. u = CountedBy(live, Without(history, hids))
    BY <1>7, <2>6, CountedIs
  <2>8. round'[r].now = CountedBy(live', Without(history', hand'[r].hids))
    BY <1>2, <1>10, <1>11, <1>12, <2>7
  <2>9. round'[r].seen = usage'
    BY <1>2, <1>11, <2>3
  <2>10. Remembered(r)'
    BY <1>13, <1>14, <2>8, <2>9 DEF Remembered
  <2> QED
    BY <2>2, <2>10
<1> HIDE DEF s
<1> QED
  BY <1>2, <1>13, <1>15, UsageCleans

LEMMA WriteUsageUsage ==
    ASSUME Shaped, KeysSafe, Sound, UsageKept, NEW r \in Rounds, WriteUsage(r)
    PROVE  UsageKept'
<1>0. PlacesTyped /\ Locked /\ r \in Processes /\ FitsAt(r, pc[r], hand[r])
  BY SweepIs DEF Shaped, KeysSafe, PlacesTyped
<1>1. /\ pc[r] = "usage" /\ Go(r, "idle") /\ usage' = (IF round[r].now # round[r].seen THEN round[r].now ELSE usage)
      /\ live' = live /\ history' = history /\ exact' = exact
  BY DEF WriteUsage, At, ghosts
<1>2. \A q \in Rounds : pc'[q] = "idle"
  BY <1>0, <1>1, Others
<1>3. CASE exact
  <2>1. Remembered(r) /\ Cleans(r) /\ Evicting(r)
    BY <1>1, <1>3 DEF UsageKept, Cleans, Evicting
  <2>2. round[r].seen = usage /\ round[r].now = CountedBy(live, Without(history, hand[r].hids))
    BY <2>1 DEF Remembered
  <2>3. Without(history, hand[r].hids) = history
    BY <1>0, <1>1 DEF FitsAt, Without
  <2>4. usage' = CountedBy(live', history')
    BY <1>1, <2>2, <2>3
  <2> QED
    BY <1>2, <2>4, UsageQuiet
<1>4. CASE ~exact
  BY <1>1, <1>4 DEF UsageKept
<1> QED
  BY <1>3, <1>4

LEMMA UsageStays ==
    ASSUME Shaped, KeysSafe, Sound, UsageKept, Next
    PROVE  UsageKept'
<1>1. ASSUME NEW r \in Rounds, RoundStep(r) PROVE UsageKept'
  <2>1. CASE \E b \in Batches : Begin(r, b)
    BY <2>1, BeginUsage
  <2>2. CASE DropSuperseded(r) \/ Reserve(r) \/ PutObject(r) \/ DeleteAccount(r) \/ DropObjects(r)
    BY <2>2, PlainRoundUsage
  <2>3. CASE Commit(r) \/ PruneHistory(r) \/ CountVersions(r) \/ WriteUsage(r) \/ DropRows(r)
    BY <2>3, CommitUsage, PruneUsage, CountUsage, WriteUsageUsage, DropRowsUsage
  <2> QED
    BY <1>1, <2>1, <2>2, <2>3 DEF RoundStep
<1>2. ASSUME NEW p \in Processes, Cleaning(p) PROVE UsageKept'
  <2>1. p = Sweep \/ p \in Rounds
    BY DEF Processes
  <2> QED
    BY <1>2, <2>1, SweepCleaningUsage, RoundCleaningUsage
<1> QED
  BY <1>1, <1>2, CreateUsage, SweepUsage, CutUsage DEF Next

LEMMA UsageIsExact == ASSUME UsageKept PROVE UsageExact
<1> SUFFICES ASSUME exact, Idle, ~SweepCounts PROVE usage = Counted(history)
  BY DEF UsageExact
<1>1. \A r \in Rounds : ~Cleans(r)
  BY DEF Idle, At, Cleans
<1> QED
  BY <1>1, CountedIs DEF UsageKept, CountRight

\* A stutter keeps the counts too.
LEMMA UsageSteps == ASSUME Firm, UsageKept, [Next]_vars PROVE UsageKept'
<1>1. CASE Next
  BY <1>1, UsageStays DEF Firm
<1>2. CASE UNCHANGED vars
  <2>1. /\ usage' = usage /\ live' = live /\ history' = history /\ exact' = exact /\ pc' = pc
        /\ hand' = hand /\ round' = round
    BY <1>2, SameTables
  <2>2. SweepCounts' = SweepCounts
    BY <2>1 DEF SweepCounts
  <2>3. ASSUME NEW r \in Rounds
        PROVE  /\ (Before(r)' => Before(r)) /\ (Cleans(r)' => Cleans(r)) /\ (Cleans(r) => Cleans(r)')
               /\ Cleans(r)' => pc'[r] = pc[r] /\ hand'[r] = hand[r]
               /\ Before(r)' \/ Cleans(r)' => round'[r] = round[r]
               /\ (pc[r] = "idle" \/ Dropping(r)) => (pc'[r] = "idle" \/ Dropping(r)')
    BY <2>1 DEF Before, Cleans, Dropping
  <2> QED
    BY <2>1, <2>2, <2>3, UsageSame
<1> QED
  BY <1>1, <1>2

-----------------------------------------------------------------------------
(* Nothing is left behind.  Each action keeps Tidy: lemmas ...Tidy.         *)

\* Nothing is reserved or staged, and R2 holds the objects of live records' versions.
Rested ==
    /\ pending = {} /\ staged = {}
    /\ \A h \in history : h.slot \in SlotsOf(live)
    /\ \A k \in objects : k \in KeysOf(history)
    /\ (\A r \in Rounds : pc[r] # "dropRows") => \A h \in history : h.key \in objects

LEMMA RestedBy ==
    ASSUME NEW p \in Processes, TidyFor(p), ~Writes(p), ~Stages(p), hand[p].hids = {}
    PROVE  Rested
<1>1. pending = {} /\ staged = {}
  BY DEF TidyFor, OnlyReserved, OnlyStaged
<1>2. \A h \in history : h.slot \in SlotsOf(live)
  BY <1>1 DEF TidyFor, VersionsGo, SlotsOf
<1>3. \A k \in objects : k \in KeysOf(history)
  BY <1>1 DEF TidyFor, NothingMore, KeysOf
<1>4. (\A r \in Rounds : pc[r] # "dropRows") => \A h \in history : h.key \in objects
  BY DEF TidyFor, NothingLess
<1> QED
  BY <1>1, <1>2, <1>3, <1>4 DEF Rested

LEMMA RestedFor ==
    ASSUME NEW p \in Processes, Rested, hand[p].hids = {}, pc[p] \notin {"objects", "rows", "erase", "unstage"}
    PROVE  TidyFor(p)
<1>1. OnlyReserved(p) /\ OnlyStaged(p)
  BY DEF Rested, OnlyReserved, OnlyStaged
<1>2. VersionsGo(p) /\ NothingMore(p) /\ NothingLess(p)
  BY DEF Rested, VersionsGo, NothingMore, NothingLess
<1>3. NewestSpared(p) /\ DeletesRight(p) /\ ErasesRight(p)
  BY DEF NewestSpared, DeletesRight, ErasesRight
<1> QED
  BY <1>1, <1>2, <1>3 DEF TidyFor

\* The same one step later.
LEMMA RestsNext ==
    ASSUME Shaped, NEW p \in Processes, NEW s, NEW h, Go(p, s), Hold(p, h), h.hids = {},
           s \notin {"objects", "rows", "erase", "unstage", "dropRows"}, Rested, pc[p] # "dropRows",
           live' = live, history' = history, staged' = staged, pending' = pending, objects' = objects
    PROVE  TidyFor(p)' /\ Rested'
<1>0. PlacesTyped
  BY DEF Shaped
<1>1. pc'[p] = s /\ hand'[p] = h /\ \A q \in Processes : q # p => pc'[q] = pc[q]
  BY <1>0, MovesOne, HoldsOne
<1>2. (\A r \in Rounds : pc'[r] # "dropRows") => (\A r \in Rounds : pc[r] # "dropRows")
  BY <1>1, SweepIs
<1>3. Rested'
  BY <1>2 DEF Rested, SlotsOf, KeysOf
<1>4. OnlyReserved(p)' /\ OnlyStaged(p)'
  BY <1>3 DEF Rested, OnlyReserved, OnlyStaged
<1>5. VersionsGo(p)' /\ NothingMore(p)' /\ NothingLess(p)'
  BY <1>3 DEF Rested, VersionsGo, NothingMore, NothingLess
<1>6. NewestSpared(p)' /\ DeletesRight(p)' /\ ErasesRight(p)'
  BY <1>1 DEF NewestSpared, DeletesRight, ErasesRight
<1> QED
  BY <1>3, <1>4, <1>5, <1>6 DEF TidyFor

LEMMA SettledHolds ==
    ASSUME Shaped, NEW p \in Processes, Settled(p)
    PROVE  ~Writes(p) /\ ~Stages(p) /\ hand[p].hids = {} /\ pc[p] \notin {"objects", "rows", "erase", "unstage"}
<1>1. pc[p] \in {"idle", "drop", "dropRows"}
  BY DEF Settled, Dropping
<1>2. FitsAt(p, pc[p], hand[p])
  BY DEF Shaped, PlacesTyped
<1> QED
  BY <1>1, <1>2 DEF Writes, Stages, FitsAt

\* Whoever is under way, or might be next, is the one that is tidy.
LEMMA Foremost ==
    ASSUME Shaped, Tidy, calm, NEW p \in Processes, ~Settled(p) \/ \A q \in Processes : q # p => Settled(q)
    PROVE  Alone(p) /\ TidyFor(p)
<1>1. PICK f \in Processes : Alone(f) /\ TidyFor(f)
  BY DEF Tidy
<1>2. CASE f = p
  BY <1>1, <1>2
<1>3. CASE f # p
  <2>1. Settled(p)
    BY <1>1, <1>3 DEF Alone
  <2>2. Settled(f) /\ Alone(p)
    BY <2>1, <1>3 DEF Alone
  <2>3. Rested
    BY <1>1, <2>2, SettledHolds, RestedBy
  <2> QED
    BY <2>1, <2>2, <2>3, SettledHolds, RestedFor
<1> QED
  BY <1>2, <1>3

\* One step of p, when p is the one.
LEMMA TidyMoves ==
    ASSUME Shaped, Tidy, calm, NEW p \in Processes, NEW s, NEW h, Go(p, s), Hold(p, h), Alone(p), TidyFor(p)',
           cut' = cut, LiveSaved', HandRight(p)',
           objects' \subseteq objects \/ \A q \in Rounds : q # p => ~Dropping(q)
    PROVE  Tidy'
<1>0. PlacesTyped
  BY DEF Shaped
<1>1. \A q \in Processes : q # p => pc'[q] = pc[q] /\ hand'[q] = hand[q]
  BY <1>0, MovesOne, HoldsOne
<1>2. Alone(p)'
  BY <1>1 DEF Alone, Settled, Dropping
<1>3. ASSUME NEW q \in Processes, q # p PROVE HandRight(q)'
  <2>1. HandRight(q) /\ pc'[q] = pc[q] /\ hand'[q] = hand[q]
    BY <1>1, <1>3 DEF Tidy
  <2>2. objects' \subseteq objects \/ ~Dropping(q)
    <3>1. Sweep \in Processes /\ (q = Sweep \/ q \in Rounds)
      BY SweepIs DEF Processes
    <3>2. q = Sweep => ~Dropping(q)
      BY <1>0, <3>1 DEF PlacesTyped, StepsOf, SweepSteps, Dropping
    <3> QED
      BY <1>3, <3>1, <3>2
  <2> QED
    BY <2>1, <2>2 DEF HandRight, Dropping
<1>4. ~cut'
  BY DEF Tidy
<1> QED
  BY <1>2, <1>3, <1>4 DEF Tidy

\* What holds of p at a step of its own.
LEMMA AtWork ==
    ASSUME Shaped, Tidy, calm, NEW p \in Processes, pc[p] \notin {"idle", "drop", "dropRows"}
    PROVE  /\ Alone(p) /\ LiveSaved /\ HandRight(p)
           /\ OnlyReserved(p) /\ OnlyStaged(p) /\ VersionsGo(p) /\ NothingMore(p) /\ NothingLess(p)
           /\ NewestSpared(p) /\ DeletesRight(p) /\ ErasesRight(p)
           /\ TidyFor(p) /\ PlacesTyped /\ FitsAt(p, pc[p], hand[p])
<1>1. ~Settled(p)
  BY DEF Settled, Dropping
<1>2. Alone(p) /\ TidyFor(p)
  BY <1>1, Foremost
<1> QED
  BY <1>2 DEF Tidy, TidyFor, Shaped, PlacesTyped

LEMMA FindTidy ==
    ASSUME Shaped, Tidy, calm, NEW p \in Processes, FindUnreferenced(p)
    PROVE  Tidy'
<1> DEFINE keys == Unreferenced(hand[p].hids)
           h == [hand[p] EXCEPT !.keys = keys]
<1>1. /\ pc[p] = "find" /\ Go(p, "objects") /\ Hold(p, h) /\ live' = live /\ history' = history
      /\ staged' = staged /\ pending' = pending /\ objects' = objects /\ round' = round /\ cut' = cut
  BY DEF FindUnreferenced, At, tables, ghosts
<1>2. /\ Alone(p) /\ LiveSaved /\ OnlyReserved(p) /\ OnlyStaged(p) /\ VersionsGo(p) /\ NothingMore(p)
      /\ NothingLess(p) /\ NewestSpared(p) /\ PlacesTyped
  BY <1>1, AtWork
<1>3. h.hids = hand[p].hids /\ h.then = hand[p].then /\ h.keys = keys
  BY <1>2, HeldPart DEF PlacesTyped
<1> HIDE DEF h
<1>4. pc'[p] = "objects" /\ hand'[p] = h /\ \A q \in Processes : q # p => pc'[q] = pc[q]
  BY <1>1, <1>2, MovesOne, HoldsOne
<1>5. OnlyReserved(p)' /\ NothingMore(p)'
  BY <1>1, <1>2, <1>4 DEF OnlyReserved, NothingMore, Writes, KeysOf
<1>6. OnlyStaged(p)' /\ VersionsGo(p)'
  BY <1>1, <1>2, <1>3, <1>4 DEF OnlyStaged, VersionsGo, Stages, SlotsOf
<1>7. NothingLess(p)'
  <2>1. (\A r \in Rounds : pc'[r] # "dropRows") => (\A r \in Rounds : pc[r] # "dropRows")
    BY <1>1, <1>4, SweepIs
  <2> QED
    BY <2>1, <1>1, <1>2, <1>4 DEF NothingLess
<1>8. NewestSpared(p)'
  BY <1>1, <1>2, <1>3, <1>4 DEF NewestSpared, SlotsOf
<1>9. DeletesRight(p)'
  <2>1. ASSUME NEW v \in history, v.hid \in hand[p].hids
        PROVE  v.key \in keys \cup KeysOf(staged) \/ \E g \in history : g.hid \notin hand[p].hids /\ g.key = v.key
    <3>1. v.key \in keys \/ v.key \in KeysOf(staged) \/ v.key \in KeysOf(live)
          \/ \E g \in history : g.hid \notin hand[p].hids /\ g.key = v.key
      BY <2>1 DEF Unreferenced, KeysOf
    <3>2. ASSUME v.key \in KeysOf(live) PROVE \E g \in history : g.hid \notin hand[p].hids /\ g.key = v.key
      <4>1. PICK l \in live : l.key = v.key
        BY <3>2 DEF KeysOf
      <4>2. PICK g \in history : /\ g.slot = l.slot /\ g.key = l.key
                                 /\ \A f \in history : f.slot = l.slot => f.hid <= g.hid
        BY <1>2 DEF LiveSaved
      <4>3. g.slot \in SlotsOf(live)
        BY <4>2 DEF SlotsOf
      <4>4. g.hid \notin hand[p].hids
        <5> SUFFICES ASSUME g.hid \in hand[p].hids PROVE FALSE
          OBVIOUS
        <5>1. PICK f \in history : f.slot = g.slot /\ f.hid > g.hid
          BY <1>2, <4>3 DEF NewestSpared
        <5>2. f.hid \in Nat /\ g.hid \in Nat
          BY DEF Shaped, TablesTyped, VersionRow
        <5> QED
          BY <4>2, <5>1, <5>2
      <4> QED
        BY <4>1, <4>2, <4>4
    <3> QED
      BY <3>1, <3>2
  <2>2. \A v \in history : v.hid \notin hand[p].hids => v.key \notin keys
    BY DEF Unreferenced, KeysOf
  <2> HIDE DEF keys
  <2> QED
    BY <1>1, <1>3, <1>4, <2>1, <2>2 DEF DeletesRight, KeysOf
<1>10. ErasesRight(p)' /\ HandRight(p)'
  BY <1>4 DEF ErasesRight, HandRight
<1>11. LiveSaved'
  BY <1>1, <1>2 DEF LiveSaved
<1>12. TidyFor(p)'
  BY <1>5, <1>6, <1>7, <1>8, <1>9, <1>10 DEF TidyFor
<1> QED
  BY <1>1, <1>2, <1>10, <1>11, <1>12, TidyMoves

LEMMA DeleteTidy ==
    ASSUME Shaped, Tidy, calm, NEW p \in Processes, DeleteObjects(p)
    PROVE  Tidy'
<1>1. /\ pc[p] = "objects" /\ Go(p, "rows") /\ hand' = hand /\ live' = live /\ history' = history
      /\ staged' = staged /\ pending' = pending /\ objects' = objects \ hand[p].keys /\ round' = round /\ cut' = cut
  BY DEF DeleteObjects, At, tables, ghosts
<1>2. /\ Alone(p) /\ LiveSaved /\ OnlyReserved(p) /\ OnlyStaged(p) /\ VersionsGo(p) /\ NothingMore(p)
      /\ NothingLess(p) /\ NewestSpared(p) /\ DeletesRight(p) /\ PlacesTyped
  BY <1>1, AtWork
<1>3. pc'[p] = "rows" /\ Hold(p, hand[p]) /\ \A q \in Processes : q # p => pc'[q] = pc[q]
  BY <1>1, <1>2, MovesOne, MovedOnly
<1>4. OnlyReserved(p)' /\ NothingMore(p)'
  BY <1>1, <1>2, <1>3 DEF OnlyReserved, NothingMore, Writes, KeysOf
<1>5. OnlyStaged(p)' /\ VersionsGo(p)'
  BY <1>1, <1>2, <1>3 DEF OnlyStaged, VersionsGo, Stages, SlotsOf
<1>6. NothingLess(p)'
  <2>1. (\A r \in Rounds : pc'[r] # "dropRows") => (\A r \in Rounds : pc[r] # "dropRows")
    BY <1>1, <1>3, SweepIs
  <2>2. \A v \in history : v.hid \notin hand[p].hids => v.key \notin hand[p].keys
    BY <1>1, <1>2 DEF DeletesRight
  <2> QED
    BY <2>1, <2>2, <1>1, <1>2, <1>3 DEF NothingLess
<1>7. NewestSpared(p)' /\ LiveSaved'
  BY <1>1, <1>2 DEF NewestSpared, SlotsOf, LiveSaved
<1>8. DeletesRight(p)'
  BY <1>1, <1>2, <1>3 DEF DeletesRight, KeysOf
<1>9. ErasesRight(p)' /\ HandRight(p)'
  BY <1>3 DEF ErasesRight, HandRight
<1>10. TidyFor(p)'
  BY <1>4, <1>5, <1>6, <1>7, <1>8, <1>9 DEF TidyFor
<1> QED
  BY <1>1, <1>2, <1>3, <1>7, <1>9, <1>10, TidyMoves

LEMMA DeleteRowsTidy ==
    ASSUME Shaped, Tidy, calm, NEW p \in Processes, DeleteRows(p)
    PROVE  Tidy'
<1> DEFINE s == hand[p].then
           hids == hand[p].hids
<1>1. /\ pc[p] = "rows" /\ Go(p, s) /\ Hold(p, Nothing) /\ live' = live
      /\ history' = { v \in history : v.hid \notin hids }
      /\ staged' = staged /\ pending' = pending /\ objects' = objects /\ round' = round /\ cut' = cut
  BY DEF DeleteRows, At, ghosts
<1>2. /\ Alone(p) /\ LiveSaved /\ OnlyReserved(p) /\ OnlyStaged(p) /\ VersionsGo(p) /\ NothingMore(p)
      /\ NothingLess(p) /\ NewestSpared(p) /\ DeletesRight(p) /\ PlacesTyped /\ FitsAt(p, pc[p], hand[p])
  BY <1>1, AtWork
<1>3. s \in {"staged", "recount", "count", "usage"}
  BY <1>1, <1>2 DEF FitsAt
<1>4. pc'[p] = s /\ hand'[p] = Nothing /\ \A q \in Processes : q # p => pc'[q] = pc[q]
  BY <1>1, <1>2, MovesOne, HoldsOne
<1>5. OnlyReserved(p)'
  BY <1>1, <1>2 DEF OnlyReserved, Writes
<1>6. OnlyStaged(p)'
  BY <1>1, <1>2, <1>4 DEF OnlyStaged, Stages
<1>7. VersionsGo(p)'
  BY <1>1, <1>2 DEF VersionsGo, Stages
<1>8. NothingMore(p)'
  <2>1. ASSUME NEW k \in objects PROVE k \in KeysOf(history') \cup KeysOf(staged)
    <3>1. k \in KeysOf(history) \cup KeysOf(staged)
      BY <1>1, <1>2 DEF NothingMore, Writes
    <3>2. ASSUME NEW v \in history, v.key = k, v.hid \in hids PROVE k \in KeysOf(history') \cup KeysOf(staged)
      <4>1. v.key \in hand[p].keys \cup KeysOf(staged) \/ \E g \in history : g.hid \notin hids /\ g.key = v.key
        BY <1>1, <1>2, <3>2 DEF DeletesRight
      <4>2. v.key \notin hand[p].keys
        BY <1>1, <1>2, <3>2 DEF DeletesRight
      <4> QED
        BY <1>1, <3>2, <4>1, <4>2 DEF KeysOf
    <3> QED
      BY <1>1, <3>1, <3>2 DEF KeysOf
  <2> QED
    BY <1>1, <2>1 DEF NothingMore
<1>9. NothingLess(p)'
  <2>1. (\A r \in Rounds : pc'[r] # "dropRows") => (\A r \in Rounds : pc[r] # "dropRows")
    BY <1>1, <1>4, SweepIs
  <2> QED
    BY <2>1, <1>1, <1>2 DEF NothingLess
<1>10. NewestSpared(p)'
  BY <1>4, NothingIs DEF NewestSpared
<1>11. DeletesRight(p)' /\ ErasesRight(p)' /\ HandRight(p)'
  BY <1>3, <1>4 DEF DeletesRight, ErasesRight, HandRight
<1>12. LiveSaved'
  <2>1. ASSUME NEW l \in live
        PROVE  \E v \in history' :
                    /\ v.slot = l.slot /\ v.id = l.id /\ v.key = l.key
                    /\ \A g \in history' : g.slot = l.slot => g.hid <= v.hid
    <3>1. PICK v \in history : /\ v.slot = l.slot /\ v.id = l.id /\ v.key = l.key
                               /\ \A g \in history : g.slot = l.slot => g.hid <= v.hid
      BY <1>2 DEF LiveSaved
    <3>2. v.hid \notin hids
      <4> SUFFICES ASSUME v.hid \in hids PROVE FALSE
        OBVIOUS
      <4>1. v.slot \in SlotsOf(live)
        BY <3>1 DEF SlotsOf
      <4>2. PICK f \in history : f.slot = v.slot /\ f.hid > v.hid
        BY <1>2, <4>1 DEF NewestSpared
      <4>3. f.hid \in Nat /\ v.hid \in Nat
        BY DEF Shaped, TablesTyped, VersionRow
      <4> QED
        BY <3>1, <4>2, <4>3
    <3> QED
      BY <1>1, <3>1, <3>2
  <2> QED
    BY <1>1, <2>1 DEF LiveSaved
<1>13. TidyFor(p)'
  BY <1>5, <1>6, <1>7, <1>8, <1>9, <1>10, <1>11 DEF TidyFor
<1> QED
  BY <1>1, <1>2, <1>11, <1>12, <1>13, TidyMoves

LEMMA CleanUpMoves ==
    ASSUME PlacesTyped, NEW p \in Processes, NEW hids \in SUBSET Nat, NEW next \in Nexts, CleanUp(p, hids, next)
    PROVE  /\ Go(p, IF hids = {} THEN next ELSE "find")
           /\ Hold(p, [Nothing EXCEPT !.hids = hids, !.then = next])
           /\ pc'[p] = (IF hids = {} THEN next ELSE "find")
           /\ hand'[p] = [hids |-> hids, keys |-> {}, rows |-> {}, then |-> next]
           /\ \A q \in Processes : q # p => pc'[q] = pc[q]
<1> DEFINE s == IF hids = {} THEN next ELSE "find"
           h == [Nothing EXCEPT !.hids = hids, !.then = next]
<1>1. Go(p, s) /\ Hold(p, h)
  BY DEF CleanUp
<1>2. h = [hids |-> hids, keys |-> {}, rows |-> {}, then |-> next]
  BY HeldVersions
<1>3. pc'[p] = s /\ hand'[p] = h /\ \A q \in Processes : q # p => pc'[q] = pc[q]
  <2> HIDE DEF s, h
  <2> QED
    BY <1>1, MovesOne, HoldsOne
<1> QED
  BY <1>1, <1>2, <1>3

\* A cleanup of versions other than the newest of their records.
LEMMA CleanUpTidy ==
    ASSUME Shaped, Tidy, calm, NEW p \in Processes, NEW hids \in SUBSET Nat,
           NEW next \in {"count", "usage", "recount"}, CleanUp(p, hids, next),
           pc[p] \in {"prune", "count", "window"}, live' = live, history' = history, staged' = staged,
           pending' = pending, objects' = objects, cut' = cut,
           \A v \in history : v.hid \in hids /\ v.slot \in SlotsOf(live) =>
                \E g \in history : g.slot = v.slot /\ g.hid > v.hid
    PROVE  Tidy'
<1> DEFINE s == IF hids = {} THEN next ELSE "find"
           h == [Nothing EXCEPT !.hids = hids, !.then = next]
<1>1. /\ Alone(p) /\ LiveSaved /\ TidyFor(p) /\ PlacesTyped /\ FitsAt(p, pc[p], hand[p])
  BY AtWork
<1>2. Rested
  BY <1>1, RestedBy DEF Writes, Stages, FitsAt
<1>3. next \in Nexts
  BY DEF Nexts
<1>4. /\ Go(p, s) /\ Hold(p, h) /\ pc'[p] = s /\ hand'[p].hids = hids
      /\ \A q \in Processes : q # p => pc'[q] = pc[q]
  <2>1. /\ Go(p, s) /\ Hold(p, h) /\ pc'[p] = s
        /\ hand'[p] = [hids |-> hids, keys |-> {}, rows |-> {}, then |-> next]
        /\ \A q \in Processes : q # p => pc'[q] = pc[q]
    BY <1>1, <1>3, CleanUpMoves
  <2>2. hand'[p].hids = hids
    BY <2>1
  <2> HIDE DEF s, h
  <2> QED
    BY <2>1, <2>2
<1>5. pc'[p] \in {"find", "count", "usage", "recount"}
  BY <1>4
<1> HIDE DEF s, h
<1>6. (\A r \in Rounds : pc'[r] # "dropRows") => (\A r \in Rounds : pc[r] # "dropRows")
  BY <1>4, SweepIs
<1>7. Rested'
  BY <1>2, <1>6 DEF Rested, SlotsOf, KeysOf
<1>8. OnlyReserved(p)' /\ OnlyStaged(p)'
  BY <1>7 DEF Rested, OnlyReserved, OnlyStaged
<1>9. VersionsGo(p)' /\ NothingMore(p)' /\ NothingLess(p)'
  BY <1>7 DEF Rested, VersionsGo, NothingMore, NothingLess
<1>10. NewestSpared(p)'
  BY <1>4 DEF NewestSpared, SlotsOf
<1>11. DeletesRight(p)' /\ ErasesRight(p)' /\ HandRight(p)'
  BY <1>5 DEF DeletesRight, ErasesRight, HandRight
<1>12. LiveSaved'
  BY <1>1 DEF LiveSaved
<1>13. TidyFor(p)'
  BY <1>8, <1>9, <1>10, <1>11 DEF TidyFor
<1> QED
  BY <1>1, <1>4, <1>11, <1>12, <1>13, TidyMoves

\* All that is staged is for p to purge.
LEMMA ScopeIs ==
    ASSUME NEW p \in Processes, OnlyStaged(p)
    PROVE  Scope(p) = staged
<1>1. CASE p = Sweep
  BY <1>1 DEF Scope
<1>2. CASE p # Sweep
  BY <1>2 DEF Scope, OnlyStaged
<1> QED
  BY <1>1, <1>2

LEMMA PurgeTidy ==
    ASSUME Shaped, Sound, Tidy, calm, NEW p \in Processes, PurgeVersions(p)
    PROVE  Tidy'
<1> DEFINE gone == OfSlots(SlotsOf(Scope(p)) \ SlotsOf(live))
           hids == { v.hid : v \in gone }
           s == IF hids = {} THEN "staged" ELSE "find"
           h == [Nothing EXCEPT !.hids = hids, !.then = "staged"]
<1>1. /\ pc[p] = "purge" /\ CleanUp(p, hids, "staged") /\ live' = live /\ history' = history
      /\ staged' = staged /\ pending' = pending /\ objects' = objects /\ round' = round /\ cut' = cut
  BY DEF PurgeVersions, At, tables, ghosts
<1>2. /\ Alone(p) /\ LiveSaved /\ OnlyReserved(p) /\ OnlyStaged(p) /\ VersionsGo(p) /\ NothingMore(p)
      /\ NothingLess(p) /\ PlacesTyped
  BY <1>1, AtWork
<1>3. gone = { v \in history : v.slot \in SlotsOf(staged) \ SlotsOf(live) }
  BY <1>2, ScopeIs DEF OfSlots
<1>4. hids \in SUBSET Nat
  BY <1>3 DEF Shaped, TablesTyped, VersionRow
<1>5. \A v \in history : v.hid \in hids => v.slot \notin SlotsOf(live)
  BY <1>3 DEF Sound, VersionsSound
<1>6. \A v \in history : v.slot \in SlotsOf(staged) \ SlotsOf(live) => v.hid \in hids
  BY <1>3
<1> HIDE DEF gone
<1>7. /\ Go(p, s) /\ Hold(p, h) /\ pc'[p] = s /\ hand'[p].hids = hids /\ hand'[p].then = "staged"
      /\ \A q \in Processes : q # p => pc'[q] = pc[q]
  <2> HIDE DEF hids, h
  <2>1. "staged" \in Nexts
    BY DEF Nexts
  <2>2. /\ Go(p, s) /\ Hold(p, [Nothing EXCEPT !.hids = hids, !.then = "staged"]) /\ pc'[p] = s
        /\ hand'[p] = [hids |-> hids, keys |-> {}, rows |-> {}, then |-> "staged"]
        /\ \A q \in Processes : q # p => pc'[q] = pc[q]
    BY <1>1, <1>2, <1>4, <2>1, CleanUpMoves
  <2> QED
    BY <2>2 DEF h
<1> HIDE DEF h
<1>8. pc'[p] \in {"find", "staged"}
  BY <1>7
<1>9. OnlyReserved(p)' /\ NothingMore(p)'
  BY <1>1, <1>2 DEF OnlyReserved, NothingMore, Writes, KeysOf
<1>10. OnlyStaged(p)'
  BY <1>1, <1>2, <1>7, <1>8 DEF OnlyStaged, Stages, SlotsOf
<1>11. VersionsGo(p)'
  <2>1. ASSUME NEW v \in history, v.slot \notin SlotsOf(live)
        PROVE  p \in Rounds /\ pc'[p] = "find" /\ v.hid \in hids
    <3>1. p \in Rounds /\ v.slot \in SlotsOf(staged)
      BY <1>1, <1>2, <2>1 DEF VersionsGo
    <3>2. v.hid \in hids
      BY <1>6, <2>1, <3>1
    <3> HIDE DEF hids
    <3> QED
      BY <1>7, <3>1, <3>2
  <2> HIDE DEF hids
  <2> QED
    BY <1>1, <1>7, <2>1 DEF VersionsGo, Stages, SlotsOf
<1> HIDE DEF hids
<1>12. NothingLess(p)'
  <2>1. (\A r \in Rounds : pc'[r] # "dropRows") => (\A r \in Rounds : pc[r] # "dropRows")
    BY <1>1, <1>7, SweepIs
  <2> QED
    BY <2>1, <1>1, <1>2 DEF NothingLess
<1>13. NewestSpared(p)'
  BY <1>1, <1>5, <1>7 DEF NewestSpared, SlotsOf
<1>14. DeletesRight(p)' /\ ErasesRight(p)' /\ HandRight(p)'
  BY <1>8 DEF DeletesRight, ErasesRight, HandRight
<1>15. LiveSaved'
  BY <1>1, <1>2 DEF LiveSaved
<1>16. TidyFor(p)'
  BY <1>9, <1>10, <1>11, <1>12, <1>13, <1>14 DEF TidyFor
<1> QED
  BY <1>1, <1>2, <1>7, <1>14, <1>15, <1>16, TidyMoves

LEMMA ReadTidy ==
    ASSUME Shaped, Tidy, calm, NEW p \in Processes, ReadStaged(p)
    PROVE  Tidy'
<1> DEFINE keys == KeysOf(Scope(p)) \ (KeysOf(live) \cup KeysOf(history))
           h == [Nothing EXCEPT !.rows = Scope(p), !.keys = keys]
<1>1. /\ pc[p] = "staged" /\ Go(p, "erase") /\ Hold(p, h) /\ live' = live /\ history' = history
      /\ staged' = staged /\ pending' = pending /\ objects' = objects /\ round' = round /\ cut' = cut
  BY DEF ReadStaged, At, tables, ghosts
<1>2. /\ Alone(p) /\ LiveSaved /\ OnlyReserved(p) /\ OnlyStaged(p) /\ VersionsGo(p) /\ NothingMore(p)
      /\ NothingLess(p) /\ PlacesTyped
  BY <1>1, AtWork
<1>3. Scope(p) = staged
  BY <1>2, ScopeIs
<1>4. h = [hids |-> {}, keys |-> keys, rows |-> staged, then |-> "idle"]
  <2>1. staged \in SUBSET (StagedRow \cup Reservation) /\ keys \in SUBSET Nat
    BY <1>3, KeysTyped DEF Shaped, TablesTyped
  <2> HIDE DEF keys
  <2> QED
    BY <1>3, <2>1, HeldDeletions
<1> HIDE DEF h
<1>5. /\ pc'[p] = "erase" /\ hand'[p].keys = keys /\ hand'[p].rows = staged /\ hand'[p].hids = {}
      /\ \A q \in Processes : q # p => pc'[q] = pc[q]
  <2>1. pc'[p] = "erase" /\ hand'[p] = h /\ \A q \in Processes : q # p => pc'[q] = pc[q]
    BY <1>1, <1>2, MovesOne, HoldsOne
  <2> HIDE DEF keys
  <2> QED
    BY <1>4, <2>1
<1>6. OnlyReserved(p)' /\ NothingMore(p)'
  BY <1>1, <1>2 DEF OnlyReserved, NothingMore, Writes, KeysOf
<1>7. OnlyStaged(p)' /\ VersionsGo(p)'
  BY <1>1, <1>2, <1>5 DEF OnlyStaged, VersionsGo, Stages, SlotsOf
<1>8. NothingLess(p)'
  <2>1. (\A r \in Rounds : pc'[r] # "dropRows") => (\A r \in Rounds : pc[r] # "dropRows")
    BY <1>1, <1>5, SweepIs
  <2> QED
    BY <2>1, <1>1, <1>2 DEF NothingLess
<1>9. NewestSpared(p)' /\ DeletesRight(p)' /\ HandRight(p)'
  BY <1>5 DEF NewestSpared, DeletesRight, HandRight
<1>10. ErasesRight(p)'
  <2>1. KeysOf(live) \subseteq KeysOf(history)
    BY <1>2 DEF LiveSaved, KeysOf
  <2>2. keys \cap KeysOf(history) = {} /\ KeysOf(staged) \subseteq keys \cup KeysOf(history)
    BY <1>3, <2>1
  <2>3. KeysOf(history)' = KeysOf(history) /\ KeysOf(staged)' = KeysOf(staged)
    BY <1>1 DEF KeysOf
  <2> HIDE DEF keys
  <2> QED
    BY <1>1, <1>5, <2>2, <2>3 DEF ErasesRight
<1>11. LiveSaved'
  BY <1>1, <1>2 DEF LiveSaved
<1>12. TidyFor(p)'
  BY <1>6, <1>7, <1>8, <1>9, <1>10 DEF TidyFor
<1> QED
  BY <1>1, <1>2, <1>9, <1>11, <1>12, TidyMoves

LEMMA EraseTidy ==
    ASSUME Shaped, Tidy, calm, NEW p \in Processes, EraseStaged(p)
    PROVE  Tidy'
<1>1. /\ pc[p] = "erase" /\ Go(p, "unstage") /\ hand' = hand /\ live' = live /\ history' = history
      /\ staged' = staged /\ pending' = pending /\ objects' = objects \ hand[p].keys /\ round' = round /\ cut' = cut
  BY DEF EraseStaged, At, tables, ghosts
<1>2. /\ Alone(p) /\ LiveSaved /\ OnlyReserved(p) /\ OnlyStaged(p) /\ VersionsGo(p) /\ NothingMore(p)
      /\ NothingLess(p) /\ ErasesRight(p) /\ PlacesTyped /\ FitsAt(p, pc[p], hand[p])
  BY <1>1, AtWork
<1>3. pc'[p] = "unstage" /\ Hold(p, hand[p]) /\ \A q \in Processes : q # p => pc'[q] = pc[q]
  BY <1>1, <1>2, MovesOne, MovedOnly
<1>4. OnlyReserved(p)' /\ NothingMore(p)'
  BY <1>1, <1>2, <1>3 DEF OnlyReserved, NothingMore, Writes, KeysOf
<1>5. OnlyStaged(p)' /\ VersionsGo(p)'
  BY <1>1, <1>2, <1>3 DEF OnlyStaged, VersionsGo, Stages, SlotsOf
<1>6. NothingLess(p)'
  <2>1. (\A r \in Rounds : pc'[r] # "dropRows") => (\A r \in Rounds : pc[r] # "dropRows")
    BY <1>1, <1>3, SweepIs
  <2>2. \A v \in history : v.key \notin hand[p].keys
    BY <1>1, <1>2 DEF ErasesRight, KeysOf
  <2> QED
    BY <2>1, <2>2, <1>1, <1>2 DEF NothingLess
<1>7. NewestSpared(p)' /\ LiveSaved'
  BY <1>1, <1>2 DEF NewestSpared, SlotsOf, LiveSaved, FitsAt
<1>8. ErasesRight(p)'
  BY <1>1, <1>2, <1>3 DEF ErasesRight, KeysOf
<1>9. DeletesRight(p)' /\ HandRight(p)'
  BY <1>3 DEF DeletesRight, HandRight
<1>10. TidyFor(p)'
  BY <1>4, <1>5, <1>6, <1>7, <1>8, <1>9 DEF TidyFor
<1> QED
  BY <1>1, <1>2, <1>3, <1>7, <1>9, <1>10, TidyMoves

LEMMA UnstageTidy ==
    ASSUME Shaped, Tidy, calm, NEW p \in Processes, Unstage(p)
    PROVE  Tidy'
<1> DEFINE s == IF p = Sweep THEN "window" ELSE "prune"
<1>1. /\ pc[p] = "unstage" /\ Go(p, s) /\ Hold(p, Nothing) /\ live' = live /\ history' = history
      /\ staged' = staged \ hand[p].rows /\ pending' = pending /\ objects' = objects /\ round' = round /\ cut' = cut
  BY DEF Unstage, At, ghosts
<1>2. /\ Alone(p) /\ LiveSaved /\ OnlyReserved(p) /\ OnlyStaged(p) /\ VersionsGo(p) /\ NothingMore(p)
      /\ NothingLess(p) /\ ErasesRight(p) /\ PlacesTyped
  BY <1>1, AtWork
<1>3. s \in {"window", "prune"}
  OBVIOUS
<1> HIDE DEF s
<1>4. pc'[p] = s /\ hand'[p] = Nothing /\ \A q \in Processes : q # p => pc'[q] = pc[q]
  BY <1>1, <1>2, MovesOne, HoldsOne
<1>5. staged' = {}
  BY <1>1, <1>2 DEF ErasesRight
<1>6. pending' = {}
  BY <1>1, <1>2 DEF OnlyReserved, Writes
<1>7. OnlyReserved(p)' /\ OnlyStaged(p)'
  BY <1>5, <1>6 DEF OnlyReserved, OnlyStaged
<1>8. VersionsGo(p)'
  BY <1>1, <1>2 DEF VersionsGo, SlotsOf, Stages
<1>9. NothingMore(p)'
  <2>1. \A k \in objects : k \in KeysOf(history) \cup KeysOf(staged) /\ k \notin hand[p].keys
    BY <1>1, <1>2 DEF NothingMore, Writes, ErasesRight
  <2>2. KeysOf(staged) \subseteq hand[p].keys \cup KeysOf(history)
    BY <1>1, <1>2 DEF ErasesRight
  <2> QED
    BY <1>1, <2>1, <2>2 DEF NothingMore, KeysOf
<1>10. NothingLess(p)'
  <2>1. (\A r \in Rounds : pc'[r] # "dropRows") => (\A r \in Rounds : pc[r] # "dropRows")
    BY <1>1, <1>4, SweepIs
  <2> QED
    BY <2>1, <1>1, <1>2 DEF NothingLess
<1>11. NewestSpared(p)'
  BY <1>4, NothingIs DEF NewestSpared
<1>12. DeletesRight(p)' /\ ErasesRight(p)' /\ HandRight(p)'
  BY <1>3, <1>4 DEF DeletesRight, ErasesRight, HandRight
<1>13. LiveSaved'
  BY <1>1, <1>2 DEF LiveSaved
<1>14. TidyFor(p)'
  BY <1>7, <1>8, <1>9, <1>10, <1>11, <1>12 DEF TidyFor
<1> QED
  BY <1>1, <1>2, <1>12, <1>13, <1>14, TidyMoves

LEMMA CleaningTidy ==
    ASSUME Shaped, Sound, Tidy, calm, NEW p \in Processes, Cleaning(p)
    PROVE  Tidy'
BY FindTidy, DeleteTidy, DeleteRowsTidy, PurgeTidy, ReadTidy, EraseTidy, UnstageTidy DEF Cleaning

\* A step with nothing left to delete.
LEMMA RestingTidy ==
    ASSUME Shaped, Tidy, calm, NEW p \in Processes, NEW s, NEW h, Go(p, s), Hold(p, h), h.hids = {},
           pc[p] \notin {"drop", "dropRows"}, Rested, Alone(p),
           s \notin {"objects", "rows", "erase", "unstage", "drop", "dropRows"},
           s = "release" => h.rows = {}, s \in {"reclaim", "supersede"} => h.keys = {},
           live' = live, history' = history, staged' = staged, pending' = pending, objects' = objects,
           cut' = cut
    PROVE  Tidy'
<1>0. PlacesTyped
  BY DEF Shaped
<1>1. TidyFor(p)'
  BY RestsNext
<1>2. pc'[p] = s /\ hand'[p] = h
  BY <1>0, MovesOne, HoldsOne
<1>3. HandRight(p)'
  BY <1>2 DEF HandRight
<1>4. LiveSaved'
  BY DEF Tidy, LiveSaved
<1> QED
  BY <1>1, <1>3, <1>4, TidyMoves

LEMMA WorkRested ==
    ASSUME Shaped, Tidy, calm, NEW p \in Processes,
           pc[p] \in {"supersede", "reserve", "prune", "count", "usage", "window", "recount", "abandoned",
                      "release", "reclaim"}
    PROVE  Rested /\ Alone(p) /\ hand[p].hids = {}
<1>1. TidyFor(p) /\ Alone(p) /\ FitsAt(p, pc[p], hand[p])
  BY AtWork
<1>2. ~Writes(p) /\ ~Stages(p) /\ hand[p].hids = {}
  BY <1>1 DEF Writes, Stages, FitsAt
<1> QED
  BY <1>1, <1>2, RestedBy

\* A version beyond the window of its record has a newer one.
LEMMA BeyondOlder ==
    ASSUME NEW V, NEW v \in Beyond(V, Window)
    PROVE  v \in V /\ \E g \in V : g.slot = v.slot /\ g.hid > v.hid
<1> DEFINE newer == { g \in V : g.slot = v.slot /\ g.hid > v.hid }
<1>1. v \in V /\ Cardinality(newer) >= Window
  BY DEF Beyond
<1>2. newer # {}
  <2> SUFFICES ASSUME newer = {} PROVE FALSE
    OBVIOUS
  <2>1. Cardinality(newer) = 0
    BY FS_EmptySet
  <2> HIDE DEF newer
  <2> QED
    BY <1>1, <2>1, CountAssumption
<1> QED
  BY <1>1, <1>2

LEMMA StartTidy ==
    ASSUME Shaped, Tidy, StartSweep
    PROVE  Tidy'
<1>1. /\ pc[Sweep] = "idle" /\ Go(Sweep, "purge") /\ hand' = hand /\ live' = live /\ history' = history
      /\ staged' = staged /\ pending' = pending /\ objects' = objects /\ cut' = cut /\ calm' = (calm /\ Idle)
  BY DEF StartSweep, At, tables
<1>2. CASE ~calm'
  BY <1>2 DEF Tidy
<1>3. CASE calm'
  <2>1. calm /\ Idle
    BY <1>1, <1>3, Zenon
  <2>2. \A q \in Processes : Settled(q)
    BY <1>1, <2>1, SweepIs DEF Idle, At, Settled, Processes
  <2>3. Alone(Sweep) /\ TidyFor(Sweep)
    BY <2>1, <2>2, SweepIs, Foremost
  <2>4. Rested /\ hand[Sweep].hids = {}
    BY <2>2, <2>3, SweepIs, SettledHolds, RestedBy
  <2>5. Hold(Sweep, hand[Sweep])
    BY <1>1, SweepIs, MovedOnly DEF Shaped
  <2> QED
    BY <1>1, <2>1, <2>3, <2>4, <2>5, SweepIs, RestingTidy
<1> QED
  BY <1>2, <1>3

LEMMA WindowTidy ==
    ASSUME Shaped, Sound, Tidy, calm, EnforceWindow
    PROVE  Tidy'
<1> DEFINE hids == { h.hid : h \in Beyond(history, Window) }
<1>1. /\ pc[Sweep] = "window" /\ CleanUp(Sweep, hids, "recount") /\ live' = live /\ history' = history
      /\ staged' = staged /\ pending' = pending /\ objects' = objects /\ cut' = cut
  BY DEF EnforceWindow, At, tables, ghosts
<1>2. hids \in SUBSET Nat
  BY BeyondIn, HidsTyped DEF Shaped
<1>3. \A v \in history : v.hid \in hids => \E g \in history : g.slot = v.slot /\ g.hid > v.hid
  <2> SUFFICES ASSUME NEW v \in history, v.hid \in hids
               PROVE  \E g \in history : g.slot = v.slot /\ g.hid > v.hid
    OBVIOUS
  <2>1. PICK h \in Beyond(history, Window) : h.hid = v.hid
    OBVIOUS
  <2>2. h \in history /\ \E g \in history : g.slot = h.slot /\ g.hid > h.hid
    BY BeyondOlder
  <2>3. h = v
    BY <2>1, <2>2 DEF Sound, VersionsSound
  <2> QED
    BY <2>2, <2>3
<1> HIDE DEF hids
<1> QED
  BY <1>1, <1>2, <1>3, SweepIs, CleanUpTidy

LEMMA SweepTidy ==
    ASSUME Shaped, Sound, Tidy, calm, SweepStep
    PROVE  Tidy'
<1>0. Sweep \in Processes /\ PlacesTyped
  BY SweepIs DEF Shaped
<1>1. CASE Recount
  <2>1. /\ pc[Sweep] = "recount" /\ Go(Sweep, "abandoned") /\ hand' = hand /\ live' = live /\ history' = history
        /\ staged' = staged /\ pending' = pending /\ objects' = objects /\ cut' = cut
    BY <1>1 DEF Recount, At
  <2>2. Rested /\ Alone(Sweep) /\ hand[Sweep].hids = {} /\ Hold(Sweep, hand[Sweep])
    BY <1>0, <2>1, WorkRested, MovedOnly
  <2> QED
    BY <1>0, <2>1, <2>2, RestingTidy
<1>2. CASE ReadAbandoned
  <2>1. /\ pc[Sweep] = "abandoned" /\ Go(Sweep, "release") /\ live' = live /\ history' = history
        /\ staged' = staged /\ pending' = pending /\ objects' = objects /\ cut' = cut
    BY <1>2 DEF ReadAbandoned, At, tables, ghosts
  <2>2. Rested /\ Alone(Sweep)
    BY <1>0, <2>1, WorkRested
  <2>3. PICK old \in SUBSET Aged : Hold(Sweep, [Nothing EXCEPT !.rows = { x \in old : ~Committed(x) }])
    BY <1>2 DEF ReadAbandoned
  <2>4. { x \in old : ~Committed(x) } = {}
    BY <2>2 DEF Rested, Aged
  <2>5. Hold(Sweep, [hids |-> {}, keys |-> {}, rows |-> {}, then |-> "idle"])
    BY <2>3, <2>4, HeldPart
  <2> QED
    BY <1>0, <2>1, <2>2, <2>5, RestingTidy
<1>3. CASE ReleaseReservations
  <2> DEFINE mine == pending \cap hand[Sweep].rows
  <2>1. /\ pc[Sweep] = "release" /\ Go(Sweep, "reclaim") /\ live' = live /\ history' = history
        /\ staged' = staged /\ pending' = { x \in pending \ mine : ~Committed(x) } /\ objects' = objects /\ cut' = cut
        /\ Hold(Sweep, [Nothing EXCEPT !.keys = KeysOf(mine)])
    BY <1>3 DEF ReleaseReservations, At, ghosts
  <2>2. Rested /\ Alone(Sweep)
    BY <1>0, <2>1, WorkRested
  <2>3. pending' = pending /\ KeysOf(mine) = {}
    BY <2>1, <2>2 DEF Rested, KeysOf
  <2>4. Hold(Sweep, [hids |-> {}, keys |-> {}, rows |-> {}, then |-> "idle"])
    BY <2>1, <2>3, HeldPart
  <2> QED
    BY <1>0, <2>1, <2>2, <2>3, <2>4, RestingTidy
<1>4. CASE ReclaimObjects
  <2>1. /\ pc[Sweep] = "reclaim" /\ Go(Sweep, "idle") /\ Hold(Sweep, Nothing) /\ live' = live /\ history' = history
        /\ staged' = staged /\ pending' = pending /\ objects' = objects \ hand[Sweep].keys /\ cut' = cut
    BY <1>4 DEF ReclaimObjects, At, tables, ghosts
  <2>2. Rested /\ Alone(Sweep) /\ HandRight(Sweep)
    BY <1>0, <2>1, WorkRested, AtWork
  <2>3. objects' = objects
    BY <2>1, <2>2 DEF HandRight
  <2> QED
    BY <1>0, <2>1, <2>2, <2>3, NothingIs, RestingTidy
<1> QED
  BY <1>1, <1>2, <1>3, <1>4, StartTidy, WindowTidy DEF SweepStep

LEMMA BeginTidy ==
    ASSUME Shaped, Tidy, NEW r \in Rounds, NEW b \in Batches, Begin(r, b)
    PROVE  Tidy'
<1>0. r \in Processes /\ r # Sweep
  BY SweepIs
<1> DEFINE keys == KeysOf({ x \in pending : \E n \in NewEnvelopes(b) : n.id = x.id })
           s == IF NewEnvelopes(b) = {} THEN "commit" ELSE "supersede"
<1>1. /\ Idle /\ Go(r, s) /\ Hold(r, [Nothing EXCEPT !.keys = keys]) /\ live' = live /\ history' = history
      /\ staged' = staged /\ pending' = pending /\ objects' = objects /\ cut' = cut
      /\ calm' = (calm /\ pc[Sweep] = "idle")
  BY DEF Begin, LockFree, At, tables
<1>2. CASE ~calm'
  BY <1>2 DEF Tidy
<1>3. CASE calm'
  <2>1. calm /\ pc[Sweep] = "idle"
    BY <1>1, <1>3, Zenon
  <2>2. \A q \in Processes : Settled(q)
    BY <1>1, <2>1 DEF Idle, At, Settled, Processes
  <2>3. Alone(r) /\ TidyFor(r)
    BY <1>0, <2>1, <2>2, Foremost
  <2>4. Rested
    BY <1>0, <2>2, <2>3, SettledHolds, RestedBy
  <2>5. keys = {}
    BY <2>4 DEF Rested, KeysOf
  <2>6. Hold(r, [hids |-> {}, keys |-> {}, rows |-> {}, then |-> "idle"])
    BY <1>1, <2>5, HeldPart
  <2>7. s \in {"commit", "supersede"} /\ pc[r] = "idle"
    BY <1>1 DEF Idle, At
  <2> HIDE DEF s, keys
  <2> QED
    BY <1>0, <1>1, <2>1, <2>3, <2>4, <2>6, <2>7, RestingTidy
<1> QED
  BY <1>2, <1>3

LEMMA SupersedeTidy ==
    ASSUME Shaped, Tidy, calm, NEW r \in Rounds, DropSuperseded(r)
    PROVE  Tidy'
<1>0. r \in Processes
  BY SweepIs
<1>1. /\ pc[r] = "supersede" /\ Go(r, "reserve") /\ Hold(r, Nothing) /\ live' = live /\ history' = history
      /\ staged' = staged /\ pending' = pending /\ objects' = objects \ hand[r].keys /\ cut' = cut
  BY DEF DropSuperseded, At, tables, ghosts
<1>2. Rested /\ Alone(r) /\ HandRight(r)
  BY <1>0, <1>1, WorkRested, AtWork
<1>3. objects' = objects
  BY <1>1, <1>2 DEF HandRight
<1> QED
  BY <1>0, <1>1, <1>2, <1>3, NothingIs, RestingTidy

LEMMA ReserveTidy ==
    ASSUME Shaped, Tidy, calm, NEW r \in Rounds, Reserve(r)
    PROVE  Tidy'
<1>0. r \in Processes
  BY SweepIs
<1>1. /\ pc[r] = "reserve" /\ Go(r, "put") /\ hand' = hand /\ live' = live /\ history' = history
      /\ staged' = staged /\ objects' = objects /\ cut' = cut /\ round' = round
      /\ pending' = { x \in pending : \A n \in round[r].new : n.id # x.id }
                    \cup { [id |-> n.id, key |-> n.key] : n \in round[r].new }
  BY DEF Reserve, At, ghosts
<1>2. Rested /\ Alone(r) /\ LiveSaved /\ hand[r].hids = {} /\ PlacesTyped
  BY <1>0, <1>1, WorkRested, AtWork
<1>3. pc'[r] = "put" /\ Hold(r, hand[r]) /\ \A q \in Processes : q # r => pc'[q] = pc[q]
  BY <1>0, <1>1, <1>2, MovesOne, MovedOnly
<1>4. OnlyReserved(r)'
  BY <1>1, <1>2, <1>3 DEF Rested, OnlyReserved, Writes
<1>5. OnlyStaged(r)' /\ VersionsGo(r)' /\ NothingMore(r)'
  BY <1>1, <1>2 DEF Rested, OnlyStaged, VersionsGo, NothingMore, SlotsOf, KeysOf
<1>6. NothingLess(r)'
  <2>1. (\A q \in Rounds : pc'[q] # "dropRows") => (\A q \in Rounds : pc[q] # "dropRows")
    BY <1>1, <1>3, SweepIs
  <2> QED
    BY <2>1, <1>1, <1>2 DEF Rested, NothingLess
<1>7. NewestSpared(r)'
  BY <1>1, <1>2 DEF NewestSpared
<1>8. DeletesRight(r)' /\ ErasesRight(r)' /\ HandRight(r)'
  BY <1>3 DEF DeletesRight, ErasesRight, HandRight
<1>9. LiveSaved'
  BY <1>1, <1>2 DEF LiveSaved
<1>10. TidyFor(r)'
  BY <1>4, <1>5, <1>6, <1>7, <1>8 DEF TidyFor
<1> QED
  BY <1>0, <1>1, <1>2, <1>3, <1>8, <1>9, <1>10, TidyMoves

LEMMA PutTidy ==
    ASSUME Shaped, KeysSafe, Tidy, calm, NEW r \in Rounds, PutObject(r)
    PROVE  Tidy'
<1>0. r \in Processes
  BY SweepIs
<1>1. /\ pc[r] = "put" /\ hand' = hand /\ live' = live /\ history' = history
      /\ staged' = staged /\ pending' = pending /\ cut' = cut /\ round' = round
      /\ \E k \in KeysOf(round[r].new) : objects' = objects \cup {k}
      /\ \E s \in {"put", "commit"} : Go(r, s)
  BY DEF PutObject, At, tables, ghosts
<1>2. PICK s \in {"put", "commit"} : Go(r, s)
  BY <1>1
<1>3. /\ Alone(r) /\ LiveSaved /\ OnlyReserved(r) /\ OnlyStaged(r) /\ VersionsGo(r) /\ NothingMore(r)
      /\ NothingLess(r) /\ PlacesTyped /\ FitsAt(r, pc[r], hand[r])
  BY <1>0, <1>1, AtWork
<1>4. /\ pc'[r] = s /\ Hold(r, hand[r]) /\ (\A q \in Processes : q # r => pc'[q] = pc[q])
      /\ \A q \in Rounds : q # r => pc[q] = "idle"
  BY <1>0, <1>1, <1>2, <1>3, MovesOne, MovedOnly, Others DEF KeysSafe
<1>5. OnlyReserved(r)'
  BY <1>1, <1>3, <1>4 DEF OnlyReserved, Writes
<1>6. OnlyStaged(r)' /\ VersionsGo(r)'
  BY <1>1, <1>3 DEF OnlyStaged, VersionsGo, Stages, SlotsOf
<1>7. NothingMore(r)'
  BY <1>0, <1>1, <1>3, <1>4 DEF NothingMore, Writes, KeysOf
<1>8. NothingLess(r)'
  <2>1. \A q \in Rounds : pc[q] # "dropRows"
    BY <1>1, <1>4
  <2> QED
    BY <2>1, <1>1, <1>3 DEF NothingLess
<1>9. NewestSpared(r)'
  BY <1>1, <1>3 DEF NewestSpared, FitsAt
<1>10. DeletesRight(r)' /\ ErasesRight(r)' /\ HandRight(r)'
  BY <1>4 DEF DeletesRight, ErasesRight, HandRight
<1>11. LiveSaved'
  BY <1>1, <1>3 DEF LiveSaved
<1>12. TidyFor(r)'
  BY <1>5, <1>6, <1>7, <1>8, <1>9, <1>10 DEF TidyFor
<1>13. \A q \in Rounds : q # r => ~Dropping(q)
  BY <1>4 DEF Dropping
<1> QED
  BY <1>0, <1>1, <1>2, <1>3, <1>4, <1>10, <1>11, <1>12, <1>13, TidyMoves

LEMMA WriteTidy ==
    ASSUME Shaped, Tidy, calm, NEW r \in Rounds, WriteUsage(r)
    PROVE  Tidy'
<1>0. r \in Processes
  BY SweepIs
<1>1. /\ pc[r] = "usage" /\ Go(r, "idle") /\ hand' = hand /\ live' = live /\ history' = history
      /\ staged' = staged /\ pending' = pending /\ objects' = objects /\ cut' = cut
  BY DEF WriteUsage, At, ghosts
<1>2. Rested /\ Alone(r) /\ hand[r].hids = {} /\ Hold(r, hand[r])
  BY <1>0, <1>1, WorkRested, MovedOnly DEF Shaped
<1> QED
  BY <1>0, <1>1, <1>2, RestingTidy

\* A version that is not the live copy of its record is not the newest.
LEMMA OlderGoes ==
    ASSUME Shaped, Sound, LiveSaved, NEW v \in history, NEW l \in live, l.slot = v.slot, l.id # v.id
    PROVE  \E g \in history : g.slot = v.slot /\ g.hid > v.hid
<1>1. PICK g \in history : /\ g.slot = l.slot /\ g.id = l.id
                           /\ \A f \in history : f.slot = l.slot => f.hid <= g.hid
  BY DEF LiveSaved
<1>2. v.hid <= g.hid /\ v.hid # g.hid
  BY <1>1 DEF Sound, VersionsSound
<1>3. v.hid \in Nat /\ g.hid \in Nat
  BY DEF Shaped, TablesTyped, VersionRow
<1> QED
  BY <1>1, <1>2, <1>3

LEMMA PruneTidy ==
    ASSUME Shaped, Sound, Tidy, calm, NEW r \in Rounds, PruneHistory(r)
    PROVE  Tidy'
<1>0. r \in Processes
  BY SweepIs
<1> DEFINE stay == { h \in OfSlots(WrittenSlots(round[r].new, round[r].batch)) : h.id \notin round[r].continued }
           continued == { h \in history : h.id \in round[r].continued }
           goes == Beyond(stay, Window) \cup continued
           hids == { h.hid : h \in goes }
<1>1. /\ pc[r] = "prune" /\ CleanUp(r, hids, "count") /\ live' = live /\ history' = history
      /\ staged' = staged /\ pending' = pending /\ objects' = objects /\ cut' = cut
  BY DEF PruneHistory, At, tables, ghosts
<1>2. stay \in SUBSET history /\ goes \in SUBSET history
  BY BeyondIn DEF OfSlots
<1>3. hids \in SUBSET Nat
  BY <1>2, HidsTyped DEF Shaped
<1>4. LiveSaved
  BY DEF Tidy
<1>5. ASSUME NEW v \in history, v.hid \in hids, v.slot \in SlotsOf(live)
      PROVE  \E g \in history : g.slot = v.slot /\ g.hid > v.hid
  <2>1. v \in goes
    <3>1. PICK h \in goes : h.hid = v.hid
      BY <1>5
    <3>2. h = v
      BY <1>2, <3>1 DEF Sound, VersionsSound
    <3> QED
      BY <3>2
  <2>2. CASE v \in Beyond(stay, Window)
    <3>1. \E g \in stay : g.slot = v.slot /\ g.hid > v.hid
      <4> HIDE DEF stay
      <4> QED
        BY <2>2, BeyondOlder
    <3> QED
      BY <1>2, <3>1
  <2>3. CASE v \in continued
    <3>1. PICK l \in live : l.slot = v.slot
      BY <1>5 DEF SlotsOf
    <3>2. l.id # v.id
      BY <1>1, <2>3 DEF Sound, Continued, Cleans
    <3> QED
      BY <1>4, <3>1, <3>2, OlderGoes
  <2> QED
    BY <2>1, <2>2, <2>3
<1> HIDE DEF hids
<1> QED
  BY <1>0, <1>1, <1>3, <1>5, CleanUpTidy

LEMMA CountTidy ==
    ASSUME Shaped, Sound, Tidy, calm, NEW r \in Rounds, CountVersions(r)
    PROVE  Tidy'
<1>0. r \in Processes
  BY SweepIs
<1> DEFINE after == Counted(OfSlots(WrittenSlots(round[r].new, round[r].batch)))
           total == Plus(round[r].seen, Minus(after, round[r].before))
           goes == Evicted(total)
           hids == { h.hid : h \in goes }
<1>1. /\ pc[r] = "count" /\ CleanUp(r, hids, "usage") /\ live' = live /\ history' = history
      /\ staged' = staged /\ pending' = pending /\ objects' = objects /\ cut' = cut
  BY DEF CountVersions, At, tables, ghosts
<1> HIDE DEF total
<1>2. goes \in SUBSET OlderVersions(history) /\ goes \in SUBSET history
  BY DEF Evicted, OlderVersions
<1>3. hids \in SUBSET Nat
  BY <1>2, HidsTyped DEF Shaped
<1>4. LiveSaved
  BY DEF Tidy
<1>5. ASSUME NEW v \in history, v.hid \in hids, v.slot \in SlotsOf(live)
      PROVE  \E g \in history : g.slot = v.slot /\ g.hid > v.hid
  <2>1. PICK h \in goes : h.hid = v.hid
    BY <1>5
  <2>2. h = v
    BY <1>2, <2>1 DEF Sound, VersionsSound
  <2>3. PICK l \in live : l.slot = v.slot /\ l.id # v.id
    BY <1>2, <2>2 DEF OlderVersions
  <2> QED
    BY <1>4, <2>3, OlderGoes
<1> HIDE DEF hids
<1> QED
  BY <1>0, <1>1, <1>3, <1>5, CleanUpTidy

\* The live copies of what a round wrote are the newest versions.
LEMMA CommitSaves ==
    ASSUME Shaped, Sound, LiveSaved, NEW r \in Rounds, Commit(r)
    PROVE  LiveSaved'
<1> DEFINE new == round[r].new
           top(n) == Version(lastHid + 2 * Rank(new, n), n)
           old(n, l) == Version(lastHid + 2 * Rank(new, n) - 1, l)
<1>1. history' = history \cup Versions(new, Prior(r))
  BY CommitIs
<1>2. /\ live' = (Left(r) \ Prior(r)) \cup new /\ new \in SUBSET LiveRow /\ IsFiniteSet(new) /\ RowsNumbered(new)
      /\ \A l \in live : l \in Prior(r) <=> l \in Left(r) /\ l.slot \in SlotsOf(new)
  BY CommitWrites DEF CommitFits
<1>3. Left(r) \in SUBSET live /\ Prior(r) \in SUBSET live
  BY DEF Left, Prior
<1>4. \A n \in new : Rank(new, n) \in Nat \ {0}
  BY <1>2, RanksAre
<1>5. ASSUME NEW v \in Versions(new, Prior(r))
      PROVE  \E n \in new : v.slot = n.slot /\ v.hid <= lastHid + 2 * Rank(new, n)
  <2>1. PICK n \in new : v = top(n) \/ \E l \in Unsaved(n, Prior(r)) : v = old(n, l)
    BY VersionsAre
  <2>2. CASE v = top(n)
    BY <1>4, <2>2 DEF Version, Shaped, TablesTyped
  <2>3. CASE \E l \in Unsaved(n, Prior(r)) : v = old(n, l)
    BY <1>4, <2>3 DEF Version, Unsaved, Shaped, TablesTyped
  <2> QED
    BY <2>1, <2>2, <2>3
<1>6. ASSUME NEW l \in live'
      PROVE  \E v \in history' :
                  /\ v.slot = l.slot /\ v.id = l.id /\ v.key = l.key
                  /\ \A g \in history' : g.slot = l.slot => g.hid <= v.hid
  <2>1. CASE l \in new
    <3>1. top(l) \in Versions(new, Prior(r))
      BY <2>1, VersionsAre
    <3>2. top(l).slot = l.slot /\ top(l).id = l.id /\ top(l).key = l.key /\ top(l).hid = lastHid + 2 * Rank(new, l)
      BY DEF Version
    <3>3. ASSUME NEW g \in history, g.slot = l.slot PROVE g.hid <= lastHid + 2 * Rank(new, l)
      <4>1. g.hid <= lastHid /\ g.hid \in Nat /\ lastHid \in Nat
        BY DEF Sound, VersionsSound, Shaped, TablesTyped, VersionRow
      <4> QED
        BY <1>4, <2>1, <4>1
    <3>4. ASSUME NEW g \in Versions(new, Prior(r)), g.slot = l.slot PROVE g.hid <= lastHid + 2 * Rank(new, l)
      <4>1. PICK n \in new : g.slot = n.slot /\ g.hid <= lastHid + 2 * Rank(new, n)
        BY <1>5
      <4>2. n = l
        BY <1>2, <2>1, <3>4, <4>1 DEF RowsNumbered
      <4> QED
        BY <4>1, <4>2
    <3> HIDE DEF top
    <3> QED
      BY <1>1, <3>1, <3>2, <3>3, <3>4
  <2>2. CASE l \notin new
    <3>1. l \in live /\ l \in Left(r) /\ l.slot \notin SlotsOf(new)
      BY <1>2, <1>3, <2>2
    <3>2. PICK v \in history : /\ v.slot = l.slot /\ v.id = l.id /\ v.key = l.key
                               /\ \A g \in history : g.slot = l.slot => g.hid <= v.hid
      BY <3>1 DEF LiveSaved
    <3>3. \A g \in Versions(new, Prior(r)) : g.slot # l.slot
      BY <1>5, <3>1 DEF SlotsOf
    <3> QED
      BY <1>1, <3>2, <3>3
  <2> QED
    BY <2>1, <2>2
<1> QED
  BY <1>6 DEF LiveSaved

LEMMA CopiesSlots == ASSUME NEW D PROVE SlotsOf(StagedCopies(D)) = SlotsOf(D)
<1> DEFINE copy(d) == [slot |-> d.slot, id |-> d.id, key |-> d.key]
<1>1. \A d : copy(d).slot = d.slot
  OBVIOUS
<1>2. StagedCopies(D) = { copy(d) : d \in D }
  BY DEF StagedCopies
<1> HIDE DEF copy
<1>3. \A x : x \in SlotsOf(StagedCopies(D)) <=> \E d \in D : x = d.slot
  BY <1>1, <1>2 DEF SlotsOf
<1> QED
  BY <1>3 DEF SlotsOf

LEMMA CommitTidy ==
    ASSUME Shaped, KeysSafe, Sound, Tidy, calm, NEW r \in Rounds, Commit(r)
    PROVE  Tidy'
<1>0. r \in Processes
  BY SweepIs
<1> DEFINE new == round[r].new
           removed == round[r].removed
           s == IF removed # {} THEN "purge" ELSE "prune"
           added == Versions(new, Prior(r))
<1>1. /\ pc[r] = "commit" /\ Go(r, s) /\ hand' = hand /\ objects' = objects /\ cut' = cut /\ round' = round
      /\ staged' = Staged(removed) /\ history' = history \cup added
      /\ pending' = { x \in pending : \A n \in new : n.id # x.id }
  BY CommitIs DEF ghosts
<1>2. /\ live' = (Left(r) \ Prior(r)) \cup new /\ Left(r) = live \ removed
      /\ \A l \in live : l \in Prior(r) <=> l \in Left(r) /\ l.slot \in SlotsOf(new)
  BY CommitWrites DEF CommitFits
<1>3. /\ Alone(r) /\ LiveSaved /\ OnlyReserved(r) /\ OnlyStaged(r) /\ VersionsGo(r) /\ NothingMore(r)
      /\ NothingLess(r) /\ PlacesTyped /\ FitsAt(r, pc[r], hand[r])
  BY <1>0, <1>1, AtWork
<1>4. /\ pc'[r] = s /\ Hold(r, hand[r]) /\ (\A q \in Processes : q # r => pc'[q] = pc[q])
      /\ \A q \in Rounds : q # r => pc[q] = "idle"
  BY <1>0, <1>1, <1>3, MovesOne, MovedOnly, Others DEF KeysSafe
<1>5. s \in {"purge", "prune"} /\ (removed # {} => s = "purge")
  OBVIOUS
<1> HIDE DEF s
<1>6. pending' = {}
  BY <1>1, <1>3 DEF OnlyReserved
<1>7. staged' = StagedCopies(removed)
  <2>1. staged = {}
    BY <1>1, <1>3 DEF OnlyStaged, Stages
  <2> QED
    BY <1>1, <2>1 DEF Staged
<1>8. SlotsOf(staged)' = SlotsOf(removed)
  <2>1. SlotsOf(staged)' = SlotsOf(staged')
    BY DEF SlotsOf
  <2> QED
    BY <1>7, <2>1, CopiesSlots
<1>9. OnlyReserved(r)'
  BY <1>6 DEF OnlyReserved
<1>10. OnlyStaged(r)'
  <2>1. ASSUME NEW x \in staged' PROVE x.slot \in SlotsOf(removed) /\ s = "purge"
    BY <1>5, <1>7, <2>1 DEF StagedCopies, SlotsOf
  <2> QED
    BY <1>1, <1>4, <2>1 DEF OnlyStaged, Stages
<1>11. \A v \in added : /\ v.slot \in SlotsOf(new)
                        /\ v.key \in KeysOf(new) \/ \E l \in live : v.key = l.key
  <2> SUFFICES ASSUME NEW v \in added
               PROVE  v.slot \in SlotsOf(new) /\ (v.key \in KeysOf(new) \/ \E l \in live : v.key = l.key)
    OBVIOUS
  <2>1. PICK n \in new : \/ v = Version(lastHid + 2 * Rank(new, n), n)
                         \/ \E l \in Unsaved(n, Prior(r)) : v = Version(lastHid + 2 * Rank(new, n) - 1, l)
    BY VersionsAre
  <2> QED
    BY <2>1 DEF Version, Unsaved, Prior, Left, SlotsOf, KeysOf
<1>12. \A n \in new : \E v \in added : v.key = n.key
  <2> SUFFICES ASSUME NEW n \in new PROVE \E v \in added : v.key = n.key
    OBVIOUS
  <2>1. Version(lastHid + 2 * Rank(new, n), n) \in added
    BY VersionsAre
  <2>2. Version(lastHid + 2 * Rank(new, n), n).key = n.key
    BY DEF Version
  <2> QED
    BY <2>1, <2>2
<1> HIDE DEF added
<1>13. VersionsGo(r)'
  <2>1. ASSUME NEW v \in history, v.slot \notin SlotsOf(live')
        PROVE  v.slot \in SlotsOf(removed)
    <3>1. PICK l \in live : l.slot = v.slot
      BY <1>1, <1>3 DEF VersionsGo, Stages, SlotsOf
    <3>2. CASE l \in removed
      BY <3>1, <3>2 DEF SlotsOf
    <3>3. CASE l \notin removed
      <4>1. l \in live' \/ l.slot \in SlotsOf(new)
        BY <1>2, <3>3
      <4> QED
        BY <1>2, <2>1, <3>1, <4>1 DEF SlotsOf
    <3> QED
      BY <3>2, <3>3
  <2>2. ASSUME NEW v \in added PROVE v.slot \in SlotsOf(live')
    BY <1>2, <1>11 DEF SlotsOf
  <2>3. SlotsOf(removed) # {} => s = "purge"
    BY <1>5 DEF SlotsOf
  <2>4. SlotsOf(live)' = SlotsOf(live')
    BY DEF SlotsOf
  <2> QED
    BY <1>0, <1>1, <1>4, <1>8, <2>1, <2>2, <2>3, <2>4 DEF VersionsGo
<1>14. NothingMore(r)'
  <2>1. \A k \in objects : k \in KeysOf(history) \/ k \in KeysOf(new)
    <3>1. staged = {}
      BY <1>1, <1>3 DEF OnlyStaged, Stages
    <3> QED
      BY <1>1, <1>3, <3>1 DEF NothingMore, KeysOf
  <2> QED
    BY <1>1, <1>12, <2>1 DEF NothingMore, KeysOf
<1>15. NothingLess(r)'
  <2>1. \A q \in Rounds : pc[q] # "dropRows"
    BY <1>1, <1>4
  <2>2. KeysOf(live) \subseteq objects /\ KeysOf(new) \subseteq objects
    BY <1>1, <2>1 DEF KeysSafe, LiveReadable, Tidy, At
  <2>3. \A v \in added : v.key \in objects
    BY <1>11, <2>2 DEF KeysOf
  <2>4. \A v \in history : v.key \in objects
    BY <1>1, <1>3, <2>1 DEF NothingLess
  <2> QED
    BY <1>1, <2>3, <2>4 DEF NothingLess
<1>16. NewestSpared(r)'
  BY <1>1, <1>3 DEF NewestSpared, FitsAt
<1>17. DeletesRight(r)' /\ ErasesRight(r)' /\ HandRight(r)'
  BY <1>4, <1>5 DEF DeletesRight, ErasesRight, HandRight
<1>18. LiveSaved'
  BY <1>3, CommitSaves
<1>19. TidyFor(r)'
  BY <1>9, <1>10, <1>13, <1>14, <1>15, <1>16, <1>17 DEF TidyFor
<1> QED
  BY <1>0, <1>1, <1>3, <1>4, <1>17, <1>18, <1>19, TidyMoves

\* One step of a deletion, or of a round while none cleans up: the sweep is the one.
LEMMA DropMoves ==
    ASSUME Shaped, Tidy, calm, NEW r \in Rounds, NEW s \in {"idle", "drop", "dropRows"}, NEW h,
           Go(r, s), Hold(r, h), Alone(Sweep), TidyFor(Sweep)', ~cut', LiveSaved', HandRight(r)',
           objects' \subseteq objects
    PROVE  Tidy'
<1>0. PlacesTyped /\ r \in Processes /\ Sweep \in Processes
  BY SweepIs DEF Shaped
<1>1. pc'[r] = s /\ \A q \in Processes : q # r => pc'[q] = pc[q] /\ hand'[q] = hand[q]
  BY <1>0, MovesOne, HoldsOne
<1>2. Alone(Sweep)'
  BY <1>1 DEF Alone, Settled, Dropping
<1>3. ASSUME NEW q \in Processes, q # r PROVE HandRight(q)'
  <2>1. HandRight(q) /\ pc'[q] = pc[q] /\ hand'[q] = hand[q]
    BY <1>1, <1>3 DEF Tidy
  <2> QED
    BY <2>1 DEF HandRight
<1> QED
  BY <1>0, <1>2, <1>3 DEF Tidy

\* The sweep, when every round is idle or a deletion.
LEMMA SweepFirst ==
    ASSUME Shaped, KeysSafe, Tidy, calm, NEW r \in Rounds, Idle \/ Dropping(r)
    PROVE  /\ Alone(Sweep) /\ TidyFor(Sweep) /\ LiveSaved /\ ~cut /\ r \in Processes /\ Sweep \in Processes
           /\ OnlyReserved(Sweep) /\ OnlyStaged(Sweep) /\ VersionsGo(Sweep) /\ NothingMore(Sweep)
           /\ NothingLess(Sweep) /\ NewestSpared(Sweep) /\ DeletesRight(Sweep) /\ ErasesRight(Sweep)
           /\ PlacesTyped /\ r # Sweep
<1>0. PlacesTyped /\ r \in Processes /\ Sweep \in Processes /\ r # Sweep
  BY SweepIs DEF Shaped
<1>1. \A q \in Rounds : Settled(q)
  <2> SUFFICES ASSUME NEW q \in Rounds PROVE Settled(q)
    OBVIOUS
  <2> QED
    BY DEF Idle, At, Settled, Dropping, KeysSafe, Locked
<1>2. \A q \in Processes : q # Sweep => Settled(q)
  BY <1>1 DEF Processes
<1>3. Alone(Sweep) /\ TidyFor(Sweep)
  BY <1>0, <1>2, Foremost
<1> QED
  BY <1>0, <1>3 DEF TidyFor, Tidy

LEMMA DeleteAccountTidy ==
    ASSUME Shaped, KeysSafe, Tidy, calm, NEW r \in Rounds, DeleteAccount(r)
    PROVE  Tidy'
<1> DEFINE keys == KeysOf(live) \cup KeysOf(staged) \cup KeysOf(history) \cup KeysOf(pending)
           h == [Nothing EXCEPT !.keys = keys]
<1>1. /\ Idle /\ Go(r, "drop") /\ Hold(r, h) /\ live' = live /\ history' = history
      /\ staged' = staged /\ pending' = pending /\ objects' = objects /\ cut' = cut /\ round' = round
  BY DEF DeleteAccount, LockFree, tables, ghosts
<1>2. /\ Alone(Sweep) /\ TidyFor(Sweep) /\ LiveSaved /\ ~cut /\ r \in Processes /\ Sweep \in Processes
      /\ NothingMore(Sweep) /\ NothingLess(Sweep) /\ PlacesTyped /\ r # Sweep
      /\ OnlyReserved(Sweep) /\ OnlyStaged(Sweep) /\ VersionsGo(Sweep)
      /\ NewestSpared(Sweep) /\ DeletesRight(Sweep) /\ ErasesRight(Sweep)
  BY <1>1, SweepFirst
<1>3. h.keys = keys
  BY HeldPart
<1> HIDE DEF h
<1>4. pc'[r] = "drop" /\ hand'[r] = h /\ \A q \in Processes : q # r => pc'[q] = pc[q] /\ hand'[q] = hand[q]
  BY <1>1, <1>2, MovesOne, HoldsOne
<1>5. HandRight(r)'
  <2>1. objects \subseteq keys
    BY <1>2, SweepIs DEF NothingMore, Writes
  <2> HIDE DEF keys
  <2> QED
    BY <1>1, <1>3, <1>4, <2>1 DEF HandRight
<1>6. pc'[Sweep] = pc[Sweep] /\ hand'[Sweep] = hand[Sweep]
  BY <1>2, <1>4
<1>7. OnlyReserved(Sweep)' /\ OnlyStaged(Sweep)' /\ VersionsGo(Sweep)' /\ NothingMore(Sweep)'
  BY <1>1, <1>2, <1>6 DEF OnlyReserved, OnlyStaged, VersionsGo, NothingMore, Writes, Stages, SlotsOf, KeysOf
<1>8. NothingLess(Sweep)'
  <2>1. \A q \in Rounds : pc[q] # "dropRows"
    BY <1>1 DEF Idle, At
  <2> QED
    BY <1>1, <1>2, <1>6, <2>1 DEF NothingLess
<1>9. NewestSpared(Sweep)' /\ DeletesRight(Sweep)' /\ ErasesRight(Sweep)'
  BY <1>1, <1>2, <1>6 DEF NewestSpared, DeletesRight, ErasesRight, SlotsOf, KeysOf
<1>10. TidyFor(Sweep)'
  BY <1>7, <1>8, <1>9 DEF TidyFor
<1>11. LiveSaved' /\ ~cut'
  BY <1>1, <1>2 DEF LiveSaved
<1> QED
  BY <1>1, <1>2, <1>5, <1>10, <1>11, DropMoves

LEMMA DropObjectsTidy ==
    ASSUME Shaped, KeysSafe, Tidy, calm, NEW r \in Rounds, DropObjects(r)
    PROVE  Tidy'
<1>1. /\ pc[r] = "drop" /\ Go(r, "dropRows") /\ hand' = hand /\ live' = live /\ history' = history
      /\ staged' = staged /\ pending' = pending /\ objects' = objects \ hand[r].keys /\ cut' = cut /\ round' = round
  BY DEF DropObjects, At, tables, ghosts
<1>2. /\ Alone(Sweep) /\ LiveSaved /\ ~cut /\ r \in Processes /\ Sweep \in Processes
      /\ OnlyReserved(Sweep) /\ OnlyStaged(Sweep) /\ VersionsGo(Sweep)
      /\ NewestSpared(Sweep) /\ DeletesRight(Sweep) /\ ErasesRight(Sweep) /\ PlacesTyped /\ r # Sweep
  BY <1>1, SweepFirst DEF Dropping
<1>3. pc'[r] = "dropRows" /\ Hold(r, hand[r]) /\ \A q \in Processes : q # r => pc'[q] = pc[q]
  BY <1>1, <1>2, MovesOne, MovedOnly
<1>4. objects' = {}
  BY <1>1, <1>2 DEF Tidy, HandRight
<1>5. pc'[Sweep] = pc[Sweep] /\ HandRight(r)'
  BY <1>2, <1>3, <1>4 DEF HandRight
<1>6. OnlyReserved(Sweep)' /\ OnlyStaged(Sweep)' /\ VersionsGo(Sweep)'
  BY <1>1, <1>2, <1>5 DEF OnlyReserved, OnlyStaged, VersionsGo, Writes, Stages, SlotsOf
<1>7. NothingMore(Sweep)' /\ NothingLess(Sweep)'
  BY <1>3, <1>4 DEF NothingMore, NothingLess
<1>8. NewestSpared(Sweep)' /\ DeletesRight(Sweep)' /\ ErasesRight(Sweep)'
  BY <1>1, <1>2, <1>4, <1>5 DEF NewestSpared, DeletesRight, ErasesRight, SlotsOf, KeysOf
<1>9. TidyFor(Sweep)'
  BY <1>6, <1>7, <1>8 DEF TidyFor
<1>10. LiveSaved' /\ ~cut'
  BY <1>1, <1>2 DEF LiveSaved
<1> QED
  BY <1>1, <1>2, <1>3, <1>4, <1>5, <1>9, <1>10, DropMoves

LEMMA DropRowsTidy ==
    ASSUME Shaped, KeysSafe, Tidy, calm, NEW r \in Rounds, DropRows(r)
    PROVE  Tidy'
<1>1. /\ pc[r] = "dropRows" /\ Go(r, "idle") /\ Hold(r, Nothing) /\ live' = {} /\ history' = {}
      /\ staged' = {} /\ pending' = {} /\ objects' = objects /\ cut' = FALSE
  BY DEF DropRows, At
<1>2. /\ Alone(Sweep) /\ r \in Processes /\ Sweep \in Processes /\ PlacesTyped /\ r # Sweep
  BY <1>1, SweepFirst DEF Dropping
<1>3. pc'[r] = "idle"
  BY <1>1, <1>2, MovesOne
<1>4. objects' = {}
  BY <1>1, <1>2 DEF Tidy, HandRight
<1>5. HandRight(r)'
  BY <1>3 DEF HandRight
<1>6. OnlyReserved(Sweep)' /\ OnlyStaged(Sweep)' /\ VersionsGo(Sweep)'
  BY <1>1 DEF OnlyReserved, OnlyStaged, VersionsGo
<1>7. NothingMore(Sweep)' /\ NothingLess(Sweep)' /\ NewestSpared(Sweep)'
  BY <1>1, <1>4 DEF NothingMore, NothingLess, NewestSpared
<1>8. DeletesRight(Sweep)' /\ ErasesRight(Sweep)'
  <2>1. KeysOf(history)' = {} /\ KeysOf(staged)' = {}
    BY <1>1 DEF KeysOf
  <2> QED
    BY <1>1, <1>4, <2>1 DEF DeletesRight, ErasesRight
<1>9. TidyFor(Sweep)'
  BY <1>6, <1>7, <1>8 DEF TidyFor
<1>10. LiveSaved'
  BY <1>1 DEF LiveSaved
<1>11. ~cut'
  BY <1>1, Zenon
<1> QED
  BY <1>1, <1>2, <1>4, <1>5, <1>9, <1>10, <1>11, DropMoves

LEMMA RoundTidy ==
    ASSUME Shaped, KeysSafe, Sound, Tidy, calm, NEW r \in Rounds, RoundStep(r)
    PROVE  Tidy'
<1>1. CASE (\E b \in Batches : Begin(r, b)) \/ DropSuperseded(r) \/ Reserve(r) \/ PutObject(r)
  BY <1>1, BeginTidy, SupersedeTidy, ReserveTidy, PutTidy
<1>2. CASE Commit(r) \/ PruneHistory(r) \/ CountVersions(r) \/ WriteUsage(r)
  BY <1>2, CommitTidy, PruneTidy, CountTidy, WriteTidy
<1>3. CASE DeleteAccount(r) \/ DropObjects(r) \/ DropRows(r)
  BY <1>3, DeleteAccountTidy, DropObjectsTidy, DropRowsTidy
<1> QED
  BY <1>1, <1>2, <1>3 DEF RoundStep

LEMMA SameTidy ==
    ASSUME Tidy, live' = live, history' = history, staged' = staged, pending' = pending, objects' = objects,
           pc' = pc, hand' = hand, round' = round, cut' = cut, calm' = calm
    PROVE  Tidy'
<1>1. CASE ~calm
  BY <1>1 DEF Tidy
<1>2. CASE calm
  <2>1. PICK p \in Processes : Alone(p) /\ TidyFor(p)
    BY <1>2 DEF Tidy
  <2>2. Alone(p)' /\ OnlyReserved(p)' /\ OnlyStaged(p)' /\ VersionsGo(p)' /\ NothingMore(p)'
    BY <2>1 DEF TidyFor, Alone, Settled, Dropping, OnlyReserved, OnlyStaged, VersionsGo, NothingMore, Writes,
                Stages, SlotsOf, KeysOf
  <2>3. NothingLess(p)' /\ NewestSpared(p)' /\ DeletesRight(p)' /\ ErasesRight(p)'
    BY <2>1 DEF TidyFor, NothingLess, NewestSpared, DeletesRight, ErasesRight, SlotsOf, KeysOf
  <2>4. LiveSaved' /\ ~cut' /\ \A q \in Processes : HandRight(q)'
    BY <1>2 DEF Tidy, LiveSaved, HandRight
  <2> QED
    BY <2>2, <2>3, <2>4 DEF Tidy, TidyFor
<1> QED
  BY <1>1, <1>2

\* Once a process is cut short, or a sweep and a round meet, nothing is promised.
LEMMA OnlyCalm == ASSUME Next, ~calm PROVE ~calm'
<1>1. ASSUME NEW r \in Rounds, RoundStep(r) PROVE ~calm'
  BY <1>1, Zenon DEF RoundStep, Begin, DropSuperseded, Reserve, PutObject, Commit, PruneHistory, CountVersions,
                WriteUsage, DeleteAccount, DropObjects, DropRows, ghosts
<1>2. ASSUME SweepStep PROVE ~calm'
  BY <1>2, Zenon DEF SweepStep, StartSweep, EnforceWindow, Recount, ReadAbandoned, ReleaseReservations,
                ReclaimObjects, ghosts
<1>3. ASSUME NEW p \in Processes, Cleaning(p) \/ CutShort(p) PROVE ~calm'
  BY <1>3, Zenon DEF Cleaning, FindUnreferenced, DeleteObjects, DeleteRows, PurgeVersions, ReadStaged, EraseStaged,
                Unstage, CutShort, ghosts
<1>4. ASSUME CreateAccount PROVE ~calm'
  BY <1>4, Zenon DEF CreateAccount, ghosts
<1> QED
  BY <1>1, <1>2, <1>3, <1>4 DEF Next

LEMMA TidyStays ==
    ASSUME Shaped, KeysSafe, Sound, Tidy, Next
    PROVE  Tidy'
<1>1. CASE ~calm
  BY <1>1, OnlyCalm DEF Tidy
<1>2. CASE calm
  <2>1. CASE CreateAccount
    <3>1. /\ live' = live /\ history' = history /\ staged' = staged /\ pending' = pending /\ objects' = objects
          /\ pc' = pc /\ hand' = hand /\ round' = round /\ cut' = cut /\ calm' = calm
      BY <2>1 DEF CreateAccount, ghosts
    <3> QED
      BY <3>1, SameTidy
  <2>2. CASE \E r \in Rounds : RoundStep(r)
    BY <1>2, <2>2, RoundTidy
  <2>3. CASE SweepStep
    BY <1>2, <2>3, SweepTidy
  <2>4. CASE \E p \in Processes : Cleaning(p)
    BY <1>2, <2>4, CleaningTidy
  <2>5. CASE \E p \in Processes : CutShort(p)
    <3>1. calm' = FALSE
      BY <2>5 DEF CutShort
    <3> QED
      BY <3>1 DEF Tidy
  <2> QED
    BY <2>1, <2>2, <2>3, <2>4, <2>5 DEF Next
<1> QED
  BY <1>1, <1>2

LEMMA TidyAtFirst == ASSUME Init PROVE Tidy
<1>1. /\ live = {} /\ history = {} /\ staged = {} /\ pending = {} /\ objects = {} /\ cut = FALSE
      /\ \A p \in Processes : pc[p] = "idle" /\ hand[p] = Nothing
  BY DEF Init
<1>2. Rested /\ LiveSaved
  BY <1>1 DEF Rested, LiveSaved
<1>3. Alone(Sweep) /\ TidyFor(Sweep)
  BY <1>1, <1>2, SweepIs, NothingIs, RestedFor DEF Alone, Settled
<1>4. \A p \in Processes : HandRight(p)
  BY <1>1 DEF HandRight
<1>5. ~cut
  BY <1>1, Zenon
<1> QED
  BY <1>2, <1>3, <1>4, <1>5, SweepIs DEF Tidy

LEMMA TidyLeavesNothing ==
    ASSUME Firm, Tidy
    PROVE  NothingLeftBehind
<1> SUFFICES ASSUME calm, \A p \in Processes : pc[p] = "idle"
             PROVE  /\ objects = KeysOf(live) \cup KeysOf(history)
                    /\ SlotsOf(history) = SlotsOf(live) /\ staged = {} /\ pending = {}
  BY DEF NothingLeftBehind, At
<1>1. \A p \in Processes : Settled(p)
  BY DEF Settled
<1>2. Rested /\ LiveSaved
  BY <1>1, SweepIs, Foremost, SettledHolds, RestedBy DEF Firm, Tidy
<1>3. \A r \in Rounds : pc[r] # "dropRows"
  BY SweepIs
<1>4. KeysOf(live) \subseteq KeysOf(history) /\ SlotsOf(live) \subseteq SlotsOf(history)
  BY <1>2 DEF LiveSaved, KeysOf, SlotsOf
<1>5. objects \subseteq KeysOf(history) /\ KeysOf(history) \subseteq objects
  BY <1>2, <1>3 DEF Rested, KeysOf
<1>6. SlotsOf(history) \subseteq SlotsOf(live)
  BY <1>2 DEF Rested, SlotsOf
<1> QED
  BY <1>2, <1>4, <1>5, <1>6 DEF Rested

LEMMA TidySteps == ASSUME Firm, Tidy, [Next]_vars PROVE Tidy'
<1>1. CASE Next
  BY <1>1, TidyStays DEF Firm
<1>2. CASE UNCHANGED vars
  BY <1>2, SameTables, SameTidy
<1> QED
  BY <1>1, <1>2

-----------------------------------------------------------------------------
(* The coordinator, at last.                                                *)

LEMMA CoordinatorInvAlways == Spec => []CoordinatorInv
<1>1. Init => CoordinatorInv
  BY FirmAtFirst, UsageAtFirst, TidyAtFirst DEF CoordinatorInv
<1>2. CoordinatorInv /\ [Next]_vars => CoordinatorInv'
  BY FirmStays, UsageSteps, TidySteps DEF CoordinatorInv
<1> QED
  BY <1>1, <1>2, PTL DEF Spec

\* Every variable keeps to its kind; a record, a version, a sequence number and a
\* reservation have one row; and the account's counters count its live rows
\* (SyncStore.applyMutation and its commit in D1).
THEOREM CoordinatorTypeCorrect == Spec => []TypeOK
<1>1. CoordinatorInv => TypeOK
  BY TypesAreOK DEF CoordinatorInv, Firm
<1> QED
  BY <1>1, CoordinatorInvAlways, PTL

\* No live record loses its ciphertext in R2: not to the cleanup of a round, not to the
\* daily upkeep, not to both at once, wherever either is cut short.
THEOREM LiveStaysReadable == Spec => []LiveReadable
<1>1. CoordinatorInv => LiveReadable
  BY DEF CoordinatorInv, Firm, KeysSafe
<1> QED
  BY <1>1, CoordinatorInvAlways, PTL

\* The count of versions in the quota is right between rounds until a round is cut short or
\* meets the upkeep, and the upkeep sets it right again.
THEOREM CountIsExact == Spec => []UsageExact
<1>1. CoordinatorInv => UsageExact
  BY UsageIsExact DEF CoordinatorInv
<1> QED
  BY <1>1, CoordinatorInvAlways, PTL

\* While nothing is cut short and no upkeep meets a round, R2 holds between rounds the
\* objects of live records and of their versions and no others, and nothing is left of
\* deleted records and of uploads.
THEOREM NothingIsLeft == Spec => []NothingLeftBehind
<1>1. CoordinatorInv => NothingLeftBehind
  BY TidyLeavesNothing DEF CoordinatorInv
<1> QED
  BY <1>1, CoordinatorInvAlways, PTL

\* A round that reads, decides and commits in separate steps commits the very rows it would
\* have committed in one.
THEOREM RoundsCommitAlone == Spec => RoundsAreSerial
<1>1. CoordinatorInv /\ [Next]_vars =>
        [ \A r \in Rounds : At(r, "commit") /\ pc'[r] # "commit" /\ round'[r] = round[r] =>
            LET b == round[r].batch IN
            /\ Conflicts(Bare(live), b.uploads) = {}
            /\ account'.nextSeq = ClockAfter(Bare(live), account.nextSeq, b)
            /\ Bare(live') = RowsAfter(Bare(live), account.nextSeq, b) ]_vars
  <2> SUFFICES ASSUME CoordinatorInv, Next, NEW r \in Rounds, At(r, "commit"), pc'[r] # "commit",
                      round'[r] = round[r]
               PROVE  LET b == round[r].batch IN
                      /\ Conflicts(Bare(live), b.uploads) = {}
                      /\ account'.nextSeq = ClockAfter(Bare(live), account.nextSeq, b)
                      /\ Bare(live') = RowsAfter(Bare(live), account.nextSeq, b)
    OBVIOUS
  <2> QED
    BY SerialStep DEF CoordinatorInv, Firm, At
<1> QED
  BY <1>1, CoordinatorInvAlways, PTL DEF Spec, RoundsAreSerial

-----------------------------------------------------------------------------
(* The inductive invariant.                                                 *)

\* A registration is about to arm the alarm.
RegistrationArms == \E c \in Clients : clients[c].step = "arm" /\ clients[c].revision = Never

\* What the current delivery is about to set serves the wake.
NextServes(w) ==
    \A m \in Messages : messages[m].current /\ messages[m].stage = "set" => Serves(messages[m].next, w)

AlarmFor(w) == alarm # Never /\ alarm <= LaterTime(DueAgain(w), now + RetryAfter)

\* The alarm or a delivery looks after a wake, whatever becomes of requests and markers.
LookedAfter(w) == AlarmFor(w) /\ NextServes(w) /\ (Serves(alarm, w) \/ InDelivery(w) \/ Retried)

Covered(w) == RegistrationArms \/ LookedAfter(w)

\* A request that is past its write knows of no newer revision than the stored one,
\* and what a request is about to write differs from the stored snapshot as it has read.
RequestsSound ==
    \A c \in Clients :
        /\ clients[c].step \in {"arm", "mark"} /\ clients[c].revision # Never =>
             revision # Never /\ clients[c].revision <= revision
        /\ clients[c].step = "mark" => clients[c].revision # Never
        /\ clients[c].step = "write" =>
             /\ clients[c].revision # Never
             /\ revision = Never \/ revision < clients[c].revision
             /\ clients[c].changed = (clients[c].snapshot # wakes)
             /\ \A d \in Clients : clients[d].step = "write" => d = c

\* A claim is not dated later than now, unless a failed push has put its wake off; and no
\* wake is put off for longer than it would be now.
RowsSound ==
    \A w \in WakeIds :
        /\ rows[w].delivered => w \in reached
        /\ rows[w].claimed # Never => rows[w].claimed <= now \/ rows[w].claimed + Lease <= putOff[w]
        /\ putOff[w] <= DeferTime(w)

\* The marker may only stand in for the alarm until a request that armed takes it away.
Armed == \A w \in WakeIds : Pending(w) => unscheduled # Never \/ Covered(w)

MarkSound ==
    \A c \in Clients :
        clients[c].step = "mark" /\ unscheduled # Never /\ unscheduled <= clients[c].revision =>
            \A w \in WakeIds : Pending(w) => Covered(w)

AlarmInv == AlarmTypeOK /\ RequestsSound /\ RowsSound /\ Armed /\ MarkSound

-----------------------------------------------------------------------------
(* Types.                                                                   *)

Times == Nat \cup {Never}

ClientRecord == [ step : {"none", "write", "arm", "mark"}, revision : Times,
                  snapshot : SUBSET WakeIds, changed : BOOLEAN, owing : BOOLEAN ]

MessageRecord ==
    [ stage : {"none", "queued", "select", "claim", "push", "set", "ack"}, tries : Nat,
      current : BOOLEAN, due : SUBSET WakeIds, next : Times ]

LEMMA ClientsTyped ==
    ASSUME AlarmTypeOK, NEW c \in Clients, NEW r \in ClientRecord, Set(c, r)
    PROVE  /\ clients' \in [Clients -> ClientRecord] /\ clients'[c] = r
           /\ \A d \in Clients \ {c} : clients'[d] = clients[d]
<1>1. clients \in [Clients -> ClientRecord]
  BY DEF AlarmTypeOK, ClientRecord, Times
<1> QED
  BY <1>1 DEF Set

LEMMA MessagesTyped ==
    ASSUME AlarmTypeOK, NEW m \in Messages, NEW x \in MessageRecord, Put(m, x)
    PROVE  /\ messages' \in [Messages -> MessageRecord] /\ messages'[m] = x
           /\ \A n \in Messages \ {m} : messages'[n] = messages[n]
<1>1. messages \in [Messages -> MessageRecord]
  BY DEF AlarmTypeOK, MessageRecord, Times
<1> QED
  BY <1>1 DEF Put

LEMMA Typed ==
    ASSUME AlarmTypeOK
    PROVE  /\ clients \in [Clients -> ClientRecord] /\ messages \in [Messages -> MessageRecord]
           /\ now \in Nat /\ alarm \in Times /\ gaveUpAt \in Times /\ unscheduled \in Times
           /\ revision \in Times /\ putOff \in [WakeIds -> Nat]
           /\ rows \in [WakeIds -> [claimed : Times, delivered : BOOLEAN]]
           /\ Never \notin Int /\ FireAt \in [WakeIds -> Nat]
           /\ Lease \in Nat /\ Backoff \in Nat /\ Lease <= Backoff /\ RetryAfter \in Nat /\ Lease > 0
BY WakeAssumption, NeverAssumption, DelayAssumption DEF AlarmTypeOK, ClientRecord, MessageRecord, Times

LEMMA BlankRecords ==
    /\ NoClient \in ClientRecord /\ NoMessage \in MessageRecord /\ Queued \in MessageRecord
    /\ NoClient.step = "none" /\ NoMessage.stage = "none" /\ ~NoMessage.current
    /\ Queued.stage = "queued" /\ ~Queued.current
BY DEF NoClient, NoMessage, Queued, ClientRecord, MessageRecord, Times

\* A wake's times are numbers.
LEMMA TimesOfWake ==
    ASSUME AlarmTypeOK, NEW w \in WakeIds
    PROVE  /\ ClaimableAt(w) \in Nat /\ DueAgain(w) \in Nat /\ LaterTime(DueAgain(w), now) \in Nat
           /\ DeferTime(w) \in Nat /\ DeferTime(w) >= now + Lease
           /\ LaterTime(DueAgain(w), now) >= DueAgain(w) /\ LaterTime(DueAgain(w), now) >= now
           /\ DueAgain(w) >= ClaimableAt(w) /\ DueAgain(w) >= putOff[w]
<1>1. FireAt[w] \in Nat /\ now \in Nat /\ putOff[w] \in Nat /\ rows[w].claimed \in Times
  BY Typed DEF Times
<1>2. ClaimableAt(w) \in Nat
  BY <1>1, Typed DEF ClaimableAt, LaterTime, Times
<1>3. DueAgain(w) \in Nat /\ DueAgain(w) >= ClaimableAt(w) /\ DueAgain(w) >= putOff[w]
  BY <1>1, <1>2 DEF DueAgain, LaterTime
<1>4. DeferTime(w) \in Nat /\ DeferTime(w) >= now + Lease
  BY <1>1, Typed DEF DeferTime, LaterTime, SoonerTime
<1> QED
  BY <1>1, <1>2, <1>3, <1>4 DEF LaterTime

\* The next delivery is at a time, and serves every wake that the browser is owed.
LEMMA NextServesAll ==
    ASSUME AlarmTypeOK
    PROVE  /\ NextDeliveryAt \in Times
           /\ \A w \in WakeIds : Owing(w) => Serves(NextDeliveryAt, w)
<1> DEFINE times == { LaterTime(ClaimableAt(w), now) : w \in { v \in WakeIds : Owing(v) } }
<1>1. times \in SUBSET Nat
  BY TimesOfWake, Typed DEF LaterTime
<1>2. NextDeliveryAt = IF times = {} THEN Never ELSE CHOOSE t \in times : \A u \in times : t <= u
  BY DEF NextDeliveryAt
<1>3. CASE times = {}
  BY <1>2, <1>3 DEF Times
<1>4. CASE times # {}
  <2>1. NextDeliveryAt \in times /\ \A u \in times : NextDeliveryAt <= u
    <3> HIDE DEF times
    <3> QED
      BY <1>1, <1>2, <1>4, LeastNatural
  <2>2. ASSUME NEW w \in WakeIds, Owing(w)
        PROVE  Serves(NextDeliveryAt, w)
    <3>1. NextDeliveryAt \in Nat /\ NextDeliveryAt <= LaterTime(ClaimableAt(w), now)
      BY <1>1, <2>1, <2>2
    <3> QED
      BY <3>1, TimesOfWake, Typed DEF Serves, LaterTime
  <2> QED
    BY <1>1, <2>1, <2>2 DEF Times
<1> QED
  BY <1>3, <1>4

\* What the actions put in place of a request and of a message.
LEMMA NextRequest ==
    ASSUME NEW rev \in Times
    PROVE  LET r == [NoClient EXCEPT !.step = "arm", !.revision = rev] IN
           r \in ClientRecord /\ r.step = "arm" /\ r.revision = rev
BY DEF NoClient, ClientRecord

LEMMA NextMessage ==
    ASSUME NEW x \in MessageRecord, NEW due \in SUBSET WakeIds, NEW t \in Times
    PROVE  /\ [x EXCEPT !.current = FALSE] \in MessageRecord
           /\ [x EXCEPT !.due = due] \in MessageRecord
           /\ [x EXCEPT !.stage = "push"] \in MessageRecord
           /\ [x EXCEPT !.stage = "select", !.current = TRUE] \in MessageRecord
           /\ [x EXCEPT !.stage = "claim", !.due = due] \in MessageRecord
           /\ [x EXCEPT !.stage = "set", !.next = t] \in MessageRecord
           /\ [x EXCEPT !.stage = "ack", !.next = t] \in MessageRecord
<1>1. PICK st \in {"none", "queued", "select", "claim", "push", "set", "ack"}, n \in Nat, cur \in BOOLEAN,
           ws \in SUBSET WakeIds, at \in Times :
        x = [stage |-> st, tries |-> n, current |-> cur, due |-> ws, next |-> at]
  BY DEF MessageRecord
<1> QED
  BY <1>1 DEF MessageRecord

LEMMA FieldsOfNextMessage ==
    ASSUME NEW x \in MessageRecord, NEW due \in SUBSET WakeIds, NEW t \in Times
    PROVE  /\ LET y == [x EXCEPT !.due = due] IN y.stage = x.stage /\ y.current = x.current
           /\ LET y == [x EXCEPT !.stage = "push"] IN y.stage = "push" /\ y.current = x.current
           /\ LET y == [x EXCEPT !.stage = "claim", !.due = due] IN y.stage = "claim" /\ y.current = x.current
           /\ LET y == [x EXCEPT !.stage = "set", !.next = t] IN
              y.stage = "set" /\ y.current = x.current /\ y.next = t
           /\ [x EXCEPT !.stage = "ack", !.next = t].stage = "ack"
<1>1. PICK st \in {"none", "queued", "select", "claim", "push", "set", "ack"}, n \in Nat, cur \in BOOLEAN,
           ws \in SUBSET WakeIds, at \in Times :
        x = [stage |-> st, tries |-> n, current |-> cur, due |-> ws, next |-> at]
  BY DEF MessageRecord
<1> QED
  BY <1>1

LEMMA RequeuedMessage ==
    ASSUME NEW n \in Nat
    PROVE  LET x == [Queued EXCEPT !.tries = n] IN
           x \in MessageRecord /\ x.stage = "queued" /\ ~x.current
BY DEF Queued, NoMessage, MessageRecord, Times

\* A step of a request leaves every variable of its kind,
LEMMA RequestTyped ==
    ASSUME AlarmTypeOK, NEW c \in Clients, NEW r \in ClientRecord, Set(c, r),
           UNCHANGED <<now, rows, alarm, handing, messages, reached, putOff, gaveUpAt>>,
           wakes' \subseteq WakeIds, revision' \in Times, unscheduled' \in Times,
           registered' \in BOOLEAN, events' \in Nat
    PROVE  AlarmTypeOK'
<1>1. clients' \in [Clients -> ClientRecord]
  BY ClientsTyped
<1> QED
  BY <1>1 DEF AlarmTypeOK, ClientRecord, Times

\* as does a step of a delivery.
LEMMA DeliveryTyped ==
    ASSUME AlarmTypeOK, NEW m \in Messages, NEW x \in MessageRecord, Put(m, x),
           UNCHANGED <<now, wakes, revision, unscheduled, clients>>,
           rows' \in [WakeIds -> [claimed : Times, delivered : BOOLEAN]],
           registered' \in BOOLEAN, handing' \in BOOLEAN, alarm' \in Times, events' \in Nat,
           reached' \subseteq WakeIds, putOff' \in [WakeIds -> Nat], gaveUpAt' \in Times
    PROVE  AlarmTypeOK'
<1>1. messages' \in [Messages -> MessageRecord]
  BY MessagesTyped
<1> QED
  BY <1>1 DEF AlarmTypeOK, MessageRecord, Times

LEMMA RowsTyped ==
    ASSUME NEW rs \in [WakeIds -> [claimed : Times, delivered : BOOLEAN]], NEW w \in WakeIds, NEW t \in Times
    PROVE  /\ [rs EXCEPT ![w].delivered = TRUE] \in [WakeIds -> [claimed : Times, delivered : BOOLEAN]]
           /\ [rs EXCEPT ![w].claimed = IF rs[w].delivered THEN @ ELSE t]
                \in [WakeIds -> [claimed : Times, delivered : BOOLEAN]]
BY DEF Times

LEMMA EventsTyped ==
    ASSUME AlarmTypeOK, Happens
    PROVE  events' \in Nat
BY DEF AlarmTypeOK, Happens

LEMMA RequestStepTyped ==
    ASSUME AlarmTypeOK, NEW c \in Clients, ClientStep(c)
    PROVE  AlarmTypeOK'
<1> DEFINE r == clients[c]
<1>0. /\ r \in ClientRecord /\ r.revision \in Times /\ r.snapshot \subseteq WakeIds
      /\ revision \in Times /\ unscheduled \in Times /\ wakes \subseteq WakeIds
      /\ registered \in BOOLEAN /\ events \in Nat
  BY Typed DEF ClientRecord, AlarmTypeOK
<1>1. ASSUME NEW snapshot \in Snapshots, NEW rev \in 0 .. MaxRevision, ReadSnapshot(c, snapshot, rev)
      PROVE  AlarmTypeOK'
  <2>1. snapshot \subseteq WakeIds /\ rev \in Times
    BY WakeAssumption, AlarmBoundAssumption DEF Times
  <2>2. [NoClient EXCEPT !.step = "arm", !.revision = rev] \in ClientRecord
    BY <2>1, NextRequest
  <2>3. \A a, b \in BOOLEAN :
          [step |-> "write", revision |-> rev, snapshot |-> snapshot, changed |-> a, owing |-> b] \in ClientRecord
    BY <2>1 DEF ClientRecord
  <2>4. \E x \in ClientRecord : Set(c, x)
    BY <1>1, <2>2, <2>3 DEF ReadSnapshot
  <2> QED
    BY <1>0, <1>1, <2>4, EventsTyped, RequestTyped DEF ReadSnapshot, wakeStore
<1>2. CASE WriteSnapshot(c)
  <2>1. [NoClient EXCEPT !.step = "arm", !.revision = r.revision] \in ClientRecord
    BY <1>0, NextRequest
  <2>2. \E x \in ClientRecord : Set(c, x)
    BY <1>2, <2>1, BlankRecords DEF WriteSnapshot
  <2>3. wakes' \subseteq WakeIds /\ revision' \in Times /\ unscheduled' \in Times
    BY <1>0, <1>2 DEF WriteSnapshot
  <2> QED
    BY <1>0, <1>2, <2>2, <2>3, RequestTyped DEF WriteSnapshot
<1>3. CASE RegisterBrowser(c)
  <2>1. [NoClient EXCEPT !.step = "arm"] \in ClientRecord
    BY DEF NoClient, ClientRecord, Times
  <2> QED
    BY <1>0, <1>3, <2>1, EventsTyped, RequestTyped DEF RegisterBrowser
<1>4. CASE ArmAlarm(c)
  <2>1. [r EXCEPT !.step = "mark"] \in ClientRecord
    BY <1>0 DEF ClientRecord
  <2>2. \E x \in ClientRecord : Set(c, x)
    BY <1>4, <2>1, BlankRecords DEF ArmAlarm
  <2>3. clients' \in [Clients -> ClientRecord]
    BY <2>2, ClientsTyped
  <2>4. messages' \in [Messages -> MessageRecord]
    BY <1>4, Typed, NextMessage DEF ArmAlarm, Times
  <2>5. alarm' \in Times
    BY <1>4, Typed DEF ArmAlarm, Times
  <2> QED
    BY <1>4, <2>3, <2>4, <2>5 DEF ArmAlarm, wakeStore, AlarmTypeOK, ClientRecord, MessageRecord, Times
<1>5. CASE MarkArmed(c)
  BY <1>0, <1>5, BlankRecords, RequestTyped DEF MarkArmed, Times
<1>6. CASE RequestDies(c)
  BY <1>0, <1>6, BlankRecords, EventsTyped, RequestTyped DEF RequestDies, wakeStore
<1> QED
  BY <1>1, <1>2, <1>3, <1>4, <1>5, <1>6 DEF ClientStep

LEMMA DeliveryStepTyped ==
    ASSUME AlarmTypeOK, NEW m \in Messages, DeliveryStep(m)
    PROVE  AlarmTypeOK'
<1> DEFINE x == messages[m]
<1>0. /\ x \in MessageRecord /\ x.due \in SUBSET WakeIds /\ x.next \in Times /\ x.tries \in Nat /\ Never \in Times
      /\ rows \in [WakeIds -> [claimed : Times, delivered : BOOLEAN]]
      /\ registered \in BOOLEAN /\ handing \in BOOLEAN /\ alarm \in Times /\ events \in Nat
      /\ reached \subseteq WakeIds /\ putOff \in [WakeIds -> Nat] /\ gaveUpAt \in Times
  BY Typed DEF MessageRecord, AlarmTypeOK, Times
<1>1. CASE BeginDelivery(m)
  <2>1. [x EXCEPT !.stage = "select", !.current = TRUE] \in MessageRecord
    BY <1>0, NextMessage
  <2>2. \A n \in Messages : [messages[n] EXCEPT !.current = FALSE] \in MessageRecord
    BY <1>0, Typed, NextMessage
  <2>3. messages' \in [Messages -> MessageRecord]
    BY <1>1, <2>1, <2>2 DEF BeginDelivery
  <2> QED
    BY <1>1, <2>3 DEF BeginDelivery, wakeStore, AlarmTypeOK, MessageRecord, Times
<1>2. CASE SelectDue(m)
  <2>1. \E y \in MessageRecord : Put(m, y)
    BY <1>0, <1>2, NextMessage DEF SelectDue
  <2> QED
    BY <1>0, <1>2, <2>1, DeliveryTyped DEF SelectDue, wakeStore
<1>3. CASE ClaimDue(m)
  <2>1. [x EXCEPT !.stage = "push"] \in MessageRecord
    BY <1>0, NextMessage
  <2>2. now \in Times
    BY Typed DEF Times
  <2>3. rows' \in [WakeIds -> [claimed : Times, delivered : BOOLEAN]]
    BY <1>0, <1>3, <2>2 DEF ClaimDue
  <2> QED
    BY <1>0, <1>3, <2>1, <2>3, DeliveryTyped DEF ClaimDue
<1>4. ASSUME NEW w \in WakeIds, Settle(m, w), PushSent(m, w) \/ PushFailed(m, w) \/ PushGone(m, w)
      PROVE  AlarmTypeOK'
  <2>1. [x EXCEPT !.due = @ \ {w}] \in MessageRecord
    BY <1>0, NextMessage
  <2>2. DeferTime(w) \in Nat /\ DeferTime(w) - Lease \in Nat
    BY TimesOfWake, Typed
  <2>3. rows' \in [WakeIds -> [claimed : Times, delivered : BOOLEAN]]
    <3>1. DeferTime(w) - Lease \in Times
      BY <2>2 DEF Times
    <3>2. CASE PushSent(m, w)
      BY <1>0, <3>2, RowsTyped DEF PushSent
    <3>3. CASE PushFailed(m, w)
      BY <1>0, <3>1, <3>3, RowsTyped DEF PushFailed
    <3>4. CASE PushGone(m, w)
      BY <1>0, <3>4 DEF PushGone
    <3> QED
      BY <1>4, <3>2, <3>3, <3>4
  <2>4. registered' \in BOOLEAN /\ reached' \subseteq WakeIds /\ putOff' \in [WakeIds -> Nat]
    BY <1>0, <1>4, <2>2 DEF PushSent, PushFailed, PushGone
  <2> QED
    BY <1>0, <1>4, <2>1, <2>3, <2>4, DeliveryTyped DEF Settle
<1>5. CASE LookAhead(m)
  <2>1. [x EXCEPT !.stage = "set", !.next = NextDeliveryAt] \in MessageRecord
    BY <1>0, NextServesAll, NextMessage
  <2> QED
    BY <1>0, <1>5, <2>1, DeliveryTyped DEF LookAhead, wakeStore
<1>6. CASE SetAlarm(m)
  <2>1. [x EXCEPT !.stage = "ack", !.next = Never] \in MessageRecord
    BY <1>0, NextMessage
  <2> QED
    BY <1>0, <1>6, <2>1, DeliveryTyped DEF SetAlarm, wakeStore
<1>7. CASE Acknowledge(m)
  BY <1>0, <1>7, BlankRecords, DeliveryTyped DEF Acknowledge, wakeStore
<1>8. CASE DeliveryFails(m)
  <2>1. [Queued EXCEPT !.tries = x.tries + 1] \in MessageRecord
    BY <1>0, RequeuedMessage
  <2>2. (\E y \in MessageRecord : Put(m, y)) /\ gaveUpAt' \in Times
    BY <1>0, <1>8, <2>1, BlankRecords, Typed DEF DeliveryFails, Times
  <2> QED
    BY <1>0, <1>8, <2>2, EventsTyped, DeliveryTyped DEF DeliveryFails, wakeStore
<1> QED
  BY <1>1, <1>2, <1>3, <1>4, <1>5, <1>6, <1>7, <1>8 DEF DeliveryStep, PushSent, PushFailed, PushGone

\* Every action leaves every variable of its kind.
LEMMA TypesKept ==
    ASSUME AlarmTypeOK, [AlarmNext]_alarmVars
    PROVE  AlarmTypeOK'
<1>1. CASE UnregisterBrowser
  BY <1>1, EventsTyped DEF UnregisterBrowser, AlarmTypeOK
<1>2. CASE FireAlarm
  BY <1>2, Typed DEF FireAlarm, wakeStore, AlarmTypeOK
<1>3. CASE HandOver \/ Redeliver
  <2>1. \E m \in Messages : Put(m, Queued)
    BY <1>3 DEF HandOver, Redeliver, Enqueue
  <2>2. events' \in Nat /\ handing' \in BOOLEAN
    BY <1>3, EventsTyped DEF HandOver, Redeliver, AlarmTypeOK
  <2> QED
    BY <1>3, <2>1, <2>2, BlankRecords, DeliveryTyped DEF HandOver, Redeliver, wakeStore, AlarmTypeOK, Times
<1>4. CASE HandOverFails
  BY <1>4, EventsTyped DEF HandOverFails, wakeStore, AlarmTypeOK
<1>5. CASE Later
  BY <1>5 DEF Later, wakeStore, AlarmTypeOK
<1>6. CASE UNCHANGED alarmVars
  BY <1>6 DEF alarmVars, wakeStore, AlarmTypeOK
<1> QED
  BY <1>1, <1>2, <1>3, <1>4, <1>5, <1>6, RequestStepTyped, DeliveryStepTyped DEF AlarmNext

-----------------------------------------------------------------------------
(* Time.                                                                    *)

\* A step is of a request, of a delivery, of the alarm, or of the clock; and only the clock,
\* a claim and the answer of the push service bear on when a wake is due.
LEMMA TimesUnmoved ==
    ASSUME [AlarmNext]_alarmVars
    PROVE  \/ UNCHANGED <<now, rows, putOff, reached>>
           \/ Later
           \/ \E m \in Messages : ClaimDue(m)
           \/ \E m \in Messages, w \in WakeIds : PushSent(m, w) \/ PushFailed(m, w)
<1>1. ASSUME NEW c \in Clients, ClientStep(c)
      PROVE  UNCHANGED <<now, rows, putOff, reached>>
  BY <1>1 DEF ClientStep, ReadSnapshot, WriteSnapshot, RegisterBrowser, ArmAlarm, MarkArmed,
              RequestDies, wakeStore
<1>2. ASSUME NEW m \in Messages,
             BeginDelivery(m) \/ SelectDue(m) \/ LookAhead(m) \/ SetAlarm(m) \/ Acknowledge(m) \/ DeliveryFails(m)
      PROVE  UNCHANGED <<now, rows, putOff, reached>>
  BY <1>2 DEF BeginDelivery, SelectDue, LookAhead, SetAlarm, Acknowledge, DeliveryFails, wakeStore
<1>3. ASSUME NEW m \in Messages, NEW w \in WakeIds, PushGone(m, w)
      PROVE  UNCHANGED <<now, rows, putOff, reached>>
  BY <1>3 DEF PushGone, Settle
<1>4. ASSUME UnregisterBrowser \/ FireAlarm \/ HandOver \/ HandOverFails \/ Redeliver \/ UNCHANGED alarmVars
      PROVE  UNCHANGED <<now, rows, putOff, reached>>
  BY <1>4 DEF UnregisterBrowser, FireAlarm, HandOver, HandOverFails, Redeliver, wakeStore, alarmVars
<1> QED
  BY <1>1, <1>2, <1>3, <1>4 DEF AlarmNext, DeliveryStep

\* What a claim and an answer leave of a wake's row.
LEMMA ClaimedRow ==
    ASSUME AlarmTypeOK, NEW m \in Messages, ClaimDue(m), NEW v \in WakeIds
    PROVE  /\ now' = now /\ putOff' = putOff /\ reached' = reached
           /\ rows'[v] = rows[v] \/ (rows'[v].claimed = now /\ rows'[v].delivered = FALSE)
BY DEF ClaimDue

LEMMA SentRow ==
    ASSUME AlarmTypeOK, NEW m \in Messages, NEW w \in WakeIds, PushSent(m, w), NEW v \in WakeIds
    PROVE  /\ now' = now /\ putOff' = putOff /\ reached' = reached \cup {w}
           /\ rows'[v].claimed = rows[v].claimed
           /\ rows'[v].delivered = IF v = w THEN TRUE ELSE rows[v].delivered
<1>1. rows \in [WakeIds -> [claimed : Times, delivered : BOOLEAN]]
  BY Typed
<1> QED
  BY <1>1 DEF PushSent, Settle

LEMMA FailedRow ==
    ASSUME AlarmTypeOK, NEW m \in Messages, NEW w \in WakeIds, PushFailed(m, w), NEW v \in WakeIds
    PROVE  /\ now' = now /\ reached' = reached
           /\ rows'[v].delivered = rows[v].delivered
           /\ v # w \/ rows[v].delivered => rows'[v].claimed = rows[v].claimed
           /\ v = w /\ ~rows[v].delivered => rows'[v].claimed = DeferTime(v) - Lease
           /\ putOff'[v] = IF v = w THEN DeferTime(v) ELSE putOff[v]
<1>1. rows \in [WakeIds -> [claimed : Times, delivered : BOOLEAN]] /\ putOff \in [WakeIds -> Nat]
  BY Typed
<1>2. rows' = [rows EXCEPT ![w].claimed = IF rows[w].delivered THEN @ ELSE DeferTime(w) - Lease]
  BY DEF PushFailed
<1>3. /\ rows'[v].delivered = rows[v].delivered
      /\ v # w \/ rows[v].delivered => rows'[v].claimed = rows[v].claimed
      /\ v = w /\ ~rows[v].delivered => rows'[v].claimed = DeferTime(v) - Lease
  BY <1>1, <1>2
<1> QED
  BY <1>1, <1>3 DEF PushFailed, Settle

\* The claims of wakes that were put off stay as RowsSound has them.
LEMMA RowsSoundKept ==
    ASSUME AlarmInv, [AlarmNext]_alarmVars
    PROVE  RowsSound'
<1> SUFFICES ASSUME NEW v \in WakeIds
             PROVE  /\ rows'[v].delivered => v \in reached'
                    /\ rows'[v].claimed # Never =>
                         rows'[v].claimed <= now' \/ rows'[v].claimed + Lease <= putOff'[v]
                    /\ putOff'[v] <= DeferTime(v)'
  BY DEF RowsSound
<1>0. /\ AlarmTypeOK /\ now \in Nat /\ Lease \in Nat /\ Backoff \in Nat /\ FireAt[v] \in Nat /\ putOff[v] \in Nat
      /\ rows[v].claimed \in Times /\ rows[v].delivered \in BOOLEAN
      /\ rows[v].delivered => v \in reached
      /\ rows[v].claimed # Never => rows[v].claimed <= now \/ rows[v].claimed + Lease <= putOff[v]
      /\ putOff[v] <= DeferTime(v)
      /\ DeferTime(v) \in Nat /\ DeferTime(v) >= now + Lease
  BY Typed, TimesOfWake DEF AlarmInv, RowsSound
<1>1. CASE UNCHANGED <<now, rows, putOff, reached>>
  BY <1>0, <1>1 DEF DeferTime
<1>2. CASE Later
  <2>1. now' = now + 1 /\ rows' = rows /\ putOff' = putOff /\ reached' = reached
    BY <1>2 DEF Later, wakeStore
  <2>2. DeferTime(v)' >= DeferTime(v) /\ DeferTime(v)' \in Nat
    BY <1>0, <2>1, Typed DEF DeferTime, LaterTime, SoonerTime
  <2> QED
    BY <1>0, <2>1, <2>2 DEF Times
<1>3. ASSUME NEW m \in Messages, ClaimDue(m)
      PROVE  rows'[v].delivered => v \in reached'
  BY <1>0, <1>3, ClaimedRow
<1>4. ASSUME NEW m \in Messages, ClaimDue(m)
      PROVE  /\ rows'[v].claimed # Never =>
                  rows'[v].claimed <= now' \/ rows'[v].claimed + Lease <= putOff'[v]
             /\ putOff'[v] <= DeferTime(v)'
  <2>1. /\ now' = now /\ putOff' = putOff
        /\ rows'[v].claimed = rows[v].claimed \/ rows'[v].claimed = now
    BY <1>0, <1>4, ClaimedRow
  <2>2. DeferTime(v)' = DeferTime(v)
    BY <2>1 DEF DeferTime
  <2> QED
    BY <1>0, <2>1, <2>2
<1>5. ASSUME NEW m \in Messages, NEW w \in WakeIds, PushSent(m, w)
      PROVE  /\ rows'[v].delivered => v \in reached'
             /\ rows'[v].claimed # Never =>
                  rows'[v].claimed <= now' \/ rows'[v].claimed + Lease <= putOff'[v]
             /\ putOff'[v] <= DeferTime(v)'
  BY <1>0, <1>5, SentRow DEF DeferTime
<1>6. ASSUME NEW m \in Messages, NEW w \in WakeIds, PushFailed(m, w)
      PROVE  /\ rows'[v].delivered => v \in reached'
             /\ rows'[v].claimed # Never =>
                  rows'[v].claimed <= now' \/ rows'[v].claimed + Lease <= putOff'[v]
             /\ putOff'[v] <= DeferTime(v)'
  <2>1. DeferTime(v)' = DeferTime(v)
    BY <1>0, <1>6, FailedRow DEF DeferTime
  <2> QED
    BY <1>0, <1>6, <2>1, FailedRow DEF Times
<1> QED
  BY <1>1, <1>2, <1>3, <1>4, <1>5, <1>6, TimesUnmoved

\* No step has a wake due sooner than it was,
LEMMA NeverSooner ==
    ASSUME AlarmInv, [AlarmNext]_alarmVars, NEW v \in WakeIds
    PROVE  /\ now' >= now /\ now' \in Nat
           /\ DueAgain(v)' >= DueAgain(v) /\ DueAgain(v)' \in Nat /\ DueAgain(v) \in Nat
<1>0. /\ AlarmTypeOK /\ now \in Nat /\ Lease \in Nat /\ FireAt[v] \in Nat /\ putOff[v] \in Nat
      /\ rows[v].claimed \in Times
      /\ rows[v].claimed # Never => rows[v].claimed <= now \/ rows[v].claimed + Lease <= putOff[v]
      /\ putOff[v] <= DeferTime(v)
      /\ DeferTime(v) \in Nat /\ DeferTime(v) >= now + Lease
      /\ Never \notin Int
  BY Typed, TimesOfWake DEF AlarmInv, RowsSound
<1>1. AlarmTypeOK'
  BY <1>0, TypesKept
<1>2. now' \in Nat /\ DueAgain(v)' \in Nat /\ DueAgain(v) \in Nat
  <2>1. DueAgain(v) \in Nat
    BY <1>0, TimesOfWake
  <2>2. /\ now' \in Nat /\ putOff'[v] \in Nat /\ rows'[v].claimed \in Times
    BY <1>1 DEF AlarmTypeOK, Times
  <2> QED
    BY <1>0, <2>1, <2>2 DEF DueAgain, ClaimableAt, LaterTime, Times
<1>3. CASE UNCHANGED <<now, rows, putOff, reached>>
  BY <1>0, <1>2, <1>3 DEF DueAgain, ClaimableAt
<1>4. CASE Later
  BY <1>0, <1>2, <1>4 DEF Later, wakeStore, DueAgain, ClaimableAt
<1>5. ASSUME NEW m \in Messages, ClaimDue(m)
      PROVE  now' >= now /\ DueAgain(v)' >= DueAgain(v)
  <2>1. now' = now /\ putOff' = putOff /\ (rows'[v].claimed = rows[v].claimed \/ rows'[v].claimed = now)
    BY <1>0, <1>5, ClaimedRow
  <2> QED
    BY <1>0, <2>1 DEF DueAgain, ClaimableAt, LaterTime, Times
<1>6. ASSUME NEW m \in Messages, NEW w \in WakeIds, PushSent(m, w)
      PROVE  now' >= now /\ DueAgain(v)' >= DueAgain(v)
  <2>1. now' = now /\ putOff' = putOff /\ rows'[v].claimed = rows[v].claimed
    BY <1>0, <1>6, SentRow
  <2> QED
    BY <1>0, <1>2, <2>1 DEF DueAgain, ClaimableAt
<1>7. ASSUME NEW m \in Messages, NEW w \in WakeIds, PushFailed(m, w)
      PROVE  now' >= now /\ DueAgain(v)' >= DueAgain(v)
  <2>1. /\ now' = now /\ putOff'[v] \in {putOff[v], DeferTime(v)}
        /\ \/ rows'[v].claimed = rows[v].claimed
           \/ putOff'[v] = DeferTime(v) /\ rows'[v].claimed = DeferTime(v) - Lease
    BY <1>0, <1>7, FailedRow
  <2> QED
    BY <1>0, <2>1 DEF DueAgain, ClaimableAt, LaterTime, Times
<1> QED
  BY <1>2, <1>3, <1>4, <1>5, <1>6, <1>7, TimesUnmoved

\* so that an alarm that serves it goes on doing so.
LEMMA ServesKept ==
    ASSUME AlarmInv, [AlarmNext]_alarmVars, NEW v \in WakeIds
    PROVE  /\ \A t \in Times : Serves(t, v) => Serves(t, v)'
           /\ AlarmFor(v) /\ alarm' = alarm => AlarmFor(v)'
<1>1. /\ now \in Nat /\ RetryAfter \in Nat /\ alarm \in Times
      /\ now' >= now /\ now' \in Nat
      /\ DueAgain(v)' >= DueAgain(v) /\ DueAgain(v)' \in Nat /\ DueAgain(v) \in Nat
  BY NeverSooner, Typed DEF AlarmInv
<1> QED
  BY <1>1 DEF Serves, AlarmFor, LaterTime, Times

\* And when the alarm is for a wake, it serves it or comes at the latest with the retry.
LEMMA ServedOrRetried ==
    ASSUME AlarmTypeOK, NEW v \in WakeIds, AlarmFor(v)
    PROVE  Serves(alarm, v) \/ (alarm # Never /\ alarm <= now + RetryAfter)
<1>1. now \in Nat /\ RetryAfter \in Nat /\ alarm \in Times /\ DueAgain(v) \in Nat
  BY Typed, TimesOfWake
<1> QED
  BY <1>1 DEF Serves, AlarmFor, LaterTime, Times

-----------------------------------------------------------------------------
(* What looks after a wake goes on doing so.                                *)

\* A step that leaves the alarm and the deliveries alone;
LEMMA Undisturbed ==
    ASSUME AlarmInv, [AlarmNext]_alarmVars, NEW w \in WakeIds, LookedAfter(w),
           UNCHANGED <<alarm, handing, messages, gaveUpAt>>
    PROVE  LookedAfter(w)'
<1>1. messages \in [Messages -> MessageRecord] /\ alarm \in Times
  BY Typed DEF AlarmInv
<1>2. /\ \A m \in Messages : messages[m].next \in Times
      /\ \A t \in Times : Serves(t, w) => Serves(t, w)'
      /\ AlarmFor(w) => AlarmFor(w)'
  BY <1>1, ServesKept DEF MessageRecord
<1>3. NextServes(w)'
  BY <1>2 DEF LookedAfter, NextServes
<1>4. Serves(alarm, w) => Serves(alarm, w)'
  BY <1>1, <1>2
<1>5. InDelivery(w) => InDelivery(w)'
  BY <1>2 DEF InDelivery
<1>6. Retried => Retried'
  BY DEF Retried
<1> QED
  BY <1>2, <1>3, <1>4, <1>5, <1>6 DEF LookedAfter

\* a step of one delivery, which it leaves no farther than it was, and as current;
LEMMA DeliveryGoesOn ==
    ASSUME AlarmInv, [AlarmNext]_alarmVars, NEW w \in WakeIds, LookedAfter(w),
           UNCHANGED <<alarm, handing, gaveUpAt>>,
           NEW m \in Messages, NEW x \in MessageRecord, Put(m, x),
           x.current /\ x.stage = "set" => Serves(x.next, w)',
           messages[m].current /\ messages[m].stage \in {"select", "claim", "push"} =>
             x.current /\ x.stage \in {"select", "claim", "push", "set"},
           messages[m].stage # "queued",
           messages[m].stage = "set" => ~messages[m].current
    PROVE  LookedAfter(w)'
<1>1. messages \in [Messages -> MessageRecord] /\ alarm \in Times
  BY Typed DEF AlarmInv
<1>2. /\ \A n \in Messages : messages[n].next \in Times
      /\ \A t \in Times : Serves(t, w) => Serves(t, w)'
      /\ AlarmFor(w) => AlarmFor(w)'
  BY <1>1, ServesKept DEF MessageRecord
<1>3. messages'[m] = x /\ \A n \in Messages \ {m} : messages'[n] = messages[n]
  BY MessagesTyped DEF AlarmInv
<1>4. NextServes(w)'
  <2> SUFFICES ASSUME NEW n \in Messages, messages'[n].current, messages'[n].stage = "set"
               PROVE  Serves(messages[n].next, w)'
    BY DEF NextServes
  <2>1. CASE n = m
    <3>1. messages'[n].next = x.next /\ x.current /\ x.stage = "set"
      BY <1>3, <2>1
    <3> QED
      BY <3>1 DEF Serves
  <2>2. CASE n # m
    <3>1. messages'[n] = messages[n] /\ Serves(messages[n].next, w)
      BY <1>3, <2>2 DEF LookedAfter, NextServes
    <3>2. \A t \in Times : Serves(t, w) => Serves(t, w)'
      BY <1>2
    <3> QED
      BY <1>2, <3>1, <3>2 DEF Serves
  <2> QED
    BY <2>1, <2>2
<1>5. Serves(alarm, w) => Serves(alarm, w)'
  BY <1>1, <1>2
<1>6. InDelivery(w) => InDelivery(w)'
  BY <1>2, <1>3 DEF InDelivery
<1>7. Retried => Retried'
  BY DEF Retried
<1> QED
  BY <1>2, <1>4, <1>5, <1>6, <1>7 DEF LookedAfter

\* a step after which a message waits in the queue;
LEMMA Waiting ==
    ASSUME AlarmInv, [AlarmNext]_alarmVars, NEW w \in WakeIds, LookedAfter(w), alarm' = alarm,
           NEW m \in Messages, Put(m, messages'[m]),
           messages'[m].stage = "queued"
    PROVE  LookedAfter(w)'
<1>1. messages \in [Messages -> MessageRecord] /\ messages' = [messages EXCEPT ![m] = messages'[m]]
  BY Typed DEF AlarmInv, Put
<1>2. \A n \in Messages \ {m} : messages'[n] = messages[n] /\ messages[n].next \in Times
  BY <1>1 DEF MessageRecord
<1>3. AlarmFor(w)' /\ \A t \in Times : Serves(t, w) => Serves(t, w)'
  BY ServesKept DEF LookedAfter
<1>4. NextServes(w)'
  BY <1>2, <1>3 DEF LookedAfter, NextServes
<1>5. InDelivery(w)'
  BY DEF InDelivery
<1> QED
  BY <1>3, <1>4, <1>5 DEF LookedAfter

\* and a hand-over or delivery that is given up.
LEMMA GivenUp ==
    ASSUME AlarmInv, [AlarmNext]_alarmVars, NEW w \in WakeIds, LookedAfter(w), alarm' = alarm, now' = now,
           gaveUpAt' = now, NextServes(w)'
    PROVE  LookedAfter(w)'
<1>1. alarm \in Times /\ gaveUpAt' # Never
  BY Typed DEF AlarmInv, Times
<1>2. AlarmFor(w)' /\ (Serves(alarm, w) => Serves(alarm, w)')
  BY <1>1, ServesKept DEF LookedAfter
<1>3. Serves(alarm, w) \/ (alarm # Never /\ alarm <= now + RetryAfter)
  BY ServedOrRetried DEF LookedAfter, AlarmInv
<1>4. alarm # Never /\ alarm <= now + RetryAfter => Retried'
  BY <1>1 DEF Retried
<1> QED
  BY <1>2, <1>3, <1>4 DEF LookedAfter

\* No step of a delivery loses sight of a wake,
LEMMA DeliveryLooksAfter ==
    ASSUME AlarmInv, [AlarmNext]_alarmVars, NEW w \in WakeIds, LookedAfter(w), Pending(w),
           NEW m \in Messages, DeliveryStep(m)
    PROVE  LookedAfter(w)'
<1> DEFINE x == messages[m]
<1>0. /\ AlarmTypeOK /\ messages \in [Messages -> MessageRecord] /\ x \in MessageRecord
      /\ x.due \in SUBSET WakeIds /\ x.next \in Times /\ alarm \in Times /\ Never \in Times
  BY Typed DEF AlarmInv, MessageRecord, Times
<1>1. CASE BeginDelivery(m)
  <2>1. messages'[m].current /\ messages'[m].stage = "select"
    BY <1>0, <1>1 DEF BeginDelivery, MessageRecord
  <2>2. \A n \in Messages \ {m} : ~messages'[n].current
    BY <1>0, <1>1 DEF BeginDelivery, MessageRecord
  <2>3. NextServes(w)' /\ InDelivery(w)'
    BY <2>1, <2>2 DEF NextServes, InDelivery
  <2>4. AlarmFor(w)'
    BY <1>1, ServesKept DEF BeginDelivery, LookedAfter
  <2> QED
    BY <2>3, <2>4 DEF LookedAfter
<1>2. CASE SelectDue(m)
  <2>1. PICK due \in SUBSET WakeIds : Put(m, [x EXCEPT !.stage = "claim", !.due = due])
    BY <1>2 DEF SelectDue
  <2>2. PICK y \in MessageRecord : y = [x EXCEPT !.stage = "claim", !.due = due]
    BY <1>0, NextMessage
  <2>3. y.stage = "claim" /\ y.current = x.current
    BY <1>0, <2>2, FieldsOfNextMessage
  <2>4. UNCHANGED <<alarm, handing, gaveUpAt>> /\ x.stage = "select"
    BY <1>2 DEF SelectDue, InStage
  <2> QED
    BY <2>1, <2>2, <2>3, <2>4, DeliveryGoesOn
<1>3. CASE ClaimDue(m)
  <2> DEFINE y == [x EXCEPT !.stage = "push"]
  <2>1. y \in MessageRecord /\ y.stage = "push" /\ y.current = x.current
    BY <1>0, NextMessage, FieldsOfNextMessage
  <2>2. Put(m, y) /\ UNCHANGED <<alarm, handing, gaveUpAt>> /\ x.stage = "claim"
    BY <1>3 DEF ClaimDue, InStage
  <2> QED
    BY <2>1, <2>2, DeliveryGoesOn
<1>4. ASSUME NEW v \in WakeIds, Settle(m, v)
      PROVE  LookedAfter(w)'
  <2>1. PICK due \in SUBSET WakeIds : Put(m, [x EXCEPT !.due = due])
    BY <1>0, <1>4 DEF Settle
  <2>2. PICK y \in MessageRecord : y = [x EXCEPT !.due = due]
    BY <1>0, NextMessage
  <2>3. y.stage = x.stage /\ y.current = x.current
    BY <1>0, <2>2, FieldsOfNextMessage
  <2>4. UNCHANGED <<alarm, handing, gaveUpAt>> /\ x.stage = "push"
    BY <1>4 DEF Settle, InStage
  <2> QED
    BY <2>1, <2>2, <2>3, <2>4, DeliveryGoesOn
<1>5. CASE LookAhead(m)
  <2>1. PICK t \in Times : t = NextDeliveryAt /\ Serves(t, w)
    BY <1>0, NextServesAll DEF Pending
  <2>2. PICK y \in MessageRecord : y = [x EXCEPT !.stage = "set", !.next = t]
    BY <1>0, NextMessage
  <2>3. y.stage = "set" /\ y.current = x.current /\ y.next = t
    BY <1>0, <2>2, FieldsOfNextMessage
  <2>4. Put(m, y) /\ UNCHANGED <<alarm, handing, gaveUpAt>> /\ x.stage = "push"
    BY <1>5, <2>1, <2>2 DEF LookAhead, InStage
  <2>5. Serves(t, w)'
    BY <2>1, ServesKept
  <2> QED
    BY <2>3, <2>4, <2>5, DeliveryGoesOn
<1>6. CASE SetAlarm(m)
  <2>0. PICK y \in MessageRecord : y = [x EXCEPT !.stage = "ack", !.next = Never]
    BY <1>0, NextMessage
  <2>1. y \in MessageRecord /\ y.stage = "ack"
    BY <1>0, <2>0, FieldsOfNextMessage
  <2>2. Put(m, y) /\ UNCHANGED <<handing, gaveUpAt>> /\ x.stage = "set"
    BY <1>6, <2>0 DEF SetAlarm, InStage, wakeStore
  <2>3. CASE ~x.current
    <3>1. alarm' = alarm
      BY <1>6, <2>3 DEF SetAlarm
    <3> QED
      BY <2>1, <2>2, <2>3, <3>1, DeliveryGoesOn
  <2>4. CASE x.current
    <3>1. alarm' = x.next /\ now' = now /\ rows' = rows /\ putOff' = putOff
      BY <1>6, <2>4 DEF SetAlarm, wakeStore
    <3>2. Serves(x.next, w)
      BY <2>2, <2>4 DEF LookedAfter, NextServes
    <3>3. Serves(alarm, w)' /\ AlarmFor(w)'
      <4>1. PICK t \in Times : t = x.next
        BY <1>0
      <4>2. Serves(t, w)'
        BY <3>2, <4>1, ServesKept
      <4>3. Serves(alarm, w)'
        BY <3>1, <4>1, <4>2 DEF Serves
      <4>4. now \in Nat /\ RetryAfter \in Nat /\ DueAgain(w) \in Nat
        BY <1>0, Typed, TimesOfWake
      <4>5. DueAgain(w)' = DueAgain(w)
        BY <3>1 DEF DueAgain, ClaimableAt
      <4> QED
        BY <1>0, <3>1, <3>2, <4>3, <4>4, <4>5 DEF Serves, AlarmFor, LaterTime, Times
    <3>4. messages'[m].stage = "ack" /\ \A n \in Messages \ {m} : messages'[n] = messages[n]
      BY <1>0, <2>1, <2>2, MessagesTyped
    <3>5. \A n \in Messages : messages[n].next \in Times
      BY <1>0 DEF MessageRecord
    <3>6. \A t \in Times : Serves(t, w) => Serves(t, w)'
      BY ServesKept
    <3>7. NextServes(w)'
      BY <3>4, <3>5, <3>6 DEF LookedAfter, NextServes
    <3> QED
      BY <3>3, <3>7 DEF LookedAfter
  <2> QED
    BY <2>3, <2>4
<1>7. CASE Acknowledge(m)
  <2>1. Put(m, NoMessage) /\ UNCHANGED <<alarm, handing, gaveUpAt>> /\ x.stage = "ack"
    BY <1>7 DEF Acknowledge, InStage
  <2> QED
    BY <2>1, BlankRecords, DeliveryGoesOn
<1>8. CASE DeliveryFails(m)
  <2> DEFINE y == [Queued EXCEPT !.tries = x.tries + 1]
  <2>1. alarm' = alarm /\ now' = now
    BY <1>8 DEF DeliveryFails
  <2>2. CASE Put(m, y)
    <3>1. y \in MessageRecord /\ y.stage = "queued"
      BY <1>0, RequeuedMessage DEF MessageRecord
    <3>2. messages'[m] = y
      BY <1>0, <2>2, <3>1, MessagesTyped
    <3> HIDE DEF y
    <3> QED
      BY <2>1, <2>2, <3>1, <3>2, Waiting
  <2>3. CASE Put(m, NoMessage) /\ gaveUpAt' = now
    <3>1. messages'[m] = NoMessage /\ \A n \in Messages \ {m} : messages'[n] = messages[n]
      BY <1>0, <2>3, BlankRecords, MessagesTyped
    <3>2. \A n \in Messages : messages[n].next \in Times
      BY <1>0 DEF MessageRecord
    <3>3. \A t \in Times : Serves(t, w) => Serves(t, w)'
      BY ServesKept
    <3>4. NextServes(w)'
      BY <3>1, <3>2, <3>3, BlankRecords DEF LookedAfter, NextServes
    <3> QED
      BY <2>1, <2>3, <3>4, GivenUp
  <2> QED
    BY <1>8, <2>2, <2>3 DEF DeliveryFails
<1> QED
  BY <1>1, <1>2, <1>3, <1>4, <1>5, <1>6, <1>7, <1>8
     DEF DeliveryStep, PushSent, PushFailed, PushGone

\* a request that arms has the alarm look after every wake,
LEMMA ArmedForAll ==
    ASSUME AlarmTypeOK, NEW c \in Clients, ArmAlarm(c), NEW w \in WakeIds
    PROVE  LookedAfter(w)'
<1>0. /\ messages \in [Messages -> MessageRecord] /\ alarm \in Times /\ now \in Nat
      /\ RetryAfter \in Nat /\ DueAgain(w) \in Nat /\ Never \notin Nat
  BY Typed, TimesOfWake
<1>1. alarm' \in Nat /\ alarm' <= now /\ UNCHANGED <<now, rows, putOff>>
  BY <1>0 DEF ArmAlarm, wakeStore, Times
<1>2. \A n \in Messages : ~messages'[n].current
  BY <1>0 DEF ArmAlarm, MessageRecord
<1>3. NextServes(w)'
  BY <1>2 DEF NextServes
<1>4. DueAgain(w)' = DueAgain(w)
  BY <1>1 DEF DueAgain, ClaimableAt
<1>5. Serves(alarm, w)' /\ AlarmFor(w)'
  BY <1>0, <1>1, <1>4 DEF Serves, AlarmFor, LaterTime
<1> QED
  BY <1>3, <1>5 DEF LookedAfter

\* and neither the alarm nor any other request loses sight of one.
LEMMA LookedAfterKept ==
    ASSUME AlarmInv, [AlarmNext]_alarmVars, NEW w \in WakeIds, LookedAfter(w), Pending(w)
    PROVE  LookedAfter(w)'
<1>0. /\ AlarmTypeOK /\ messages \in [Messages -> MessageRecord] /\ alarm \in Times
      /\ now \in Nat /\ RetryAfter \in Nat /\ DueAgain(w) \in Nat /\ Never \notin Nat
      /\ \A n \in Messages : messages[n].next \in Times
      /\ \A t \in Times : Serves(t, w) => Serves(t, w)'
  BY Typed, TimesOfWake, ServesKept DEF AlarmInv, MessageRecord
<1>1. ASSUME NEW c \in Clients, ArmAlarm(c)
      PROVE  LookedAfter(w)'
  BY <1>0, <1>1, ArmedForAll
<1>2. ASSUME NEW c \in Clients, ClientStep(c), ~ArmAlarm(c)
      PROVE  LookedAfter(w)'
  <2>1. UNCHANGED <<alarm, handing, messages, gaveUpAt>>
    BY <1>2 DEF ClientStep, ReadSnapshot, WriteSnapshot, RegisterBrowser, MarkArmed, RequestDies
  <2> QED
    BY <2>1, Undisturbed
<1>3. CASE UnregisterBrowser \/ Later \/ UNCHANGED alarmVars
  <2>1. UNCHANGED <<alarm, handing, messages, gaveUpAt>>
    BY <1>3 DEF UnregisterBrowser, Later, alarmVars
  <2> QED
    BY <2>1, Undisturbed
<1>4. CASE FireAlarm
  <2>1. /\ alarm' = now + RetryAfter /\ handing' = TRUE
        /\ UNCHANGED <<now, rows, putOff, messages>>
    BY <1>4 DEF FireAlarm, wakeStore
  <2>2. DueAgain(w)' = DueAgain(w)
    BY <2>1 DEF DueAgain, ClaimableAt
  <2>3. AlarmFor(w)'
    BY <1>0, <2>1, <2>2 DEF AlarmFor, LaterTime
  <2>4. NextServes(w)'
    BY <1>0, <2>1 DEF LookedAfter, NextServes
  <2> QED
    BY <2>1, <2>3, <2>4 DEF LookedAfter, InDelivery
<1>5. CASE HandOver \/ Redeliver
  <2>1. PICK m \in Messages : Put(m, Queued)
    BY <1>5 DEF HandOver, Redeliver, Enqueue
  <2>2. messages'[m] = Queued /\ alarm' = alarm
    BY <1>0, <1>5, <2>1, BlankRecords, MessagesTyped DEF HandOver, Redeliver
  <2> QED
    BY <2>1, <2>2, BlankRecords, Waiting
<1>6. CASE HandOverFails
  <2>1. alarm' = alarm /\ now' = now /\ gaveUpAt' = now /\ messages' = messages
    BY <1>6 DEF HandOverFails
  <2>2. NextServes(w)'
    BY <1>0, <2>1 DEF LookedAfter, NextServes
  <2> QED
    BY <2>1, <2>2, GivenUp
<1> QED
  BY <1>1, <1>2, <1>3, <1>4, <1>5, <1>6, DeliveryLooksAfter DEF AlarmNext

-----------------------------------------------------------------------------
(* The invariant.                                                           *)

\* Only a publish and a registration make a wake pending.
LEMMA PendingBefore ==
    ASSUME AlarmInv, [AlarmNext]_alarmVars, NEW w \in WakeIds, Pending(w)',
           wakes' = wakes, registered' => registered
    PROVE  Pending(w)
<1>1. w \in wakes /\ w \notin reached' /\ registered /\ ~rows'[w].delivered
  BY DEF Pending, Owing
<1>2. AlarmTypeOK /\ (rows[w].delivered => w \in reached)
  BY DEF AlarmInv, RowsSound
<1>3. CASE UNCHANGED <<now, rows, putOff, reached>>
  BY <1>1, <1>3 DEF Pending, Owing
<1>4. CASE Later
  BY <1>1, <1>4 DEF Pending, Owing, Later, wakeStore
<1>5. ASSUME NEW m \in Messages, ClaimDue(m)
      PROVE  Pending(w)
  BY <1>1, <1>2, <1>5, ClaimedRow DEF Pending, Owing
<1>6. ASSUME NEW m \in Messages, NEW v \in WakeIds, PushSent(m, v)
      PROVE  Pending(w)
  BY <1>1, <1>2, <1>6, SentRow DEF Pending, Owing
<1>7. ASSUME NEW m \in Messages, NEW v \in WakeIds, PushFailed(m, v)
      PROVE  Pending(w)
  BY <1>1, <1>2, <1>7, FailedRow DEF Pending, Owing
<1> QED
  BY <1>3, <1>4, <1>5, <1>6, <1>7, TimesUnmoved

\* Steps that are no request's leave requests, markers and what was published alone.
LEMMA OtherSteps ==
    ASSUME [AlarmNext]_alarmVars, \A c \in Clients : ~ClientStep(c)
    PROVE  UNCHANGED <<clients, unscheduled, wakes, revision>> /\ (registered' => registered)
<1>1. ASSUME NEW m \in Messages, DeliveryStep(m)
      PROVE  UNCHANGED <<clients, unscheduled, wakes, revision>> /\ (registered' => registered)
  <2>1. CASE \E w \in WakeIds : PushSent(m, w) \/ PushFailed(m, w) \/ PushGone(m, w)
    BY <2>1 DEF PushSent, PushFailed, PushGone, Settle
  <2>2. CASE BeginDelivery(m) \/ SelectDue(m) \/ ClaimDue(m) \/ LookAhead(m)
    BY <2>2 DEF BeginDelivery, SelectDue, ClaimDue, LookAhead, wakeStore
  <2>3. CASE SetAlarm(m) \/ Acknowledge(m) \/ DeliveryFails(m)
    BY <2>3 DEF SetAlarm, Acknowledge, DeliveryFails, wakeStore
  <2> QED
    BY <1>1, <2>1, <2>2, <2>3 DEF DeliveryStep
<1>2. CASE UnregisterBrowser \/ FireAlarm \/ HandOver \/ HandOverFails \/ Redeliver \/ Later
           \/ UNCHANGED alarmVars
  BY <1>2 DEF UnregisterBrowser, FireAlarm, HandOver, HandOverFails, Redeliver, Later, alarmVars, wakeStore
<1> QED
  BY <1>1, <1>2 DEF AlarmNext

\* What a request becomes.
LEMMA RequestAfter ==
    ASSUME AlarmTypeOK, NEW c \in Clients, ClientStep(c)
    PROVE  /\ clients \in [Clients -> ClientRecord]
           /\ \A d \in Clients \ {c} : clients'[d] = clients[d]
           /\ RegisterBrowser(c) => clients'[c].step = "arm" /\ clients'[c].revision = Never
           /\ WriteSnapshot(c) =>
                clients'[c].step = "none" \/ (clients'[c].step = "arm" /\ clients'[c].revision = clients[c].revision)
           /\ ArmAlarm(c) =>
                \/ clients'[c].step = "none"
                \/ /\ clients[c].revision # Never
                   /\ clients'[c].step = "mark" /\ clients'[c].revision = clients[c].revision
           /\ MarkArmed(c) \/ RequestDies(c) => clients'[c].step = "none"
<1>1. clients \in [Clients -> ClientRecord] /\ clients[c].revision \in Times
  BY Typed DEF ClientRecord
<1>2. [clients[c] EXCEPT !.step = "mark"].step = "mark"
      /\ [clients[c] EXCEPT !.step = "mark"].revision = clients[c].revision
  BY <1>1 DEF ClientRecord
<1>3. ASSUME NEW x, Set(c, x)
      PROVE  clients'[c] = x /\ \A d \in Clients \ {c} : clients'[d] = clients[d]
  BY <1>1, <1>3 DEF Set
<1>4. \E x : Set(c, x)
  BY DEF ClientStep, ReadSnapshot, WriteSnapshot, RegisterBrowser, ArmAlarm, MarkArmed, RequestDies
<1>5. [NoClient EXCEPT !.step = "arm"].step = "arm" /\ [NoClient EXCEPT !.step = "arm"].revision = Never
  BY DEF NoClient
<1>6. RegisterBrowser(c) => clients'[c].step = "arm" /\ clients'[c].revision = Never
  BY <1>3, <1>5 DEF RegisterBrowser
<1>7. WriteSnapshot(c) =>
        clients'[c].step = "none" \/ (clients'[c].step = "arm" /\ clients'[c].revision = clients[c].revision)
  <2>1. SUFFICES ASSUME WriteSnapshot(c)
                 PROVE  clients'[c].step = "none"
                        \/ (clients'[c].step = "arm" /\ clients'[c].revision = clients[c].revision)
    OBVIOUS
  <2>2. \/ clients'[c] = NoClient
        \/ clients'[c] = [NoClient EXCEPT !.step = "arm", !.revision = clients[c].revision]
    BY <1>3, <2>1 DEF WriteSnapshot
  <2> QED
    BY <1>1, <2>2, BlankRecords, NextRequest
<1>8. ArmAlarm(c) =>
        \/ clients'[c].step = "none"
        \/ /\ clients[c].revision # Never
           /\ clients'[c].step = "mark" /\ clients'[c].revision = clients[c].revision
  <2>1. SUFFICES ASSUME ArmAlarm(c)
                 PROVE  \/ clients'[c].step = "none"
                        \/ /\ clients[c].revision # Never
                           /\ clients'[c].step = "mark" /\ clients'[c].revision = clients[c].revision
    OBVIOUS
  <2>2. \/ clients'[c] = NoClient
        \/ clients[c].revision # Never /\ clients'[c] = [clients[c] EXCEPT !.step = "mark"]
    BY <1>3, <2>1 DEF ArmAlarm
  <2> QED
    BY <1>2, <2>2, BlankRecords
<1>9. MarkArmed(c) \/ RequestDies(c) => clients'[c].step = "none"
  BY <1>3, BlankRecords DEF MarkArmed, RequestDies
<1> QED
  BY <1>1, <1>3, <1>4, <1>6, <1>7, <1>8, <1>9

\* What a request that has read is about to do.
LEMMA RequestRead ==
    ASSUME AlarmTypeOK, NEW c \in Clients, NEW snapshot \in Snapshots, NEW rev \in 0 .. MaxRevision,
           ReadSnapshot(c, snapshot, rev)
    PROVE  /\ rev \in Nat /\ clients[c].step = "none" /\ clients'[c].revision = rev
           /\ UNCHANGED <<wakes, revision, unscheduled, registered>>
           /\ \/ clients'[c].step = "arm" /\ rev = revision
              \/ /\ clients'[c].step = "write" /\ clients'[c].snapshot = snapshot
                 /\ clients'[c].changed = (snapshot # wakes)
                 /\ revision = Never \/ revision < rev
<1>1. clients \in [Clients -> ClientRecord] /\ rev \in Nat /\ rev \in Times /\ revision \in Times
  BY Typed, AlarmBoundAssumption DEF Times
<1>2. ASSUME NEW x, Set(c, x)
      PROVE  clients'[c] = x
  BY <1>1, <1>2 DEF Set
<1>3. CASE rev = revision
  <2>1. clients'[c] = [NoClient EXCEPT !.step = "arm", !.revision = rev]
    BY <1>2, <1>3 DEF ReadSnapshot
  <2>2. clients'[c].step = "arm" /\ clients'[c].revision = rev
    BY <1>1, <2>1, NextRequest
  <2> QED
    BY <1>1, <1>3, <2>2 DEF ReadSnapshot, wakeStore
<1>4. CASE rev # revision
  <2>1. clients'[c] = [step |-> "write", revision |-> rev, snapshot |-> snapshot,
                       changed |-> snapshot # wakes, owing |-> unscheduled # Never]
    BY <1>2, <1>4 DEF ReadSnapshot
  <2>2. /\ clients'[c].step = "write" /\ clients'[c].revision = rev
        /\ clients'[c].snapshot = snapshot /\ clients'[c].changed = (snapshot # wakes)
    BY <2>1
  <2>3. revision = Never \/ revision < rev
    BY <1>1, <1>4 DEF ReadSnapshot, Times
  <2> QED
    BY <1>1, <2>2, <2>3 DEF ReadSnapshot, wakeStore
<1> QED
  BY <1>3, <1>4

LEMMA RequestsSoundKept ==
    ASSUME AlarmInv, [AlarmNext]_alarmVars, Overlap = FALSE
    PROVE  RequestsSound'
<1>0. /\ AlarmTypeOK /\ RequestsSound /\ revision \in Times /\ Never \notin Nat
      /\ clients \in [Clients -> ClientRecord] /\ \A d \in Clients : clients[d].revision \in Times
  BY Typed DEF AlarmInv, ClientRecord
<1>1. CASE \A c \in Clients : ~ClientStep(c)
  BY <1>0, <1>1, OtherSteps DEF RequestsSound
<1>2. ASSUME NEW c \in Clients, ClientStep(c)
      PROVE  RequestsSound'
  <2> SUFFICES ASSUME NEW d \in Clients
               PROVE  /\ clients'[d].step \in {"arm", "mark"} /\ clients'[d].revision # Never =>
                           revision' # Never /\ clients'[d].revision <= revision'
                      /\ clients'[d].step = "mark" => clients'[d].revision # Never
                      /\ clients'[d].step = "write" =>
                           /\ clients'[d].revision # Never
                           /\ revision' = Never \/ revision' < clients'[d].revision
                           /\ clients'[d].changed = (clients'[d].snapshot # wakes')
                           /\ \A e \in Clients : clients'[e].step = "write" => e = d
    BY DEF RequestsSound
  <2>0. \A e \in Clients \ {c} : clients'[e] = clients[e]
    BY <1>0, <1>2, RequestAfter
  <2>1. ASSUME NEW snapshot \in Snapshots, NEW rev \in 0 .. MaxRevision, ReadSnapshot(c, snapshot, rev)
        PROVE  /\ clients'[c].step \in {"arm", "mark"} => revision' # Never /\ rev <= revision'
               /\ clients'[c].step # "mark" /\ clients'[c].revision = rev /\ rev # Never
               /\ clients'[c].step = "write" =>
                    /\ revision' = Never \/ revision' < rev
                    /\ clients'[c].changed = (clients'[c].snapshot # wakes')
               /\ \A e \in Clients \ {c} : clients[e].step # "write"
               /\ revision' = revision /\ wakes' = wakes
    <3>1. \A e \in Clients : clients[e].step # "write"
      BY <2>1 DEF ReadSnapshot
    <3> QED
      BY <1>0, <2>1, <3>1, RequestRead
  <2>2. CASE WriteSnapshot(c)
    <3>1. /\ clients[c].step = "write" /\ clients[c].revision \in Nat
          /\ revision = Never \/ revision < clients[c].revision
          /\ \A e \in Clients : clients[e].step = "write" => e = c
      BY <1>0, <2>2 DEF WriteSnapshot, RequestsSound, Times
    <3>2. revision' = clients[c].revision
      BY <1>0, <2>2, <3>1 DEF WriteSnapshot, Times
    <3>3. clients'[c].step = "none" \/ (clients'[c].step = "arm" /\ clients'[c].revision = revision')
      BY <1>0, <1>2, <2>2, <3>2, RequestAfter
    <3>4. CASE d = c
      BY <1>0, <3>1, <3>2, <3>3, <3>4
    <3>5. CASE d # c
      <4>1. clients'[d] = clients[d] /\ clients[d].step # "write" /\ clients[d].revision \in Times
        BY <1>0, <2>0, <3>1, <3>5
      <4>2. clients[d].step \in {"arm", "mark"} /\ clients[d].revision # Never =>
              revision # Never /\ clients[d].revision <= revision
        BY <1>0 DEF RequestsSound
      <4>3. clients[d].step = "mark" => clients[d].revision # Never
        BY <1>0 DEF RequestsSound
      <4> QED
        BY <1>0, <3>1, <3>2, <4>1, <4>2, <4>3 DEF Times
    <3> QED
      BY <3>4, <3>5
  <2>3. ASSUME RegisterBrowser(c) \/ ArmAlarm(c) \/ MarkArmed(c) \/ RequestDies(c)
        PROVE  revision' = revision /\ wakes' = wakes
    BY <2>3 DEF RegisterBrowser, ArmAlarm, MarkArmed, RequestDies, wakeStore
  <2>4. ASSUME RegisterBrowser(c) \/ ArmAlarm(c) \/ MarkArmed(c) \/ RequestDies(c)
        PROVE  \/ clients'[c].step = "none"
               \/ clients'[c].step = "arm" /\ clients'[c].revision = Never
               \/ /\ clients'[c].step = "mark" /\ clients'[c].revision # Never
                  /\ revision # Never /\ clients'[c].revision <= revision
    <3>1. ArmAlarm(c) => clients[c].step = "arm"
      BY DEF ArmAlarm
    <3> QED
      BY <1>0, <1>2, <2>4, <3>1, RequestAfter DEF RequestsSound
  <2>5. CASE RegisterBrowser(c) \/ ArmAlarm(c) \/ MarkArmed(c) \/ RequestDies(c)
    <3>1. clients'[c].step # "write"
      BY <2>4, <2>5
    <3>2. CASE d = c
      BY <2>3, <2>4, <2>5, <3>2
    <3>3. CASE d # c
      <4>1. clients'[d] = clients[d] /\ \A e \in Clients : clients'[e].step = "write" => clients[e].step = "write"
        BY <2>0, <3>1, <3>3
      <4> QED
        BY <1>0, <2>3, <2>5, <4>1 DEF RequestsSound
    <3> QED
      BY <3>2, <3>3
  <2>6. CASE \E snapshot \in Snapshots, rev \in 0 .. MaxRevision : ReadSnapshot(c, snapshot, rev)
    <3>1. PICK snapshot \in Snapshots, rev \in 0 .. MaxRevision : ReadSnapshot(c, snapshot, rev)
      BY <2>6
    <3>2. CASE d = c
      <4>1. \A e \in Clients : clients'[e].step = "write" => e = d
        BY <2>0, <2>1, <3>1, <3>2
      <4> QED
        BY <2>1, <3>1, <3>2, <4>1
    <3>3. CASE d # c
      <4>1. clients'[d] = clients[d] /\ clients[d].step # "write" /\ revision' = revision
        BY <2>0, <2>1, <3>1, <3>3
      <4> QED
        BY <1>0, <4>1 DEF RequestsSound
    <3> QED
      BY <3>2, <3>3
  <2> QED
    BY <1>2, <2>2, <2>5, <2>6 DEF ClientStep
<1> QED
  BY <1>1, <1>2

\* A wake that is covered stays so for as long as the same registrations are about to arm.
LEMMA CoverKept ==
    ASSUME AlarmInv, [AlarmNext]_alarmVars, NEW w \in WakeIds, Pending(w), Covered(w),
           RegistrationArms => RegistrationArms'
    PROVE  Covered(w)'
<1>1. LookedAfter(w) => LookedAfter(w)'
  BY LookedAfterKept
<1> QED
  BY <1>1 DEF Covered

\* A wake stays in sight of the alarm or of the marker, and a request that takes the marker
\* away has armed the alarm since.
LEMMA ArmedKept ==
    ASSUME AlarmInv, [AlarmNext]_alarmVars, RegistrationsDie = FALSE
    PROVE  Armed' /\ MarkSound'
<1>0. /\ AlarmTypeOK /\ Armed /\ MarkSound /\ RequestsSound
      /\ clients \in [Clients -> ClientRecord] /\ \A d \in Clients : clients[d].revision \in Times
      /\ revision \in Times /\ unscheduled \in Times /\ Never \notin Nat
  BY Typed DEF AlarmInv, ClientRecord
<1>1. ASSUME UNCHANGED <<unscheduled, wakes>>, registered' => registered,
             RegistrationArms => RegistrationArms',
             \A d \in Clients : clients'[d].step = "mark" => clients'[d] = clients[d]
      PROVE  Armed' /\ MarkSound'
  <2>1. \A w \in WakeIds : Pending(w)' => Pending(w) /\ (Covered(w) => Covered(w)')
    BY <1>1, PendingBefore, CoverKept
  <2>2. Armed'
    BY <1>0, <1>1, <2>1 DEF Armed
  <2>3. ASSUME NEW d \in Clients, clients'[d].step = "mark", unscheduled' # Never,
               unscheduled' <= clients'[d].revision, NEW w \in WakeIds, Pending(w)'
        PROVE  Covered(w)'
    <3>1. clients[d].step = "mark" /\ unscheduled # Never /\ unscheduled <= clients[d].revision
      BY <1>1, <2>3
    <3>2. Pending(w) /\ (Covered(w) => Covered(w)')
      BY <2>1, <2>3
    <3> QED
      BY <1>0, <3>1, <3>2 DEF MarkSound
  <2> QED
    BY <2>2, <2>3 DEF MarkSound
<1>2. ASSUME \A w \in WakeIds : Covered(w)'
      PROVE  Armed' /\ MarkSound'
  BY <1>2 DEF Armed, MarkSound
<1>3. CASE \A c \in Clients : ~ClientStep(c)
  <2>1. UNCHANGED <<clients, unscheduled, wakes>> /\ (registered' => registered)
    BY <1>3, OtherSteps
  <2>2. RegistrationArms => RegistrationArms'
    BY <2>1 DEF RegistrationArms
  <2> QED
    BY <1>1, <2>1, <2>2
<1>4. ASSUME NEW c \in Clients, ClientStep(c)
      PROVE  Armed' /\ MarkSound'
  <2>0. \A d \in Clients \ {c} : clients'[d] = clients[d]
    BY <1>0, <1>4, RequestAfter
  <2>1. ASSUME clients[c].step # "arm" \/ clients[c].revision # Never
        PROVE  RegistrationArms => RegistrationArms'
    BY <2>0, <2>1 DEF RegistrationArms
  <2>2. ASSUME NEW snapshot \in Snapshots, NEW rev \in 0 .. MaxRevision, ReadSnapshot(c, snapshot, rev)
        PROVE  Armed' /\ MarkSound'
    <3>1. /\ UNCHANGED <<unscheduled, wakes, registered>>
          /\ clients[c].step = "none" /\ clients'[c].step # "mark"
      BY <1>0, <2>2, RequestRead
    <3>2. \A d \in Clients : clients'[d].step = "mark" => clients'[d] = clients[d]
      BY <2>0, <3>1
    <3> QED
      BY <1>1, <2>1, <3>1, <3>2
  <2>3. CASE WriteSnapshot(c)
    <3>1. /\ clients[c].step = "write" /\ clients[c].revision \in Nat
          /\ revision = Never \/ revision < clients[c].revision
          /\ clients[c].changed = (clients[c].snapshot # wakes)
      BY <1>0, <2>3 DEF WriteSnapshot, RequestsSound, Times
    <3>2. /\ wakes' = clients[c].snapshot /\ registered' = registered
          /\ unscheduled' = IF clients[c].changed THEN clients[c].revision ELSE unscheduled
      BY <1>0, <2>3, <3>1 DEF WriteSnapshot, Times
    <3>3. clients'[c].step # "mark"
      BY <1>0, <1>4, <2>3, RequestAfter
    <3>4. CASE ~clients[c].changed
      <4>1. UNCHANGED <<unscheduled, wakes>>
        BY <3>1, <3>2, <3>4
      <4>2. \A d \in Clients : clients'[d].step = "mark" => clients'[d] = clients[d]
        BY <2>0, <3>3
      <4>3. RegistrationArms => RegistrationArms'
        BY <2>1, <3>1
      <4> QED
        BY <1>1, <3>2, <4>1, <4>2, <4>3
    <3>5. CASE clients[c].changed
      <4>1. unscheduled' = clients[c].revision /\ unscheduled' # Never
        BY <1>0, <3>1, <3>2, <3>5
      <4>2. Armed'
        BY <4>1 DEF Armed
      <4>3. ASSUME NEW d \in Clients, clients'[d].step = "mark", unscheduled' <= clients'[d].revision
            PROVE  FALSE
        <5>1. clients'[d] = clients[d]
          BY <2>0, <3>3, <4>3
        <5>2. clients[d].revision # Never /\ revision # Never /\ clients[d].revision <= revision
          BY <1>0, <4>3, <5>1 DEF RequestsSound
        <5>3. clients[d].revision \in Nat /\ revision \in Nat
          BY <1>0, <5>2 DEF Times
        <5> QED
          BY <3>1, <4>1, <4>3, <5>1, <5>2, <5>3
      <4> QED
        BY <4>2, <4>3 DEF MarkSound
    <3> QED
      BY <3>4, <3>5, <1>0, <3>1
  <2>4. CASE RegisterBrowser(c)
    <3>1. RegistrationArms'
      BY <1>0, <1>4, <2>4, RequestAfter DEF RegistrationArms
    <3> QED
      BY <1>2, <3>1 DEF Covered
  <2>5. CASE ArmAlarm(c)
    <3>1. ASSUME NEW w \in WakeIds
          PROVE  LookedAfter(w)'
      BY <1>0, <2>5, <3>1, ArmedForAll
    <3> QED
      BY <1>2, <3>1 DEF Covered
  <2>6. CASE MarkArmed(c)
    <3>1. /\ clients[c].step = "mark" /\ UNCHANGED <<wakes, registered>>
          /\ unscheduled' = IF unscheduled # Never /\ unscheduled <= clients[c].revision
                            THEN Never ELSE unscheduled
      BY <2>6 DEF MarkArmed
    <3>2. clients'[c].step = "none"
      BY <1>0, <1>4, <2>6, RequestAfter
    <3>3. RegistrationArms => RegistrationArms'
      BY <2>1, <3>1
    <3>4. CASE unscheduled # Never /\ unscheduled <= clients[c].revision
      <4>1. \A w \in WakeIds : Pending(w)' => Covered(w)'
        <5> SUFFICES ASSUME NEW w \in WakeIds, Pending(w)'
                     PROVE  Covered(w)'
          OBVIOUS
        <5>1. Pending(w)
          BY <3>1, PendingBefore
        <5>2. Covered(w)
          BY <1>0, <3>1, <3>4, <5>1 DEF MarkSound
        <5> QED
          BY <3>3, <5>1, <5>2, CoverKept
      <4> QED
        BY <4>1 DEF Armed, MarkSound
    <3>5. CASE ~(unscheduled # Never /\ unscheduled <= clients[c].revision)
      <4>1. \A d \in Clients : clients'[d].step = "mark" => clients'[d] = clients[d]
        BY <2>0, <3>2
      <4>2. unscheduled' = unscheduled
        BY <3>1, <3>5
      <4> QED
        BY <1>1, <3>1, <3>3, <4>1, <4>2
    <3> QED
      BY <3>4, <3>5
  <2>7. CASE RequestDies(c)
    <3>1. UNCHANGED <<unscheduled, wakes, registered>> /\ clients[c].revision # Never
      BY <2>7 DEF RequestDies, wakeStore
    <3>2. \A d \in Clients : clients'[d].step = "mark" => clients'[d] = clients[d]
      BY <1>0, <1>4, <2>0, <2>7, RequestAfter
    <3> QED
      BY <1>1, <2>1, <3>1, <3>2
  <2> QED
    BY <1>4, <2>2, <2>3, <2>4, <2>5, <2>6, <2>7 DEF ClientStep
<1> QED
  BY <1>3, <1>4

LEMMA InvariantAtFirst ==
    ASSUME AlarmInit
    PROVE  AlarmInv
<1>1. AlarmTypeOK
  BY WakeAssumption DEF AlarmInit, AlarmTypeOK, NoClient, NoMessage
<1>2. RequestsSound /\ MarkSound
  BY BlankRecords DEF AlarmInit, RequestsSound, MarkSound
<1>3. RowsSound
  BY <1>1, TimesOfWake, Typed DEF AlarmInit, RowsSound
<1>4. Armed
  BY DEF AlarmInit, Armed, Pending, Owing
<1> QED
  BY <1>1, <1>2, <1>3, <1>4 DEF AlarmInv

\* The invariant has every pending wake in sight.
LEMMA InvariantSuffices ==
    ASSUME AlarmInv
    PROVE  NoWakeLost
<1>1. ASSUME NEW w \in WakeIds, Pending(w), ~ArmOwed
      PROVE  LookedAfter(w)
  <2>1. unscheduled = Never /\ ~RegistrationArms
    BY <1>1 DEF ArmOwed, RegistrationArms
  <2> QED
    BY <1>1, <2>1 DEF AlarmInv, Armed, Covered
<1>2. LookedFor
  BY <1>1 DEF LookedFor, LookedAfter
<1>3. AlarmStands
  BY <1>1 DEF AlarmStands, LookedAfter, AlarmFor
<1> QED
  BY <1>2, <1>3 DEF NoWakeLost

-----------------------------------------------------------------------------
(* Theorems.                                                                *)

\* Requests, alarm and deliveries keep every variable of its kind.
THEOREM AlarmTypeCorrect == AlarmSpec => []AlarmTypeOK
<1>1. AlarmInit => AlarmTypeOK
  BY InvariantAtFirst DEF AlarmInv
<1>2. AlarmTypeOK /\ [AlarmNext]_alarmVars => AlarmTypeOK'
  BY TypesKept
<1> QED
  BY <1>1, <1>2, PTL DEF AlarmSpec

\* However requests, hand-overs and deliveries overlap, come again and are cut short, the
\* alarm of alarm() and /set looks after each wake that a browser has still to be told of,
\* as long as two publishes do not read before either writes, and a registration arms.
THEOREM NoWakeIsLost ==
    ASSUME Overlap = FALSE, RegistrationsDie = FALSE
    PROVE  AlarmSpec => []NoWakeLost
<1>1. AlarmInit => AlarmInv
  BY InvariantAtFirst
<1>2. AlarmInv /\ [AlarmNext]_alarmVars => AlarmInv'
  <2> SUFFICES ASSUME AlarmInv, [AlarmNext]_alarmVars
               PROVE  AlarmInv'
    OBVIOUS
  <2>1. AlarmTypeOK'
    BY TypesKept DEF AlarmInv
  <2> QED
    BY <2>1, RequestsSoundKept, RowsSoundKept, ArmedKept DEF AlarmInv
<1>3. AlarmInv => NoWakeLost
  BY InvariantSuffices
<1> QED
  BY <1>1, <1>2, <1>3, PTL DEF AlarmSpec
================================================================================
