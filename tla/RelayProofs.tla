------------------------------ MODULE RelayProofs ------------------------------
(***************************************************************************)
(* The relay's safety for every account, window and quota: TypeOK and      *)
(* RoundInv are an inductive invariant of Relay, and what a committed      *)
(* account promises its devices follows from it.                           *)
(*                                                                         *)
(* The last part shows that the relay's transaction implements the store   *)
(* that answers in one step (RecordStore): whatever a round does statement *)
(* by statement, what it commits is what one step of the abstract store    *)
(* makes of the account for the round that began.                          *)
(***************************************************************************)
EXTENDS Relay, SetFacts

-----------------------------------------------------------------------------
(* Rows: what the statements of a round do to them.                         *)

\* Fewer rows are as well numbered, under the same clock.
LEMMA NumberedSubset ==
    ASSUME NEW R, NEW S \in SUBSET R, NEW n, Numbered(R, n)
    PROVE  Numbered(S, n)
BY DEF Numbered, RowsNumbered

\* A set without two different members is empty or a singleton.
LEMMA AtMostOne ==
    ASSUME NEW S, \A x, y \in S : x = y
    PROVE  S = {} \/ \E x \in S : S = {x}
OBVIOUS

\* The row a deletion finds is the only one of its record and of its version.
LEMMA DeletedIsOne ==
    ASSUME NEW E \in SUBSET Row, RowsNumbered(E), NEW d \in Deletion, Deleted(E, {d}) # {}
    PROVE  \E r \in E : /\ Deleted(E, {d}) = {r}
                        /\ r.slot = d.slot /\ r.id = d.id
                        /\ \A e \in E : e.slot = d.slot \/ e.id = d.id => e = r
<1>1. PICK r \in Deleted(E, {d}) : TRUE
  OBVIOUS
<1>2. r \in E /\ r.slot = d.slot /\ r.id = d.id
  BY <1>1 DEF Deleted
<1>3. \A e \in E : e.slot = d.slot \/ e.id = d.id => e = r
  BY <1>2 DEF RowsNumbered
<1>4. Deleted(E, {d}) = {r}
  BY <1>1, <1>2, <1>3 DEF Deleted
<1> QED
  BY <1>2, <1>3, <1>4

\* Deleting a record with its versions leaves sound rows, one fewer.
LEMMA DeletionSound ==
    ASSUME NEW E \in SUBSET Row, NEW H \in SUBSET HistoryRow, NEW c \in Nat, NEW l \in Nat,
           SoundRows(E, H, c, l),
           NEW d \in Deletion, Deleted(E, {d}) # {}
    PROVE  LET F == E \ Deleted(E, {d})
               G == { h \in H : h.slot # d.slot } IN
           /\ SoundRows(F, G, c, l)
           /\ Cardinality(F) = Cardinality(E) - 1
<1> DEFINE F == E \ Deleted(E, {d})
           G == { h \in H : h.slot # d.slot }
<1>1. PICK r \in E : /\ Deleted(E, {d}) = {r}
                     /\ r.slot = d.slot /\ r.id = d.id
                     /\ \A e \in E : e.slot = d.slot \/ e.id = d.id => e = r
  BY DeletedIsOne DEF SoundRows, Numbered
<1>2. IsFiniteSet(E) /\ IsFiniteSet(H)
  BY DEF SoundRows
<1>3. F = E \ {r} /\ IsFiniteSet(F) /\ Cardinality(F) = Cardinality(E) - 1
  BY <1>1, <1>2, FS_RemoveElement
<1>4. G \in SUBSET H /\ IsFiniteSet(G)
  BY <1>2, FS_Subset
<1>5. Numbered(F, c)
  BY NumberedSubset DEF SoundRows
<1>6. /\ \A e \in F : e.slot = SlotOf[e.id]
      /\ SoundHistory(G, l)
  BY <1>4 DEF SoundRows, SoundHistory
<1>7. \A e \in F : OfSlots(G, {e.slot}) = OfSlots(H, {e.slot})
  BY <1>1, <1>3 DEF OfSlots
<1>8. LiveIsNewest(F, G)
  BY <1>3, <1>7 DEF SoundRows, LiveIsNewest
<1>9. NoneLeftBehind(F, G)
  BY <1>1, <1>3 DEF SoundRows, NoneLeftBehind
<1> QED
  BY <1>3, <1>4, <1>5, <1>6, <1>8, <1>9 DEF SoundRows

\* Trimming a history without taking a record's newest version keeps the rows sound.
LEMMA TrimmedSound ==
    ASSUME NEW E \in SUBSET Row, NEW H \in SUBSET HistoryRow, NEW c \in Nat, NEW l \in Nat,
           SoundRows(E, H, c, l),
           NEW K \in SUBSET H,
           \A h \in H : NewerVersions(H, h) = {} /\ (\E k \in K : k.slot = h.slot) => h \in K
    PROVE  SoundRows(E, K, c, l)
<1>1. IsFiniteSet(E) /\ IsFiniteSet(H) /\ LiveIsNewest(E, H) /\ NoneLeftBehind(E, H)
  BY DEF SoundRows
<1>2. IsFiniteSet(K)
  BY <1>1, FS_Subset
<1>3. SoundHistory(K, l)
  BY DEF SoundRows, SoundHistory
<1>4. NoneLeftBehind(E, K)
  BY <1>1 DEF NoneLeftBehind
<1>5. ASSUME NEW e \in E, OfSlots(K, {e.slot}) # {}
      PROVE  \E h \in OfSlots(K, {e.slot}) :
                h.id = e.id /\ NewerVersions(OfSlots(K, {e.slot}), h) = {}
  <2>1. OfSlots(H, {e.slot}) # {}
    BY <1>5 DEF OfSlots
  <2>2. PICK h \in OfSlots(H, {e.slot}) :
           h.id = e.id /\ NewerVersions(OfSlots(H, {e.slot}), h) = {}
    BY <1>1, <2>1 DEF LiveIsNewest
  <2>3. h \in H /\ h.slot = e.slot /\ NewerVersions(H, h) = {}
    BY <2>2 DEF OfSlots, NewerVersions
  <2>4. h \in K
    BY <1>5, <2>3 DEF OfSlots
  <2>5. h \in OfSlots(K, {e.slot}) /\ NewerVersions(OfSlots(K, {e.slot}), h) = {}
    BY <2>3, <2>4 DEF OfSlots, NewerVersions
  <2> QED
    BY <2>2, <2>5
<1>6. LiveIsNewest(E, K)
  BY <1>5 DEF LiveIsNewest
<1> QED
  BY <1>1, <1>2, <1>3, <1>4, <1>6 DEF SoundRows

\* The version window never takes the newest version.
LEMMA WindowSound ==
    ASSUME NEW E \in SUBSET Row, NEW H \in SUBSET HistoryRow, NEW c \in Nat, NEW l \in Nat,
           SoundRows(E, H, c, l),
           NEW slots, NEW n \in Nat \ {0}
    PROVE  SoundRows(E, WindowOf(H, slots, n), c, l)
<1>1. WindowOf(H, slots, n) \in SUBSET H
  BY DEF WindowOf
<1>2. \A h \in H : NewerVersions(H, h) = {} => h \in WindowOf(H, slots, n)
  BY FS_EmptySet DEF WindowOf
<1> QED
  BY <1>1, <1>2, TrimmedSound

\* Of the older versions there is an oldest one, and only one.
LEMMA OldestIsOne ==
    ASSUME NEW H \in SUBSET HistoryRow, NEW l, SoundHistory(H, l),
           NEW O \in SUBSET H, Oldest(O) # {}
    PROVE  \E h \in O : Oldest(O) = {h}
<1>1. PICK h \in Oldest(O) : TRUE
  OBVIOUS
<1>2. \A g \in Oldest(O) : g.hid = h.hid
  BY <1>1 DEF Oldest, HistoryRow
<1> QED
  BY <1>1, <1>2 DEF Oldest, SoundHistory

\* Evicting an older version keeps the rows sound: it is not the newest of its record.
LEMMA EvictionSound ==
    ASSUME NEW E \in SUBSET Row, NEW H \in SUBSET HistoryRow, NEW c \in Nat, NEW l \in Nat,
           SoundRows(E, H, c, l),
           NEW h \in OlderVersions(E, H)
    PROVE  /\ SoundRows(E, H \ {h}, c, l)
           /\ OlderVersions(E, H \ {h}) = OlderVersions(E, H) \ {h}
<1>1. PICK e \in E : e.slot = h.slot /\ e.id # h.id
  BY DEF OlderVersions
<1>2. h \in H
  BY DEF OlderVersions
<1>3. PICK g \in OfSlots(H, {e.slot}) :
         g.id = e.id /\ NewerVersions(OfSlots(H, {e.slot}), g) = {}
  BY <1>1, <1>2 DEF SoundRows, LiveIsNewest, OfSlots
<1>4. g # h /\ g.hid # h.hid /\ g \in H /\ g.slot = h.slot
  BY <1>1, <1>2, <1>3 DEF OfSlots, SoundRows, SoundHistory
<1>5. g.hid > h.hid
  BY <1>1, <1>2, <1>3, <1>4 DEF OfSlots, NewerVersions, HistoryRow
<1>6. NewerVersions(H, h) # {}
  BY <1>4, <1>5 DEF NewerVersions
<1>7. SoundRows(E, H \ {h}, c, l)
  BY <1>6, TrimmedSound
<1> QED
  BY <1>7 DEF OlderVersions

\* An upload becomes the one row of its record.
LEMMA UploadNumbered ==
    ASSUME NEW E \in SUBSET Row, NEW c \in Nat, Numbered(E, c),
           NEW new \in Row, new.seq = c + 1, \A e \in E : e.id # new.id
    PROVE  Numbered((E \ OfSlots(E, {new.slot})) \cup {new}, c + 1)
<1> DEFINE P == OfSlots(E, {new.slot})
           F == (E \ P) \cup {new}
<1>1. \A e \in E \ P : e.seq <= c /\ e.seq \in Nat /\ e.slot # new.slot /\ e.id # new.id
  BY DEF Numbered, Row, OfSlots
<1>2. RowsNumbered(E \ P)
  BY DEF Numbered, RowsNumbered
<1> HIDE DEF P
<1>3. RowsNumbered(F)
  BY <1>1, <1>2 DEF RowsNumbered
<1>4. \A r \in F : r.seq <= c + 1
  BY <1>1
<1> QED
  BY <1>3, <1>4 DEF Numbered, P

\* It adds to the live records unless it replaces one.
LEMMA UploadCount ==
    ASSUME NEW E, RowsNumbered(E), IsFiniteSet(E), NEW new, \A e \in E : e.id # new.id
    PROVE  LET P == OfSlots(E, {new.slot}) IN
           /\ IsFiniteSet((E \ P) \cup {new})
           /\ Cardinality((E \ P) \cup {new}) =
                IF P = {} THEN Cardinality(E) + 1 ELSE Cardinality(E)
<1> DEFINE P == OfSlots(E, {new.slot})
<1>1. P \in SUBSET E /\ new \notin E \ P
  BY DEF OfSlots
<1>2. IsFiniteSet(E \ P)
  BY <1>1, FS_Subset
<1>3. /\ IsFiniteSet((E \ P) \cup {new})
      /\ Cardinality((E \ P) \cup {new}) = Cardinality(E \ P) + 1
  BY <1>1, <1>2, FS_AddElement
<1>4. \A x, y \in P : x = y
  BY DEF OfSlots, RowsNumbered
<1> HIDE DEF P
<1>5. Cardinality((E \ P) \cup {new}) = IF P = {} THEN Cardinality(E) + 1 ELSE Cardinality(E)
  <2>1. CASE P = {}
    BY <1>3, <2>1
  <2>2. CASE P # {}
    <3>1. PICK p \in P : P = {p}
      BY <1>4, <2>2, AtMostOne
    <3>2. p \in E /\ Cardinality(E \ {p}) = Cardinality(E) - 1
      BY <1>1, FS_RemoveElement
    <3>3. Cardinality(E) \in Nat
      BY FS_CardinalityType
    <3> QED
      BY <1>3, <2>2, <3>1, <3>2, <3>3
  <2> QED
    BY <2>1, <2>2
<1> QED
  BY <1>3, <1>5 DEF P

\* It becomes the newest version of its record's history.
LEMMA UploadNewest ==
    ASSUME NEW E \in SUBSET Row, NEW H \in SUBSET HistoryRow,
           LiveIsNewest(E, H), NoneLeftBehind(E, H),
           NEW new \in Row, NEW saved \in HistoryRow, saved.slot = new.slot, saved.id = new.id,
           NEW B \in SUBSET HistoryRow, \A h \in B : h.hid < saved.hid,
           \A s \in Slots \ {new.slot} : OfSlots(B, {s}) = OfSlots(H, {s})
    PROVE  /\ LiveIsNewest((E \ OfSlots(E, {new.slot})) \cup {new}, B \cup {saved})
           /\ NoneLeftBehind((E \ OfSlots(E, {new.slot})) \cup {new}, B \cup {saved})
<1> DEFINE F == (E \ OfSlots(E, {new.slot})) \cup {new}
           G == B \cup {saved}
<1>1. \A e \in F : e = new \/ (e \in E /\ e.slot \in Slots \ {new.slot})
  BY DEF OfSlots, Row
<1>2. \A s \in Slots \ {new.slot} : OfSlots(G, {s}) = OfSlots(H, {s})
  BY DEF OfSlots
<1>3. saved \in OfSlots(G, {new.slot}) /\ NewerVersions(OfSlots(G, {new.slot}), saved) = {}
  BY DEF OfSlots, NewerVersions, HistoryRow
<1>4. ASSUME NEW e \in F, OfSlots(G, {e.slot}) # {}
      PROVE  \E h \in OfSlots(G, {e.slot}) :
                h.id = e.id /\ NewerVersions(OfSlots(G, {e.slot}), h) = {}
  <2>1. CASE e = new
    BY <1>3, <2>1
  <2>2. CASE e \in E /\ e.slot \in Slots \ {new.slot}
    BY <1>2, <1>4, <2>2 DEF LiveIsNewest
  <2> QED
    BY <1>1, <2>1, <2>2
<1>5. LiveIsNewest(F, G)
  BY <1>4 DEF LiveIsNewest
<1>6. ASSUME NEW h \in G PROVE \E e \in F : e.slot = h.slot
  <2>1. CASE h.slot = new.slot
    BY <2>1
  <2>2. CASE h.slot # new.slot
    <3>1. h.slot \in Slots \ {new.slot}
      BY <2>2 DEF HistoryRow
    <3>2. h \in H
      BY <2>2, <3>1 DEF OfSlots
    <3>3. PICK e \in E : e.slot = h.slot
      BY <3>2 DEF NoneLeftBehind
    <3> QED
      BY <2>2, <3>3 DEF OfSlots
  <2> QED
    BY <2>1, <2>2
<1>7. NoneLeftBehind(F, G)
  BY <1>6 DEF NoneLeftBehind
<1> QED
  BY <1>5, <1>7

\* What an upload leaves of its record's history before it adds itself.
LEMMA HistoryBeforeSound ==
    ASSUME tx.envelopes \in SUBSET Row, tx.history \in SUBSET HistoryRow, tx.lastHid \in Nat,
           NEW c \in Nat, SoundRows(tx.envelopes, tx.history, c, tx.lastHid),
           NEW u \in Upload
    PROVE  /\ HistoryBefore(u) \in SUBSET HistoryRow
           /\ IsFiniteSet(HistoryBefore(u))
           /\ SoundHistory(HistoryBefore(u), tx.lastHid + 1)
           /\ \A s \in Slots \ {u.slot} :
                OfSlots(HistoryBefore(u), {s}) = OfSlots(tx.history, {s})
<1>1. /\ IsFiniteSet(tx.history) /\ SoundHistory(tx.history, tx.lastHid)
      /\ \A e \in tx.envelopes : e.slot = SlotOf[e.id]
      /\ RowsNumbered(tx.envelopes)
  BY DEF SoundRows, Numbered
<1>2. \A h \in tx.history : h.hid \in Nat /\ h.hid <= tx.lastHid
  BY <1>1 DEF SoundHistory, HistoryRow
<1>3. CASE u.continues
  <2>1. HistoryBefore(u) = { h \in tx.history : \A p \in Prior(u) : h.id # p.id }
    BY <1>3 DEF HistoryBefore
  <2>2. \A h \in tx.history, p \in Prior(u) : h.id = p.id => h.slot = u.slot
    BY <1>1 DEF SoundHistory, Prior, OfSlots
  <2>3. IsFiniteSet(HistoryBefore(u))
    BY <1>1, <2>1, FS_Subset
  <2>4. SoundHistory(HistoryBefore(u), tx.lastHid + 1)
    BY <1>1, <1>2, <2>1 DEF SoundHistory
  <2> QED
    BY <2>1, <2>2, <2>3, <2>4 DEF OfSlots
<1>4. CASE ~u.continues /\ Unsaved(u) = {}
  <2>1. HistoryBefore(u) = tx.history
    BY <1>4 DEF HistoryBefore
  <2> QED
    BY <1>1, <1>2, <2>1 DEF SoundHistory
<1>5. CASE ~u.continues /\ Unsaved(u) # {}
  <2>1. \A p, q \in Unsaved(u) : p = q
    BY <1>1 DEF Unsaved, Prior, OfSlots, RowsNumbered
  <2>2. PICK p \in Unsaved(u) : Unsaved(u) = {p}
    BY <1>5, <2>1, AtMostOne
  <2> DEFINE row == [hid |-> tx.lastHid + 1, slot |-> p.slot, id |-> p.id]
  <2>3. HistoryBefore(u) = tx.history \cup {row}
    BY <1>5, <2>2 DEF HistoryBefore
  <2>4. p \in tx.envelopes /\ p.slot = u.slot
    BY <2>2 DEF Unsaved, Prior, OfSlots
  <2>5. row \in HistoryRow /\ row.hid = tx.lastHid + 1 /\ row.slot = u.slot /\ row.slot = SlotOf[row.id]
    BY <1>1, <2>4 DEF Row, HistoryRow
  <2> HIDE DEF row
  <2>6. IsFiniteSet(HistoryBefore(u))
    BY <1>1, <2>3, FS_AddElement
  <2>7. SoundHistory(HistoryBefore(u), tx.lastHid + 1)
    BY <1>1, <1>2, <2>3, <2>5 DEF SoundHistory
  <2> QED
    BY <2>3, <2>5, <2>6, <2>7 DEF OfSlots
<1> QED
  BY <1>3, <1>4, <1>5

\* Counting a finite set in two parts.
LEMMA PartCount ==
    ASSUME NEW O, IsFiniteSet(O), NEW I \in SUBSET O
    PROVE  /\ Cardinality(O \ I) = Cardinality(O) - Cardinality(I)
           /\ Cardinality(O) \in Nat /\ Cardinality(I) \in Nat
<1>1. O \cap I = I
  OBVIOUS
<1>2. Cardinality(O \ I) = Cardinality(O) - Cardinality(O \cap I)
  BY FS_Difference
<1>3. IsFiniteSet(I) /\ Cardinality(O) \in Nat
  BY FS_Subset, FS_CardinalityType
<1> QED
  BY <1>1, <1>2, <1>3, FS_CardinalityType

-----------------------------------------------------------------------------
(* The invariant.                                                           *)

IInv == TypeOK /\ RoundInv

\* An account without rows is sound, whatever its history ids have reached.
LEMMA NoRowsSound == ASSUME NEW l \in Nat PROVE SoundRows({}, {}, 0, l)
BY FS_EmptySet DEF SoundRows, SoundHistory, Numbered, RowsNumbered, LiveIsNewest, NoneLeftBehind

\* A new account, or the one an upgrade finds, satisfies the invariant.
LEMMA InitInv == Init => IInv
<1> SUFFICES ASSUME Init PROVE IInv
  OBVIOUS
<1>1. PICK old \in OldAccounts :
        /\ db = [ exists |-> old.rows # {}, retired |-> FALSE, quota |-> DefaultQuota,
                  nextSeq |-> old.clock, envelopes |-> old.rows, history |-> {}, lastHid |-> 0 ]
        /\ usage = Counters(Cardinality(old.rows), BytesOf(old.rows), 0, 0)
  BY DEF Init
<1>2. /\ old.rows \subseteq Row /\ IsFiniteSet(old.rows) /\ old.clock \in Nat
      /\ Numbered(old.rows, old.clock) /\ \A r \in old.rows : r.slot = SlotOf[r.id]
  BY OldAccountAssumption
<1>3. TypeOK
  <2>1. db \in [ exists : BOOLEAN, retired : BOOLEAN, quota : Quotas, nextSeq : Nat,
                  envelopes : SUBSET Row, history : SUBSET HistoryRow, lastHid : Nat ]
    BY <1>1, <1>2, QuotaAssumption
  <2>2. usage.count \in Nat /\ usage.versions \in Nat
    BY <1>1, <1>2, FS_CardinalityType DEF Counters
  <2>3. window \in Windows /\ pc = "idle"
    BY DEF Init
  <2>4. req \in [cursor : Nat, batch : Batch]
    BY DEF Init, NoRound, Batch
  <2>5. tx \in [ envelopes : SUBSET Row, history : SUBSET HistoryRow, lastHid : Nat, seq : Nat,
                  known : SUBSET Ids, older : SUBSET HistoryRow, deletions : SUBSET Deletion,
                  uploads : Seq(Upload) ]
    BY DEF Init, NoTx
  <2>6. tally.count \in Nat /\ tally.versions \in Int /\ reply.kind = "none"
    BY DEF Init, NoUsage, Counters, NoReply, Reply
  <2> QED
    BY <2>1, <2>2, <2>3, <2>4, <2>5, <2>6 DEF TypeOK
<1>4. SoundRows(db.envelopes, db.history, db.nextSeq, db.lastHid)
  BY <1>1, <1>2, FS_EmptySet DEF SoundRows, SoundHistory, LiveIsNewest, NoneLeftBehind, OfSlots
<1>5. CountsMatchRows
  <2>1. OlderVersions(db.envelopes, db.history) = {}
    BY <1>1 DEF OlderVersions
  <2> QED
    BY <1>1, <2>1, FS_EmptySet DEF CountsMatchRows, Counters
<1> QED
  BY <1>3, <1>4, <1>5 DEF IInv, RoundInv, Idle, Init

\* The rows and the round are as they were.
LEMMA SameRowsInv ==
    ASSUME IInv, db' \in [ exists : BOOLEAN, retired : BOOLEAN, quota : Quotas, nextSeq : Nat,
                           envelopes : SUBSET Row, history : SUBSET HistoryRow, lastHid : Nat ],
           db'.nextSeq = db.nextSeq, db'.envelopes = db.envelopes, db'.history = db.history,
           db'.lastHid = db.lastHid,
           UNCHANGED <<usage, window, pc, req, tx, tally>>,
           reply'.kind \in {"none", "reset", "quota", "page", "conflict", "done"}
    PROVE  IInv'
<1>1. TypeOK'
  BY DEF IInv, TypeOK
<1>2. RoundInv'
  BY DEF IInv, RoundInv, CountsMatchRows, KnownRepeats, OthersUntouched, Idle
<1> QED
  BY <1>1, <1>2 DEF IInv

\* The round ends and leaves the account's rows as they were.
LEMMA EndRoundInv ==
    ASSUME IInv, EndRound, UNCHANGED <<db, usage>>, window' \in Windows,
           reply'.kind \in {"none", "reset", "quota", "page", "conflict", "done"}
    PROVE  IInv'
<1>1. TypeOK'
  BY DEF IInv, TypeOK, EndRound, NoTx, NoRound, NoUsage, Counters, Batch
<1>2. RoundInv'
  BY DEF IInv, RoundInv, CountsMatchRows, EndRound, Idle
<1> QED
  BY <1>1, <1>2 DEF IInv

\* Creating or retiring the account, or setting its quota, leaves its rows alone.
LEMMA AccountInv ==
    ASSUME IInv,
           CreateAccount \/ RetireAccount \/ \E maxBytes \in Quotas : SetAccountByteQuota(maxBytes)
    PROVE  IInv'
BY SameRowsInv DEF CreateAccount, RetireAccount, SetAccountByteQuota, round, IInv, TypeOK

\* A round that writes nothing changes the reply only.
LEMMA AnswerInv ==
    ASSUME IInv, NEW cursor \in Cursors, NEW batch \in Batches,
           AnswerReset(cursor) \/ AnswerPage(cursor, batch) \/ AnswerConflict(cursor, batch)
    PROVE  IInv'
<1>1. reply'.kind \in {"reset", "page", "conflict"}
  BY DEF AnswerReset, AnswerPage, AnswerConflict, ResetReply, PageReply, ConflictReply, Reply
<1>2. UNCHANGED <<db, usage, window, pc, req, tx, tally>>
  BY DEF AnswerReset, AnswerPage, AnswerConflict
<1> QED
  BY <1>1, <1>2, SameRowsInv DEF IInv, TypeOK

\* Deleting or sweeping the account leaves it without rows and with counters at zero.
LEMMA DropAccountInv == ASSUME IInv, DropAccount PROVE IInv'
<1>1. TypeOK'
  BY QuotaAssumption DEF IInv, TypeOK, DropAccount, NoUsage, Counters, NoReply, Reply
<1>2. OlderVersions({}, {}) = {}
  BY DEF OlderVersions
<1>3. db'.envelopes = {} /\ db'.history = {} /\ db'.nextSeq = 0 /\ db'.lastHid \in Nat
  BY DEF IInv, TypeOK, DropAccount
<1>4. SoundRows(db'.envelopes, db'.history, db'.nextSeq, db'.lastHid)
  BY <1>3, NoRowsSound
<1>5. CountsMatchRows'
  BY <1>2, <1>3, FS_EmptySet DEF CountsMatchRows, DropAccount, NoUsage, Counters
<1> QED
  BY <1>1, <1>4, <1>5 DEF IInv, RoundInv, Idle, DropAccount

\* The daily upkeep trims every history to the window and counts what is left.
LEMMA ReclaimInv == ASSUME IInv, ReclaimStorage PROVE IInv'
<1> DEFINE kept == WindowOf(db.history, Slots, window)
           older == OlderVersions(db.envelopes, kept)
<1>1. /\ db.envelopes \in SUBSET Row /\ db.history \in SUBSET HistoryRow
      /\ db.nextSeq \in Nat /\ db.lastHid \in Nat /\ window \in Nat \ {0}
      /\ SoundRows(db.envelopes, db.history, db.nextSeq, db.lastHid)
  BY WindowAssumption DEF IInv, TypeOK, RoundInv
<1>2. SoundRows(db.envelopes, kept, db.nextSeq, db.lastHid)
  BY <1>1, WindowSound
<1>3. kept \in SUBSET db.history /\ older \in SUBSET kept
  BY DEF WindowOf, OlderVersions
<1>4. IsFiniteSet(older) /\ Cardinality(older) \in Nat
  BY <1>2, <1>3, FS_Subset, FS_CardinalityType DEF SoundRows
<1>5. db' = [db EXCEPT !.history = kept]
  BY DEF ReclaimStorage
<1>6. usage' = Counters(usage.count, usage.bytes, Cardinality(older), BytesOf(older))
  BY DEF ReclaimStorage
<1>7. UNCHANGED <<window, pc, req, tx, tally, reply>> /\ pc = "idle"
  BY DEF ReclaimStorage, round, Idle
<1> HIDE DEF kept, older
<1>8. TypeOK'
  BY <1>1, <1>3, <1>4, <1>5, <1>6, <1>7 DEF IInv, TypeOK, Counters
<1>9. CountsMatchRows'
  <2>1. usage'.count = Cardinality(db'.envelopes)
    BY <1>5, <1>6 DEF IInv, RoundInv, CountsMatchRows, TypeOK, Counters
  <2>2. usage'.versions = Cardinality(OlderVersions(db'.envelopes, db'.history))
    BY <1>5, <1>6 DEF IInv, TypeOK, Counters, older
  <2> QED
    BY <2>1, <2>2 DEF CountsMatchRows
<1>10. SoundRows(db'.envelopes, db'.history, db'.nextSeq, db'.lastHid)
  BY <1>2, <1>5 DEF IInv, TypeOK
<1> QED
  BY <1>7, <1>8, <1>9, <1>10 DEF IInv, RoundInv, Idle

\* The transaction starts from the committed rows.
LEMMA BeginInv ==
    ASSUME IInv, NEW cursor \in Cursors, NEW batch \in Batches, BeginWrites(cursor, batch)
    PROVE  IInv'
<1> DEFINE uploaded == { batch.uploads[i].id : i \in DOMAIN batch.uploads }
           known == uploaded \cap { e.id : e \in db.envelopes }
           older == OfSlots(OlderVersions(db.envelopes, db.history), TouchedSlots(batch))
<1>1. cursor \in Nat /\ batch \in Batch /\ batch.uploads \in Seq(Upload)
      /\ batch.deletions \in SUBSET Deletion
  BY RequestAssumption DEF Batch
<1>2. known \in SUBSET Ids /\ older \in SUBSET HistoryRow
  BY DEF IInv, TypeOK, Row, OfSlots, OlderVersions
<1>3. \A i \in DOMAIN batch.uploads, e \in db.envelopes :
          batch.uploads[i].id = e.id => e.id \in known
  OBVIOUS
<1>4. /\ \A i \in DOMAIN batch.uploads : batch.uploads[i].slot \in TouchedSlots(batch)
      /\ \A d \in batch.deletions : d.slot \in TouchedSlots(batch)
  BY DEF TouchedSlots
<1>5. /\ tx' = [ envelopes |-> db.envelopes, history |-> db.history, lastHid |-> db.lastHid,
                 seq |-> db.nextSeq, known |-> known, older |-> older,
                 deletions |-> batch.deletions, uploads |-> batch.uploads ]
      /\ pc' = "delete" /\ req' = [cursor |-> cursor, batch |-> batch] /\ tally' = usage
      /\ UNCHANGED <<db, usage, window, reply>>
  BY DEF BeginWrites
<1> HIDE DEF uploaded, known
<1>6. TypeOK'
  BY <1>1, <1>2, <1>5 DEF IInv, TypeOK
<1>7. KnownRepeats'
  BY <1>3, <1>5 DEF KnownRepeats
<1>8. OthersUntouched'
  BY <1>4, <1>5 DEF OthersUntouched
<1>9. RoundInv'
  BY <1>5, <1>7, <1>8 DEF IInv, RoundInv, CountsMatchRows, Idle
<1> QED
  BY <1>6, <1>9 DEF IInv

\* What a round in progress knows of its working copy.
LEMMA RoundFacts ==
    ASSUME IInv, pc # "idle"
    PROVE  /\ tx.envelopes \in SUBSET Row /\ tx.history \in SUBSET HistoryRow
           /\ tx.seq \in Nat /\ tx.lastHid \in Nat
           /\ tx.deletions \in SUBSET Deletion /\ tx.uploads \in Seq(Upload)
           /\ SoundRows(tx.envelopes, tx.history, tx.seq, tx.lastHid)
           /\ RowsNumbered(tx.envelopes)
           /\ IsFiniteSet(tx.envelopes) /\ IsFiniteSet(tx.history)
           /\ tally.count = Cardinality(tx.envelopes) /\ tally.count \in Nat
           /\ KnownRepeats
           /\ pc \in {"delete", "upload"} => OthersUntouched
BY DEF IInv, TypeOK, RoundInv, SoundRows, Numbered, Idle

\* A deletion that finds nothing leaves the working copy as it was.
LEMMA SkipDeletionInv ==
    ASSUME IInv, NEW d \in tx.deletions, SkipDeletion(d)
    PROVE  IInv'
<1>1. /\ tx' = [tx EXCEPT !.deletions = @ \ {d}] /\ pc = "delete"
      /\ UNCHANGED <<db, usage, window, pc, req, tally, reply>>
  BY DEF SkipDeletion
<1>2. TypeOK'
  BY <1>1 DEF IInv, TypeOK
<1>3. /\ tx'.envelopes = tx.envelopes /\ tx'.history = tx.history /\ tx'.seq = tx.seq
      /\ tx'.lastHid = tx.lastHid /\ tx'.known = tx.known /\ tx'.older = tx.older
      /\ tx'.uploads = tx.uploads /\ tx'.deletions \subseteq tx.deletions
  BY <1>1 DEF IInv, TypeOK
<1>4. KnownRepeats' /\ OthersUntouched'
  BY <1>1, <1>3, RoundFacts DEF KnownRepeats, OthersUntouched
<1>5. RoundInv'
  BY <1>1, <1>3, <1>4 DEF IInv, RoundInv, CountsMatchRows, Idle
<1> QED
  BY <1>2, <1>5 DEF IInv

\* A deletion takes one record, all its versions and one from the count.
LEMMA ApplyDeletionInv ==
    ASSUME IInv, NEW d \in tx.deletions, ApplyDeletion(d)
    PROVE  IInv'
<1> DEFINE F == tx.envelopes \ Deleted(tx.envelopes, {d})
           G == { h \in tx.history : h.slot # d.slot }
<1>1. /\ pc = "delete" /\ Deleted(tx.envelopes, {d}) # {}
      /\ tx' = [tx EXCEPT !.deletions = @ \ {d}, !.history = G, !.envelopes = F,
                          !.known = @ \ {d.id}]
      /\ tally' = Counters(tally.count - 1, tally.bytes - Size[d.id],
                           tally.versions, tally.versionBytes)
      /\ UNCHANGED <<db, usage, window, pc, req, reply>>
  BY DEF ApplyDeletion, VersionsOfOthers
<1>2. d \in Deletion
  BY DEF IInv, TypeOK
<1>3. SoundRows(F, G, tx.seq, tx.lastHid) /\ Cardinality(F) = Cardinality(tx.envelopes) - 1
  BY <1>1, <1>2, RoundFacts, DeletionSound
<1>4. PICK r \in tx.envelopes :
        /\ Deleted(tx.envelopes, {d}) = {r}
        /\ r.slot = d.slot /\ r.id = d.id
        /\ \A e \in tx.envelopes : e.slot = d.slot \/ e.id = d.id => e = r
  BY <1>1, <1>2, RoundFacts, DeletedIsOne
<1>5. F \in SUBSET Row /\ G \in SUBSET HistoryRow /\ Cardinality(F) \in Nat
  BY <1>1, <1>3, RoundFacts, FS_CardinalityType DEF SoundRows
<1>6. \A e \in F : e \in tx.envelopes /\ e.slot # d.slot /\ e.id # d.id
  BY <1>4
<1>7. \A s \in Slots : s # d.slot =>
        OfSlots(F, {s}) = OfSlots(tx.envelopes, {s}) /\ OfSlots(G, {s}) = OfSlots(tx.history, {s})
  BY <1>4 DEF OfSlots
<1> HIDE DEF F, G
<1>8. /\ tx'.envelopes = F /\ tx'.history = G /\ tx'.seq = tx.seq /\ tx'.lastHid = tx.lastHid
      /\ tx'.known = tx.known \ {d.id} /\ tx'.older = tx.older
      /\ tx'.uploads = tx.uploads /\ tx'.deletions = tx.deletions \ {d}
      /\ tally'.count = tally.count - 1 /\ tally'.versions = tally.versions
  BY <1>1 DEF IInv, TypeOK, Counters
<1>9. TypeOK'
  <2>1. tally'.count \in Nat /\ tally'.versions \in Int
    BY <1>1, <1>3, <1>5, <1>8, RoundFacts DEF IInv, TypeOK
  <2>2. tx' \in [ envelopes : SUBSET Row, history : SUBSET HistoryRow, lastHid : Nat, seq : Nat,
                  known : SUBSET Ids, older : SUBSET HistoryRow, deletions : SUBSET Deletion,
                  uploads : Seq(Upload) ]
    BY <1>1, <1>5 DEF IInv, TypeOK
  <2> QED
    BY <1>1, <2>1, <2>2 DEF IInv, TypeOK
<1>10. KnownRepeats'
  BY <1>1, <1>6, <1>8, RoundFacts DEF KnownRepeats
<1>11. OthersUntouched'
  <2>1. OthersUntouched /\ d.slot \in TouchedSlots(req.batch)
    BY <1>1, RoundFacts DEF OthersUntouched
  <2> QED
    BY <1>1, <1>7, <1>8, <2>1 DEF OthersUntouched
<1>12. tally'.count = Cardinality(tx'.envelopes)
  BY <1>1, <1>3, <1>8, RoundFacts
<1>13. RoundInv'
  BY <1>1, <1>3, <1>8, <1>10, <1>11, <1>12 DEF IInv, RoundInv, CountsMatchRows, Idle
<1> QED
  BY <1>9, <1>13 DEF IInv

\* Turning to the uploads changes no row.
LEMMA DeletionsDoneInv == ASSUME IInv, DeletionsDone PROVE IInv'
<1>1. pc = "delete" /\ pc' = "upload" /\ UNCHANGED <<db, usage, window, req, tx, tally, reply>>
  BY DEF DeletionsDone
<1>2. TypeOK'
  BY <1>1 DEF IInv, TypeOK
<1>3. RoundInv'
  BY <1>1 DEF IInv, RoundInv, CountsMatchRows, KnownRepeats, OthersUntouched, Idle
<1> QED
  BY <1>2, <1>3 DEF IInv

\* The uploads left after the first are among those there were.
LEMMA TailUploads ==
    ASSUME NEW q \in Seq(Upload), q # <<>>
    PROVE  /\ Head(q) \in Upload /\ Head(q) = q[1] /\ 1 \in DOMAIN q
           /\ Tail(q) \in Seq(Upload)
           /\ \A i \in DOMAIN Tail(q) : i + 1 \in DOMAIN q /\ Tail(q)[i] = q[i + 1]
OBVIOUS

\* An upload of a version that is already live leaves the working copy as it was.
LEMMA SkipUploadInv == ASSUME IInv, SkipUpload PROVE IInv'
<1>1. /\ pc = "upload" /\ tx.uploads # <<>> /\ tx' = [tx EXCEPT !.uploads = Tail(@)]
      /\ UNCHANGED <<db, usage, window, pc, req, tally, reply>>
  BY DEF SkipUpload
<1>2. Tail(tx.uploads) \in Seq(Upload)
  BY <1>1, RoundFacts, TailUploads
<1>3. /\ tx'.envelopes = tx.envelopes /\ tx'.history = tx.history /\ tx'.seq = tx.seq
      /\ tx'.lastHid = tx.lastHid /\ tx'.known = tx.known /\ tx'.older = tx.older
      /\ tx'.uploads = Tail(tx.uploads) /\ tx'.deletions = tx.deletions
  BY <1>1 DEF IInv, TypeOK
<1>4. TypeOK'
  BY <1>1, <1>2 DEF IInv, TypeOK
<1>5. \A i \in DOMAIN tx'.uploads : i + 1 \in DOMAIN tx.uploads /\ tx'.uploads[i] = tx.uploads[i + 1]
  BY <1>1, <1>3, RoundFacts, TailUploads
<1>6. KnownRepeats' /\ OthersUntouched'
  BY <1>1, <1>3, <1>5, RoundFacts DEF KnownRepeats, OthersUntouched
<1>7. RoundInv'
  BY <1>1, <1>3, <1>6 DEF IInv, RoundInv, CountsMatchRows, Idle
<1> QED
  BY <1>4, <1>7 DEF IInv

\* An upload keeps the working copy sound and its count of live records exact.
LEMMA ApplyUploadInv == ASSUME IInv, ApplyUpload PROVE IInv'
<1> DEFINE u == Head(tx.uploads)
           new == [slot |-> u.slot, seq |-> tx.seq + 1, id |-> u.id]
           saved == [hid |-> tx.lastHid + 2, slot |-> u.slot, id |-> u.id]
           P == OfSlots(tx.envelopes, {u.slot})
           B == HistoryBefore(u)
           F == (tx.envelopes \ P) \cup {new}
           G == B \cup {saved}
           K == (tx.known \ { p.id : p \in P }) \cup {u.id}
<1>1. /\ pc = "upload" /\ tx.uploads # <<>> /\ u.id \notin tx.known
      /\ tx' = [tx EXCEPT !.uploads = Tail(@), !.seq = @ + 1, !.envelopes = F, !.history = G,
                          !.lastHid = tx.lastHid + 2, !.known = K]
      /\ tally' = Counters(CountWith(u), BytesWith(u), tally.versions, tally.versionBytes)
      /\ UNCHANGED <<db, usage, window, pc, req, reply>>
  BY DEF ApplyUpload, Prior
<1>2. /\ u \in Upload /\ u = tx.uploads[1] /\ 1 \in DOMAIN tx.uploads
      /\ Tail(tx.uploads) \in Seq(Upload)
      /\ \A i \in DOMAIN Tail(tx.uploads) :
            i + 1 \in DOMAIN tx.uploads /\ Tail(tx.uploads)[i] = tx.uploads[i + 1]
  BY <1>1, RoundFacts, TailUploads
<1>3. /\ u.slot \in Slots /\ u.id \in Ids /\ u.slot = SlotOf[u.id]
      /\ new \in Row /\ new.slot = u.slot /\ new.seq = tx.seq + 1 /\ new.id = u.id
      /\ saved \in HistoryRow /\ saved.slot = u.slot /\ saved.hid = tx.lastHid + 2
      /\ saved.id = u.id
  BY <1>1, <1>2, RoundFacts DEF Upload, Row, HistoryRow
<1>4. \A e \in tx.envelopes : e.id # u.id
  BY <1>1, <1>2, RoundFacts DEF KnownRepeats
<1> HIDE DEF u
<1>5. /\ B \in SUBSET HistoryRow /\ IsFiniteSet(B) /\ SoundHistory(B, tx.lastHid + 1)
      /\ \A s \in Slots \ {u.slot} : OfSlots(B, {s}) = OfSlots(tx.history, {s})
  BY <1>1, <1>2, RoundFacts, HistoryBeforeSound
<1> HIDE DEF B, new, saved
<1>6. /\ SoundRows(F, G, tx.seq + 1, tx.lastHid + 2)
      /\ Cardinality(F) = IF P = {} THEN Cardinality(tx.envelopes) + 1 ELSE Cardinality(tx.envelopes)
  <2>1. /\ tx.envelopes \in SUBSET Row /\ tx.history \in SUBSET HistoryRow
        /\ tx.seq \in Nat /\ tx.lastHid \in Nat
        /\ Numbered(tx.envelopes, tx.seq) /\ RowsNumbered(tx.envelopes)
        /\ IsFiniteSet(tx.envelopes)
        /\ LiveIsNewest(tx.envelopes, tx.history) /\ NoneLeftBehind(tx.envelopes, tx.history)
        /\ \A e \in tx.envelopes : e.slot = SlotOf[e.id]
    BY <1>1, RoundFacts DEF SoundRows
  <2>2. Numbered(F, tx.seq + 1)
    BY <1>3, <1>4, <2>1, UploadNumbered
  <2>3. /\ IsFiniteSet(F)
        /\ Cardinality(F) =
             IF P = {} THEN Cardinality(tx.envelopes) + 1 ELSE Cardinality(tx.envelopes)
    BY <1>3, <1>4, <2>1, UploadCount
  <2>4. \A h \in B : h.hid \in Nat /\ h.hid <= tx.lastHid + 1
    BY <1>5 DEF SoundHistory, HistoryRow
  <2>5. SoundHistory(G, tx.lastHid + 2) /\ IsFiniteSet(G)
    BY <1>3, <1>5, <2>1, <2>4, FS_AddElement DEF SoundHistory
  <2>6. \A h \in B : h.hid < saved.hid
    BY <1>3, <2>1, <2>4
  <2>7. LiveIsNewest(F, G) /\ NoneLeftBehind(F, G)
    BY <1>3, <1>5, <2>1, <2>6, UploadNewest
  <2>8. \A e \in F : e.slot = SlotOf[e.id]
    BY <1>3, <2>1
  <2> QED
    BY <2>2, <2>3, <2>5, <2>7, <2>8 DEF SoundRows
<1>7. /\ F \in SUBSET Row /\ G \in SUBSET HistoryRow /\ K \in SUBSET Ids
  BY <1>1, <1>3, <1>5, RoundFacts DEF IInv, TypeOK
<1>8. \A s \in Slots \ {u.slot} :
        OfSlots(F, {s}) = OfSlots(tx.envelopes, {s}) /\ OfSlots(G, {s}) = OfSlots(tx.history, {s})
  BY <1>3, <1>5 DEF OfSlots
<1>9. \A e \in F : e.id = u.id \/ (e \in tx.envelopes /\ (e.id \in tx.known => e.id \in K))
  BY <1>1, <1>3, RoundFacts DEF RowsNumbered, OfSlots
<1>10. u.id \in K
  OBVIOUS
<1>11. CountWith(u) = Cardinality(F)
  BY <1>1, <1>6, RoundFacts DEF CountWith, Prior
<1> HIDE DEF F, G, K, P
<1>12. /\ tx'.envelopes = F /\ tx'.history = G /\ tx'.seq = tx.seq + 1
       /\ tx'.lastHid = tx.lastHid + 2 /\ tx'.known = K /\ tx'.older = tx.older
       /\ tx'.uploads = Tail(tx.uploads) /\ tx'.deletions = tx.deletions
       /\ tally'.count = CountWith(u) /\ tally'.versions = tally.versions
  BY <1>1 DEF IInv, TypeOK, Counters
<1>13. TypeOK'
  <2>1. tally'.count \in Nat /\ tally'.versions \in Int
    BY <1>6, <1>11, <1>12, FS_CardinalityType DEF IInv, TypeOK, SoundRows
  <2>2. tx' \in [ envelopes : SUBSET Row, history : SUBSET HistoryRow, lastHid : Nat, seq : Nat,
                  known : SUBSET Ids, older : SUBSET HistoryRow, deletions : SUBSET Deletion,
                  uploads : Seq(Upload) ]
    <3>1. tx \in [ envelopes : SUBSET Row, history : SUBSET HistoryRow, lastHid : Nat, seq : Nat,
                   known : SUBSET Ids, older : SUBSET HistoryRow, deletions : SUBSET Deletion,
                   uploads : Seq(Upload) ]
      BY DEF IInv, TypeOK
    <3>2. tx.seq + 1 \in Nat /\ tx.lastHid + 2 \in Nat
      BY <3>1
    <3>3. Tail(tx.uploads) \in Seq(Upload)
      BY <1>2
    <3> QED
      BY <1>1, <1>7, <3>1, <3>2, <3>3
  <2> QED
    BY <1>1, <2>1, <2>2 DEF IInv, TypeOK
<1>14. KnownRepeats'
  BY <1>1, <1>2, <1>9, <1>10, <1>12, RoundFacts DEF KnownRepeats
<1>15. OthersUntouched'
  <2>1. OthersUntouched /\ u.slot \in TouchedSlots(req.batch)
    BY <1>1, <1>2, RoundFacts DEF OthersUntouched
  <2>2. req' = req /\ db' = db
    BY <1>1
  <2>3. \A s \in Slots \ TouchedSlots(req.batch) :
          /\ OfSlots(F, {s}) = OfSlots(db.envelopes, {s})
          /\ OfSlots(G, {s}) = OfSlots(db.history, {s})
    BY <1>8, <2>1 DEF OthersUntouched
  <2>4. \A i \in DOMAIN Tail(tx.uploads) : Tail(tx.uploads)[i].slot \in TouchedSlots(req.batch)
    BY <1>2, <2>1 DEF OthersUntouched
  <2>5. \A d \in tx.deletions : d.slot \in TouchedSlots(req.batch)
    BY <2>1 DEF OthersUntouched
  <2> QED
    BY <1>12, <2>2, <2>3, <2>4, <2>5 DEF OthersUntouched
<1>16. RoundInv'
  BY <1>1, <1>6, <1>11, <1>12, <1>14, <1>15 DEF IInv, RoundInv, CountsMatchRows, Idle
<1> QED
  BY <1>13, <1>16 DEF IInv

\* Settling the history leaves the older versions of the records a round has
\* not touched as they are in the account.
LEMMA OlderOfOthers ==
    ASSUME IInv, pc = "upload"
    PROVE  LET slots == TouchedSlots(req.batch)
               O == OlderVersions(db.envelopes, db.history)
               Q == OlderVersions(tx.envelopes, WindowOf(tx.history, slots, window)) IN
           O \ OfSlots(O, slots) = Q \ OfSlots(Q, slots)
<1> DEFINE slots == TouchedSlots(req.batch)
           kept == WindowOf(tx.history, slots, window)
<1>1. /\ tx.envelopes \in SUBSET Row /\ tx.history \in SUBSET HistoryRow /\ OthersUntouched
      /\ db.envelopes \in SUBSET Row /\ db.history \in SUBSET HistoryRow
  BY RoundFacts DEF IInv, TypeOK
<1>2. \A h \in HistoryRow : h.slot \in Slots
  BY DEF HistoryRow
<1>3. kept \in SUBSET HistoryRow
  BY <1>1 DEF WindowOf
<1>4. \A h \in HistoryRow : h.slot \notin slots => (h \in kept <=> h \in db.history)
  BY <1>1, <1>2 DEF OthersUntouched, OfSlots, WindowOf
<1>5. \A h \in HistoryRow, e \in Row :
        e.slot = h.slot /\ h.slot \notin slots => (e \in tx.envelopes <=> e \in db.envelopes)
  BY <1>1, <1>2 DEF OthersUntouched, OfSlots
<1> HIDE DEF slots, kept
<1>6. LET O == OlderVersions(db.envelopes, db.history)
          Q == OlderVersions(tx.envelopes, kept) IN
      O \ OfSlots(O, slots) = Q \ OfSlots(Q, slots)
  BY <1>1, <1>3, <1>4, <1>5 DEF OfSlots, OlderVersions
<1> QED
  BY <1>6 DEF slots, kept

\* The window on the touched records, and the count of older versions it leaves.
LEMMA SettleHistoryInv == ASSUME IInv, SettleHistory PROVE IInv'
<1> DEFINE slots == TouchedSlots(req.batch)
           kept == WindowOf(tx.history, slots, window)
           older == OfSlots(OlderVersions(tx.envelopes, kept), slots)
<1>1. /\ pc = "upload" /\ pc' = "evict" /\ tx' = [tx EXCEPT !.history = kept]
      /\ tally' = Counters(tally.count, tally.bytes,
                           tally.versions + Cardinality(older) - Cardinality(tx.older),
                           tally.versionBytes + BytesOf(older) - BytesOf(tx.older))
      /\ UNCHANGED <<db, usage, window, req, reply>>
  BY DEF SettleHistory
<1>2. /\ window \in Nat \ {0}
      /\ db.envelopes \in SUBSET Row /\ db.history \in SUBSET HistoryRow
      /\ IsFiniteSet(db.history)
  BY WindowAssumption DEF IInv, TypeOK, RoundInv, SoundRows
<1>3. SoundRows(tx.envelopes, kept, tx.seq, tx.lastHid)
  BY <1>1, <1>2, RoundFacts, WindowSound
<1>4. kept \in SUBSET tx.history /\ kept \in SUBSET HistoryRow /\ IsFiniteSet(kept)
  BY <1>1, <1>3, RoundFacts DEF WindowOf, SoundRows
<1>5. LET O == OlderVersions(db.envelopes, db.history)
          Q == OlderVersions(tx.envelopes, kept) IN
      O \ OfSlots(O, slots) = Q \ OfSlots(Q, slots)
  BY <1>1, OlderOfOthers
<1>6. tx.older = OfSlots(OlderVersions(db.envelopes, db.history), slots)
      /\ tally.versions = Cardinality(OlderVersions(db.envelopes, db.history))
  BY <1>1 DEF IInv, RoundInv, CountsMatchRows, Idle
<1> HIDE DEF kept, slots
<1>7. Cardinality(OlderVersions(tx.envelopes, kept)) =
         Cardinality(OlderVersions(db.envelopes, db.history))
         + Cardinality(older)
         - Cardinality(OfSlots(OlderVersions(db.envelopes, db.history), slots))
  <2> DEFINE O == OlderVersions(db.envelopes, db.history)
             Q == OlderVersions(tx.envelopes, kept)
             I == OfSlots(O, slots)
             J == OfSlots(Q, slots)
  <2>1. O \ I = Q \ J
    BY <1>5
  <2>2. O \in SUBSET db.history /\ Q \in SUBSET kept /\ I \in SUBSET O /\ J \in SUBSET Q
    BY DEF OlderVersions, OfSlots
  <2>3. IsFiniteSet(O) /\ IsFiniteSet(Q)
    BY <1>2, <1>4, <2>2, FS_Subset
  <2> HIDE DEF O, Q, I, J
  <2>4. /\ Cardinality(O \ I) = Cardinality(O) - Cardinality(I)
        /\ Cardinality(O) \in Nat /\ Cardinality(I) \in Nat
    BY <2>2, <2>3, PartCount
  <2>5. /\ Cardinality(Q \ J) = Cardinality(Q) - Cardinality(J)
        /\ Cardinality(Q) \in Nat /\ Cardinality(J) \in Nat
    BY <2>2, <2>3, PartCount
  <2>6. Cardinality(Q) - Cardinality(J) = Cardinality(O) - Cardinality(I)
    BY <2>1, <2>4, <2>5
  <2>7. Cardinality(Q) = Cardinality(O) + Cardinality(J) - Cardinality(I)
    BY <2>4, <2>5, <2>6
  <2> QED
    BY <2>7 DEF O, Q, I, J
<1>8. IsFiniteSet(OlderVersions(tx.envelopes, kept))
  BY <1>4, FS_Subset DEF OlderVersions
<1>9. Cardinality(OlderVersions(tx.envelopes, kept)) \in Nat
  BY <1>8, FS_CardinalityType
<1> HIDE DEF older
<1>10. /\ tx'.envelopes = tx.envelopes /\ tx'.history = kept /\ tx'.seq = tx.seq
       /\ tx'.lastHid = tx.lastHid /\ tx'.known = tx.known /\ tx'.uploads = tx.uploads
       /\ tally'.count = tally.count
       /\ tally'.versions = Cardinality(OlderVersions(tx.envelopes, kept))
  BY <1>1, <1>6, <1>7 DEF IInv, TypeOK, Counters
<1>11. TypeOK'
  <2>1. tx' \in [ envelopes : SUBSET Row, history : SUBSET HistoryRow, lastHid : Nat, seq : Nat,
                  known : SUBSET Ids, older : SUBSET HistoryRow, deletions : SUBSET Deletion,
                  uploads : Seq(Upload) ]
    BY <1>1, <1>4 DEF IInv, TypeOK
  <2>2. tally'.count \in Nat /\ tally'.versions \in Int
    BY <1>9, <1>10 DEF IInv, TypeOK
  <2>3. pc' \in {"idle", "delete", "upload", "evict"}
    BY <1>1
  <2>4. UNCHANGED <<db, usage, window, req, reply>>
    BY <1>1
  <2> QED
    BY <2>1, <2>2, <2>3, <2>4 DEF IInv, TypeOK
<1>12. KnownRepeats'
  BY <1>1, <1>10, RoundFacts DEF KnownRepeats
<1>13. tally'.count = Cardinality(tx'.envelopes)
  BY <1>1, <1>10, RoundFacts
<1>14. RoundInv'
  BY <1>1, <1>3, <1>10, <1>12, <1>13 DEF IInv, RoundInv, CountsMatchRows, Idle
<1> QED
  BY <1>11, <1>14 DEF IInv

\* Evicting the oldest version takes one from the count of versions and no live copy.
LEMMA EvictVersionInv == ASSUME IInv, EvictVersion PROVE IInv'
<1> DEFINE older == OlderVersions(tx.envelopes, tx.history)
           gone == Oldest(older)
<1>1. /\ pc = "evict" /\ gone # {} /\ tx' = [tx EXCEPT !.history = @ \ gone]
      /\ tally' = Counters(tally.count, tally.bytes,
                           tally.versions - 1, tally.versionBytes - BytesOf(gone))
      /\ UNCHANGED <<db, usage, window, pc, req, reply>>
  BY DEF EvictVersion
<1>2. older \in SUBSET tx.history /\ SoundHistory(tx.history, tx.lastHid)
  BY <1>1, RoundFacts DEF OlderVersions, SoundRows
<1>3. PICK h \in older : gone = {h}
  BY <1>1, <1>2, RoundFacts, OldestIsOne
<1>4. /\ SoundRows(tx.envelopes, tx.history \ {h}, tx.seq, tx.lastHid)
      /\ OlderVersions(tx.envelopes, tx.history \ {h}) = older \ {h}
  <2>1. /\ tx.envelopes \in SUBSET Row /\ tx.history \in SUBSET HistoryRow
        /\ tx.seq \in Nat /\ tx.lastHid \in Nat
        /\ SoundRows(tx.envelopes, tx.history, tx.seq, tx.lastHid)
    BY <1>1, RoundFacts
  <2>2. h \in OlderVersions(tx.envelopes, tx.history)
    OBVIOUS
  <2> QED
    BY <2>1, <2>2, EvictionSound, ZenonT(60)
<1>5. IsFiniteSet(older)
  BY <1>1, <1>2, RoundFacts, FS_Subset
<1>6. Cardinality(older \ {h}) = Cardinality(older) - 1
  BY <1>5, FS_RemoveElement
<1>7. tally.versions = Cardinality(older)
  BY <1>1 DEF IInv, RoundInv, Idle
<1> HIDE DEF older, gone
<1>8. /\ tx'.envelopes = tx.envelopes /\ tx'.history = tx.history \ {h} /\ tx'.seq = tx.seq
      /\ tx'.lastHid = tx.lastHid /\ tx'.known = tx.known /\ tx'.uploads = tx.uploads
      /\ tally'.count = tally.count /\ tally'.versions = tally.versions - 1
  BY <1>1, <1>3 DEF IInv, TypeOK, Counters
<1>9. TypeOK'
  <2>1. tx' \in [ envelopes : SUBSET Row, history : SUBSET HistoryRow, lastHid : Nat, seq : Nat,
                  known : SUBSET Ids, older : SUBSET HistoryRow, deletions : SUBSET Deletion,
                  uploads : Seq(Upload) ]
    BY <1>1 DEF IInv, TypeOK
  <2>2. tally'.count \in Nat /\ tally'.versions \in Int
    BY <1>8 DEF IInv, TypeOK
  <2> QED
    BY <1>1, <2>1, <2>2 DEF IInv, TypeOK
<1>10. KnownRepeats'
  BY <1>1, <1>8, RoundFacts DEF KnownRepeats
<1>11. tally'.versions = Cardinality(OlderVersions(tx'.envelopes, tx'.history))
  BY <1>4, <1>6, <1>7, <1>8
<1>12. tally'.count = Cardinality(tx'.envelopes)
  BY <1>1, <1>8, RoundFacts
<1>13. RoundInv'
  BY <1>1, <1>4, <1>8, <1>10, <1>11, <1>12 DEF IInv, RoundInv, CountsMatchRows, Idle
<1> QED
  BY <1>9, <1>13 DEF IInv

\* The working copy becomes the account's.
LEMMA CommitInv == ASSUME IInv, Commit PROVE IInv'
<1>1. /\ pc = "evict" /\ EndRound /\ window' = window
      /\ db' = [db EXCEPT !.lastHid = tx.lastHid, !.nextSeq = tx.seq,
                          !.envelopes = tx.envelopes, !.history = tx.history]
      /\ usage' = tally /\ reply' = DoneReply(tx.seq, req.cursor)
  BY DEF Commit
<1>2. tally.versions = Cardinality(OlderVersions(tx.envelopes, tx.history))
  BY <1>1 DEF IInv, RoundInv, Idle
<1>3. IsFiniteSet(OlderVersions(tx.envelopes, tx.history))
  BY <1>1, RoundFacts, FS_Subset DEF OlderVersions
<1>4. tally.versions \in Nat
  BY <1>2, <1>3, FS_CardinalityType
<1>5. /\ db'.envelopes = tx.envelopes /\ db'.history = tx.history
      /\ db'.nextSeq = tx.seq /\ db'.lastHid = tx.lastHid
  BY <1>1 DEF IInv, TypeOK
<1>6. TypeOK'
  <2>1. db' \in [ exists : BOOLEAN, retired : BOOLEAN, quota : Quotas, nextSeq : Nat,
                  envelopes : SUBSET Row, history : SUBSET HistoryRow, lastHid : Nat ]
    BY <1>1, RoundFacts DEF IInv, TypeOK
  <2>2. usage'.count \in Nat /\ usage'.versions \in Nat
    BY <1>1, <1>4, RoundFacts
  <2>3. reply'.kind = "done"
    BY <1>1 DEF DoneReply, Reply
  <2> QED
    BY <1>1, <2>1, <2>2, <2>3 DEF IInv, TypeOK, EndRound, NoTx, NoRound, NoUsage, Counters, Batch
<1>7. RoundInv'
  BY <1>1, <1>2, <1>5, RoundFacts DEF RoundInv, CountsMatchRows, EndRound, Idle
<1> QED
  BY <1>6, <1>7 DEF IInv

-----------------------------------------------------------------------------
(* Bytes: the sums kept beside the counts.                                  *)

\* The bytes of a part and of the rest make up those of the whole.
LEMMA BytesSplit ==
    ASSUME NEW S, IsFiniteSet(S), \A r \in S : r.id \in Ids, NEW T \in SUBSET S
    PROVE  /\ BytesOf(S) = BytesOf(S \ T) + BytesOf(T)
           /\ BytesOf(S) \in Nat /\ BytesOf(S \ T) \in Nat /\ BytesOf(T) \in Nat
<1> DEFINE w == [r \in S |-> Size[r.id]]
<1>1. \A r \in S : w[r] \in Nat
  BY VersionAssumption
<1>2. \A U \in SUBSET S : BytesIn(U) = Units(U, w)
  BY DEF BytesIn, Units
<1> HIDE DEF w
<1>3. /\ Cardinality(Units(S, w)) = Cardinality(Units(S \ T, w)) + Cardinality(Units(T, w))
      /\ Cardinality(Units(S, w)) \in Nat
      /\ Cardinality(Units(S \ T, w)) \in Nat /\ Cardinality(Units(T, w)) \in Nat
  BY <1>1, UnitsSplit
<1>4. S \in SUBSET S /\ S \ T \in SUBSET S
  OBVIOUS
<1> QED
  BY <1>2, <1>3, <1>4 DEF BytesOf

\* One row counts for its ciphertext, none for nothing.
LEMMA BytesOne ==
    ASSUME NEW r, r.id \in Ids
    PROVE  BytesOf({r}) = Size[r.id] /\ Size[r.id] \in Nat /\ BytesOf({}) = 0
<1> DEFINE w == [x \in {r} |-> Size[x.id]]
<1>1. w[r] = Size[r.id] /\ Size[r.id] \in Nat
  BY VersionAssumption
<1>2. BytesIn({r}) = Units({r}, w) /\ BytesIn({}) = Units({}, w)
  BY DEF BytesIn, Units
<1> HIDE DEF w
<1>3. Cardinality(Units({r}, w)) = w[r] /\ Cardinality(Units({}, w)) = 0
  BY <1>1, UnitsOne
<1> QED
  BY <1>1, <1>2, <1>3 DEF BytesOf

\* A row put in the place of others counts instead of them.
LEMMA BytesReplaced ==
    ASSUME NEW S, IsFiniteSet(S), \A r \in S : r.id \in Ids, NEW T \in SUBSET S,
           NEW new, new.id \in Ids, new \notin S
    PROVE  BytesOf((S \ T) \cup {new}) = BytesOf(S) + Size[new.id] - BytesOf(T)
<1> DEFINE U == (S \ T) \cup {new}
<1>1. IsFiniteSet(U)
  BY FS_Subset, FS_AddElement
<1>2. \A r \in U : r.id \in Ids
  OBVIOUS
<1>3. U \ {new} = S \ T /\ {new} \in SUBSET U
  OBVIOUS
<1> HIDE DEF U
<1>4. BytesOf(U) = BytesOf(S \ T) + BytesOf({new})
  BY <1>1, <1>2, <1>3, BytesSplit
<1>5. /\ BytesOf(S) = BytesOf(S \ T) + BytesOf(T)
      /\ BytesOf(S \ T) \in Nat /\ BytesOf(T) \in Nat
  BY BytesSplit
<1>6. BytesOf({new}) = Size[new.id] /\ Size[new.id] \in Nat
  BY BytesOne
<1> QED
  BY <1>4, <1>5, <1>6 DEF U

\* The bytes of finitely many rows are a number.
LEMMA BytesType ==
    ASSUME NEW S, IsFiniteSet(S), \A r \in S : r.id \in Ids
    PROVE  BytesOf(S) \in Nat
BY BytesSplit

\* One row fewer or more, at so many bytes a row.
LEMMA RowOverhead ==
    ASSUME NEW n \in Int, NEW k \in Int
    PROVE  /\ (n - 1) * k = n * k - k /\ (n + 1) * k = n * k + k
           /\ n * k \in Int
OBVIOUS

\* The invariant the byte sums and the quota need beside IInv.
UsageInv == BytesInv /\ RoomInv

\* What a round in progress knows of its sums.
LEMMA UsageFacts ==
    ASSUME IInv, UsageInv, pc # "idle"
    PROVE  /\ tally.bytes = BytesOf(tx.envelopes) /\ tally.bytes \in Nat
           /\ pc # "evict" => tally.versionBytes = usage.versionBytes
           /\ pc = "evict" =>
                tally.versionBytes = BytesOf(OlderVersions(tx.envelopes, tx.history))
           /\ LiveBytes(tally) <= LargerOf(db.quota, LiveBytes(usage))
           /\ LiveBytes(usage) \in Int /\ LiveBytes(tally) \in Int
           /\ db.quota \in Nat /\ Overhead \in Nat
           /\ \A e \in tx.envelopes : e.id \in Ids
           /\ \A h \in tx.history : h.id \in Ids
<1>1. /\ IsFiniteSet(db.envelopes) /\ \A e \in db.envelopes : e.id \in Ids
  BY DEF IInv, TypeOK, RoundInv, SoundRows, Row
<1>2. /\ \A e \in tx.envelopes : e.id \in Ids
      /\ \A h \in tx.history : h.id \in Ids
  BY RoundFacts DEF Row, HistoryRow
<1>3. usage.bytes \in Nat /\ usage.count \in Nat
  BY <1>1, BytesType DEF IInv, TypeOK, UsageInv, BytesInv, BytesMatchRows
<1>4. tally.bytes = BytesOf(tx.envelopes) /\ tally.bytes \in Nat /\ tally.count \in Nat
  BY <1>2, RoundFacts, BytesType DEF UsageInv, BytesInv, Idle
<1>5. db.quota \in Nat /\ Overhead \in Nat
  BY QuotaAssumption DEF IInv, TypeOK
<1>6. LiveBytes(usage) \in Int /\ LiveBytes(tally) \in Int
  BY <1>3, <1>4, <1>5 DEF LiveBytes, StorageBytes
<1> QED
  BY <1>2, <1>4, <1>5, <1>6 DEF UsageInv, BytesInv, RoomInv, Idle

\* A step between rounds that leaves the rows and the counters as they were.
LEMMA SameUsage ==
    ASSUME UsageInv, pc' = "idle", usage' = usage,
           db'.envelopes = db.envelopes, db'.history = db.history
    PROVE  UsageInv'
BY DEF UsageInv, BytesInv, BytesMatchRows, RoomInv, Idle

\* A step of a round that leaves its rows and its counters as they were.
LEMMA SameTally ==
    ASSUME UsageInv, pc \in {"delete", "upload"}, pc' \in {"delete", "upload"},
           tx'.envelopes = tx.envelopes,
           UNCHANGED <<db, usage, tally>>
    PROVE  UsageInv'
BY DEF UsageInv, BytesInv, BytesMatchRows, RoomInv, Idle

\* An account without rows stores nothing.
LEMMA DropAccountUsage == ASSUME UsageInv, IInv, DropAccount PROVE UsageInv'
<1>1. db'.envelopes = {} /\ db'.history = {} /\ pc' = "idle" /\ usage' = NoUsage
  BY DEF DropAccount, IInv, TypeOK, Idle
<1>2. OlderVersions({}, {}) = {} /\ BytesOf({}) = 0
  <2>1. BytesIn({}) = {}
    BY DEF BytesIn
  <2> QED
    BY <2>1, FS_EmptySet DEF OlderVersions, BytesOf
<1> QED
  BY <1>1, <1>2 DEF UsageInv, BytesInv, BytesMatchRows, RoomInv, Idle, NoUsage, Counters

\* The daily upkeep counts the bytes of what the window leaves.
LEMMA ReclaimUsage == ASSUME UsageInv, IInv, ReclaimStorage PROVE UsageInv'
<1> DEFINE kept == WindowOf(db.history, Slots, window)
           older == OlderVersions(db.envelopes, kept)
<1>1. /\ db'.envelopes = db.envelopes /\ db'.history = kept /\ pc' = "idle"
      /\ usage' = Counters(usage.count, usage.bytes, Cardinality(older), BytesOf(older))
  BY DEF ReclaimStorage, IInv, TypeOK, Idle, round
<1> HIDE DEF kept
<1> QED
  BY <1>1 DEF UsageInv, BytesInv, BytesMatchRows, RoomInv, Idle, Counters

\* The transaction starts from the committed sums.
LEMMA BeginUsage ==
    ASSUME UsageInv, IInv, NEW cursor \in Cursors, NEW batch \in Batches,
           BeginWrites(cursor, batch)
    PROVE  UsageInv'
<1>1. /\ tx'.envelopes = db.envelopes /\ tally' = usage /\ pc' = "delete"
      /\ db' = db /\ usage' = usage
  BY DEF BeginWrites
<1>2. /\ IsFiniteSet(db.envelopes) /\ \A e \in db.envelopes : e.id \in Ids
  BY DEF IInv, TypeOK, RoundInv, SoundRows, Row
<1>3. usage.bytes \in Nat /\ usage.count \in Nat /\ db.quota \in Nat /\ Overhead \in Nat
  BY <1>2, BytesType, QuotaAssumption DEF IInv, TypeOK, UsageInv, BytesInv, BytesMatchRows
<1>4. LiveBytes(usage) \in Int
  BY <1>3 DEF LiveBytes, StorageBytes
<1>5. LiveBytes(usage) <= LargerOf(db.quota, LiveBytes(usage))
  BY <1>3, <1>4 DEF LargerOf
<1>6. BytesInv'
  BY <1>1 DEF UsageInv, BytesInv, BytesMatchRows
<1>7. RoomInv'
  BY <1>1, <1>5 DEF RoomInv
<1> QED
  BY <1>6, <1>7 DEF UsageInv

\* A deletion takes the bytes of one row, and room is made.
LEMMA ApplyDeletionUsage ==
    ASSUME UsageInv, IInv, NEW d \in tx.deletions, ApplyDeletion(d)
    PROVE  UsageInv'
<1> DEFINE F == tx.envelopes \ Deleted(tx.envelopes, {d})
<1>1. /\ pc = "delete" /\ pc' = "delete" /\ Deleted(tx.envelopes, {d}) # {}
      /\ tally' = Counters(tally.count - 1, tally.bytes - Size[d.id],
                           tally.versions, tally.versionBytes)
      /\ db' = db /\ usage' = usage
  BY DEF ApplyDeletion
<1>2. tx'.envelopes = F
  BY DEF ApplyDeletion, IInv, TypeOK
<1>3. d \in Deletion
  BY DEF IInv, TypeOK
<1>4. PICK r \in tx.envelopes : Deleted(tx.envelopes, {d}) = {r} /\ r.id = d.id
  BY <1>1, <1>3, RoundFacts, DeletedIsOne
<1>5. /\ BytesOf(tx.envelopes) = BytesOf(F) + BytesOf({r})
      /\ BytesOf(F) \in Nat /\ BytesOf({r}) \in Nat
  BY <1>1, <1>4, RoundFacts, UsageFacts, BytesSplit
<1>6. BytesOf({r}) = Size[d.id]
  BY <1>1, <1>4, UsageFacts, BytesOne
<1> HIDE DEF F
<1>7. tally'.bytes = BytesOf(F) /\ Size[d.id] \in Nat
  BY <1>1, <1>5, <1>6, UsageFacts DEF Counters
<1>8. LiveBytes(tally') <= LiveBytes(tally)
  <2>1. /\ tally'.count = tally.count - 1 /\ tally'.bytes = tally.bytes - Size[d.id]
        /\ tally.count \in Int /\ tally.bytes \in Int /\ Overhead \in Nat
    BY <1>1, RoundFacts, UsageFacts DEF Counters
  <2>2. (tally.count - 1) * Overhead = tally.count * Overhead - Overhead
        /\ tally.count * Overhead \in Int
    BY <2>1, RowOverhead
  <2> QED
    BY <1>7, <2>1, <2>2 DEF LiveBytes, StorageBytes
<1>9. LiveBytes(tally') \in Int
  BY <1>1, <1>5, <1>7, RoundFacts, UsageFacts DEF LiveBytes, StorageBytes, Counters
<1>10. BytesInv'
  BY <1>1, <1>2, <1>7 DEF UsageInv, BytesInv, BytesMatchRows, Idle, Counters
<1>11. RoomInv'
  <2>1. LiveBytes(tally) <= LargerOf(db.quota, LiveBytes(usage))
    BY <1>1, UsageFacts
  <2>2. LiveBytes(tally') <= LargerOf(db.quota, LiveBytes(usage))
    BY <1>1, <1>8, <1>9, <2>1, UsageFacts DEF LargerOf
  <2> QED
    BY <1>1, <2>2 DEF RoomInv
<1> QED
  BY <1>10, <1>11 DEF UsageInv

\* An upload counts its bytes for those of the row it replaces, and is let
\* through only if the live records fit the quota or shrink.
LEMMA ApplyUploadUsage == ASSUME UsageInv, IInv, ApplyUpload PROVE UsageInv'
<1> DEFINE u == Head(tx.uploads)
           new == [slot |-> u.slot, seq |-> tx.seq + 1, id |-> u.id]
           F == (tx.envelopes \ Prior(u)) \cup {new}
<1>1. /\ pc = "upload" /\ pc' = "upload" /\ tx.uploads # <<>> /\ u.id \notin tx.known
      /\ ~OutgrowsQuota(u)
      /\ tally' = Counters(CountWith(u), BytesWith(u), tally.versions, tally.versionBytes)
      /\ db' = db /\ usage' = usage
  BY DEF ApplyUpload
<1>2. tx'.envelopes = F
  BY DEF ApplyUpload, IInv, TypeOK
<1>3. u \in Upload /\ u = tx.uploads[1] /\ 1 \in DOMAIN tx.uploads
  BY <1>1, RoundFacts, TailUploads
<1>4. u.id \in Ids /\ new.id = u.id /\ new \notin tx.envelopes
  <2>1. \A e \in tx.envelopes : e.id # u.id
    BY <1>1, <1>3, RoundFacts DEF KnownRepeats
  <2> QED
    BY <1>3, <2>1 DEF Upload
<1> HIDE DEF u
<1>5. Prior(u) \in SUBSET tx.envelopes
  BY DEF Prior, OfSlots
<1> HIDE DEF new
<1>6. BytesOf(F) = BytesOf(tx.envelopes) + Size[u.id] - BytesOf(Prior(u))
  BY <1>1, <1>4, <1>5, RoundFacts, UsageFacts, BytesReplaced
<1>7. IsFiniteSet(F) /\ \A r \in F : r.id \in Ids
  <2>1. IsFiniteSet(tx.envelopes) /\ \A e \in tx.envelopes : e.id \in Ids
    BY <1>1, RoundFacts, UsageFacts
  <2>2. IsFiniteSet(tx.envelopes \ Prior(u))
    BY <2>1, FS_Subset
  <2>3. IsFiniteSet(F)
    BY <2>2, FS_AddElement
  <2> QED
    BY <1>4, <2>1, <2>3
<1>8. BytesOf(F) \in Nat
  BY <1>7, BytesType
<1> HIDE DEF F
<1>9. tally'.bytes = BytesOf(F) /\ tally'.bytes = BytesWith(u)
  BY <1>1, <1>6, UsageFacts DEF Counters, BytesWith
<1>10. tally'.count = CountWith(u) /\ tally'.count \in Nat
  BY <1>1, RoundFacts DEF Counters, CountWith
<1>11. LiveBytes(tally') \in Int /\ LiveBytes(tally') = StorageBytes(CountWith(u), BytesWith(u))
  BY <1>1, <1>8, <1>9, <1>10, UsageFacts DEF LiveBytes, StorageBytes
<1>12. LiveBytes(tally') <= LargerOf(db.quota, LiveBytes(usage))
  <2>1. LiveBytes(tally') <= db.quota \/ LiveBytes(tally') < LiveBytes(tally)
    BY <1>1, <1>11, UsageFacts DEF OutgrowsQuota, LiveBytes
  <2>2. LiveBytes(tally) <= LargerOf(db.quota, LiveBytes(usage))
    BY <1>1, UsageFacts
  <2> QED
    BY <1>1, <1>11, <2>1, <2>2, UsageFacts DEF LargerOf
<1>13. BytesInv'
  BY <1>1, <1>2, <1>9 DEF UsageInv, BytesInv, BytesMatchRows, Idle, Counters
<1>14. RoomInv'
  BY <1>1, <1>12 DEF RoomInv
<1> QED
  BY <1>13, <1>14 DEF UsageInv

\* The newest n versions of a record are n at most.
LEMMA WindowLength ==
    ASSUME NEW H \in SUBSET HistoryRow, IsFiniteSet(H), NEW l, SoundHistory(H, l),
           NEW slots, NEW n \in Nat \ {0}, NEW s \in slots
    PROVE  Cardinality(OfSlots(WindowOf(H, slots, n), {s})) <= n
<1> DEFINE K == OfSlots(WindowOf(H, slots, n), {s})
           numbers == { h.hid : h \in K }
<1>1. K \in SUBSET H /\ \A h \in K : h.slot = s /\ Cardinality(NewerVersions(H, h)) < n
  BY DEF OfSlots, WindowOf
<1>2. IsFiniteSet(K)
  BY <1>1, FS_Subset
<1>3. CASE K = {}
  BY <1>3, FS_EmptySet
<1>4. CASE K # {}
  <2>1. numbers \in SUBSET Nat /\ numbers # {}
    BY <1>1, <1>4 DEF HistoryRow
  <2>2. PICK x \in numbers : \A y \in numbers : x <= y
    BY <2>1, LeastNatural
  <2>3. PICK h \in K : h.hid = x
    BY <2>2
  <2>4. \A g \in K \ {h} : g \in NewerVersions(H, h)
    <3>1. ASSUME NEW g \in K \ {h} PROVE g.hid > h.hid
      <4>1. g.hid # h.hid
        BY <1>1 DEF SoundHistory
      <4>2. g.hid \in Nat /\ h.hid \in Nat
        BY <1>1 DEF HistoryRow
      <4>3. g.hid >= h.hid
        BY <2>2, <2>3, <4>2
      <4> QED
        BY <4>1, <4>2, <4>3
    <3> QED
      BY <1>1, <3>1 DEF NewerVersions
  <2>5. NewerVersions(H, h) \in SUBSET H
    BY DEF NewerVersions
  <2> HIDE DEF K
  <2>6. /\ IsFiniteSet(NewerVersions(H, h))
        /\ Cardinality(K \ {h}) <= Cardinality(NewerVersions(H, h))
    BY <2>4, <2>5, FS_Subset
  <2>7. Cardinality(K \ {h}) = Cardinality(K) - 1 /\ Cardinality(K) \in Nat
    BY <1>2, <2>3, FS_RemoveElement, FS_CardinalityType
  <2>8. Cardinality(NewerVersions(H, h)) \in Nat /\ Cardinality(NewerVersions(H, h)) < n
    BY <1>1, <2>3, <2>6, FS_CardinalityType
  <2> QED
    BY <2>6, <2>7, <2>8 DEF K
<1> QED
  BY <1>3, <1>4

\* Settling the history trims the touched records to the window, leaves the
\* others alone and brings the bytes of older versions up to date.
LEMMA SettleHistoryUsage == ASSUME UsageInv, IInv, SettleHistory PROVE UsageInv'
<1> DEFINE slots == TouchedSlots(req.batch)
           kept == WindowOf(tx.history, slots, window)
           O == OlderVersions(db.envelopes, db.history)
           Q == OlderVersions(tx.envelopes, kept)
           I == OfSlots(O, slots)
           J == OfSlots(Q, slots)
<1>1. /\ pc = "upload" /\ pc' = "evict" /\ req' = req /\ window' = window
      /\ tally' = Counters(tally.count, tally.bytes,
                           tally.versions + Cardinality(J) - Cardinality(tx.older),
                           tally.versionBytes + BytesOf(J) - BytesOf(tx.older))
      /\ db' = db /\ usage' = usage
  BY DEF SettleHistory
<1>2. tx'.envelopes = tx.envelopes /\ tx'.history = kept
  BY DEF SettleHistory, IInv, TypeOK
<1>3. /\ tally.versionBytes = BytesOf(O) /\ tx.older = I
      /\ tally.bytes = BytesOf(tx.envelopes)
  BY <1>1 DEF UsageInv, BytesInv, BytesMatchRows, IInv, RoundInv, Idle
<1>4. O \ I = Q \ J
  BY <1>1, OlderOfOthers
<1>5. /\ IsFiniteSet(O) /\ \A h \in O : h.id \in Ids
  <2>1. O \in SUBSET db.history /\ IsFiniteSet(db.history) /\ db.history \in SUBSET HistoryRow
    BY DEF OlderVersions, IInv, TypeOK, RoundInv, SoundRows
  <2> QED
    BY <2>1, FS_Subset DEF HistoryRow
<1>6. /\ IsFiniteSet(Q) /\ \A h \in Q : h.id \in Ids
  <2>1. Q \in SUBSET tx.history
    BY DEF OlderVersions, WindowOf
  <2> QED
    BY <1>1, <2>1, RoundFacts, UsageFacts, FS_Subset
<1>7. I \in SUBSET O /\ J \in SUBSET Q
  BY DEF OfSlots
<1>8. /\ window \in Nat \ {0} /\ SoundHistory(tx.history, tx.lastHid)
      /\ IsFiniteSet(tx.history) /\ tx.history \in SUBSET HistoryRow
  BY <1>1, RoundFacts, WindowAssumption DEF IInv, TypeOK, SoundRows
<1>9. \A s \in slots : Cardinality(OfSlots(kept, {s})) <= window
  BY <1>8, WindowLength
<1>10. \A s \in Slots \ slots : OfSlots(kept, {s}) = OfSlots(db.history, {s})
  BY <1>1, RoundFacts DEF OthersUntouched, OfSlots, WindowOf
<1>11. /\ tally'.count = tally.count /\ tally'.bytes = tally.bytes
       /\ tally'.versionBytes = tally.versionBytes + BytesOf(J) - BytesOf(tx.older)
  BY <1>1 DEF Counters
<1> HIDE DEF kept, slots, O, Q, I, J
<1>12. BytesOf(O) = BytesOf(O \ I) + BytesOf(I) /\ BytesOf(I) \in Nat /\ BytesOf(O \ I) \in Nat
  BY <1>5, <1>7, BytesSplit
<1>13. BytesOf(Q) = BytesOf(Q \ J) + BytesOf(J) /\ BytesOf(J) \in Nat
  BY <1>6, <1>7, BytesSplit
<1>14. tally'.versionBytes = BytesOf(Q)
  BY <1>3, <1>4, <1>11, <1>12, <1>13
<1>15. BytesInv'
  BY <1>1, <1>2, <1>3, <1>11, <1>14 DEF UsageInv, BytesInv, BytesMatchRows, Idle, Q
<1>16. LiveBytes(tally') <= LargerOf(db.quota, LiveBytes(usage))
  BY <1>1, <1>11, UsageFacts DEF LiveBytes
<1>17. RoomInv'
  BY <1>1, <1>2, <1>9, <1>10, <1>16 DEF RoomInv, slots
<1> QED
  BY <1>15, <1>17 DEF UsageInv

\* A version is evicted only while the account is over its quota with it.
LEMMA EvictVersionUsage == ASSUME UsageInv, IInv, EvictVersion PROVE UsageInv'
<1> DEFINE older == OlderVersions(tx.envelopes, tx.history)
           gone == Oldest(older)
<1>1. /\ pc = "evict" /\ pc' = "evict" /\ gone # {} /\ OverBudget
      /\ req' = req /\ window' = window
      /\ tally' = Counters(tally.count, tally.bytes,
                           tally.versions - 1, tally.versionBytes - BytesOf(gone))
      /\ db' = db /\ usage' = usage
  BY DEF EvictVersion
<1>2. older \in SUBSET tx.history /\ SoundHistory(tx.history, tx.lastHid)
  BY <1>1, RoundFacts DEF OlderVersions, SoundRows
<1>3. PICK h \in older : gone = {h}
  BY <1>1, <1>2, RoundFacts, OldestIsOne
<1>4. tx'.envelopes = tx.envelopes /\ tx'.history = tx.history \ {h}
  BY <1>3 DEF EvictVersion, IInv, TypeOK
<1>5. OlderVersions(tx.envelopes, tx.history \ {h}) = older \ {h}
  <2>1. /\ tx.envelopes \in SUBSET Row /\ tx.history \in SUBSET HistoryRow
        /\ tx.seq \in Nat /\ tx.lastHid \in Nat
        /\ SoundRows(tx.envelopes, tx.history, tx.seq, tx.lastHid)
    BY <1>1, RoundFacts
  <2>2. h \in OlderVersions(tx.envelopes, tx.history)
    OBVIOUS
  <2> QED
    BY <2>1, <2>2, EvictionSound, ZenonT(60)
<1>6. /\ IsFiniteSet(older) /\ \A g \in older : g.id \in Ids
      /\ tally.versionBytes = BytesOf(older) /\ tally.bytes = BytesOf(tx.envelopes)
      /\ tally.versions \in Int /\ tally.bytes \in Int
  <2>1. IsFiniteSet(tx.history) /\ \A g \in tx.history : g.id \in Ids
    BY <1>1, RoundFacts, UsageFacts
  <2>2. IsFiniteSet(older)
    BY <1>2, <2>1, FS_Subset
  <2>3. tally.versionBytes = BytesOf(older) /\ tally.bytes = BytesOf(tx.envelopes)
        /\ tally.bytes \in Int /\ tally.versions \in Int
    BY <1>1, UsageFacts DEF IInv, TypeOK
  <2> QED
    BY <1>2, <2>1, <2>2, <2>3
<1> HIDE DEF gone
<1>7. /\ tally'.count = tally.count /\ tally'.bytes = tally.bytes
      /\ tally'.versions = tally.versions - 1
      /\ tally'.versionBytes = tally.versionBytes - BytesOf({h})
  BY <1>1, <1>3 DEF Counters
<1> HIDE DEF older
<1>8. /\ BytesOf(older) = BytesOf(older \ {h}) + BytesOf({h})
      /\ BytesOf(older) \in Nat /\ BytesOf(older \ {h}) \in Nat
  BY <1>6, BytesSplit
<1>9. h.id \in Ids /\ BytesOf({h}) = Size[h.id] /\ Size[h.id] \in Nat
  BY <1>6, BytesOne
<1>10. BytesInv'
  <2>1. tally'.versionBytes = BytesOf(older \ {h})
    BY <1>6, <1>7, <1>8, <1>9
  <2> QED
    BY <1>1, <1>4, <1>5, <1>6, <1>7, <2>1 DEF UsageInv, BytesInv, BytesMatchRows, Idle
<1>11. LiveBytes(tally') + PastBytes(tally') + Overhead + Size[h.id] > db.quota
  <2>1. (tally.versions - 1) * Overhead = tally.versions * Overhead - Overhead
        /\ tally.versions * Overhead \in Int
    BY <1>1, <1>6, UsageFacts, RowOverhead
  <2>2. LiveBytes(tally') = LiveBytes(tally) /\ LiveBytes(tally) \in Int
    BY <1>1, <1>7, UsageFacts DEF LiveBytes
  <2>3. /\ PastBytes(tally') = PastBytes(tally) - Size[h.id] - Overhead
        /\ PastBytes(tally) \in Int
    BY <1>1, <1>6, <1>7, <1>8, <1>9, <2>1, UsageFacts DEF PastBytes, StorageBytes
  <2>4. LiveBytes(tally) + PastBytes(tally) > db.quota
    BY <1>1 DEF OverBudget
  <2> QED
    BY <1>1, <1>9, <2>2, <2>3, <2>4, UsageFacts
<1>12. LiveBytes(tally') <= LargerOf(db.quota, LiveBytes(usage))
  BY <1>1, <1>7, UsageFacts DEF LiveBytes
<1>13. ASSUME NEW s \in TouchedSlots(req.batch), s \in Slots
       PROVE  Cardinality(OfSlots(tx.history \ {h}, {s})) <= window
  <2>1. Cardinality(OfSlots(tx.history, {s})) <= window /\ window \in Nat
    BY <1>1, <1>13, WindowAssumption DEF UsageInv, RoomInv, Idle, IInv, TypeOK
  <2>2. /\ OfSlots(tx.history \ {h}, {s}) \in SUBSET OfSlots(tx.history, {s})
        /\ OfSlots(tx.history, {s}) \in SUBSET tx.history
    BY DEF OfSlots
  <2>3. IsFiniteSet(OfSlots(tx.history, {s})) /\ IsFiniteSet(OfSlots(tx.history \ {h}, {s}))
    BY <1>1, <2>2, RoundFacts, FS_Subset
  <2>4. Cardinality(OfSlots(tx.history \ {h}, {s})) <= Cardinality(OfSlots(tx.history, {s}))
    BY <2>2, <2>3, FS_Subset
  <2> QED
    BY <2>1, <2>3, <2>4, FS_CardinalityType
<1>14. RoomInv'
  BY <1>1, <1>4, <1>9, <1>11, <1>12, <1>13 DEF RoomInv
<1> QED
  BY <1>10, <1>14 DEF UsageInv

\* The sums of the working copy become the account's.
LEMMA CommitUsage == ASSUME UsageInv, IInv, Commit PROVE UsageInv'
<1>1. /\ pc = "evict" /\ pc' = "idle" /\ usage' = tally
      /\ db'.envelopes = tx.envelopes /\ db'.history = tx.history
  BY DEF Commit, EndRound, IInv, TypeOK
<1> QED
  BY <1>1 DEF UsageInv, BytesInv, BytesMatchRows, RoomInv, Idle

-----------------------------------------------------------------------------
(* The theorems.                                                            *)

\* Every step of the relay preserves the invariant.
LEMMA NextInv == IInv /\ [Next]_vars => IInv'
<1> SUFFICES ASSUME IInv, [Next]_vars PROVE IInv'
  OBVIOUS
<1>1. CASE CreateAccount \/ RetireAccount \/ \E maxBytes \in Quotas : SetAccountByteQuota(maxBytes)
  BY <1>1, AccountInv
<1>2. CASE DropAccount
  BY <1>2, DropAccountInv
<1>3. CASE ReclaimStorage
  BY <1>3, ReclaimInv
<1>4. ASSUME NEW cursor \in Cursors, AnswerReset(cursor)
      PROVE  IInv'
  <2>1. reply'.kind = "reset" /\ UNCHANGED <<db, usage, window, pc, req, tx, tally>>
    BY <1>4 DEF AnswerReset, ResetReply, Reply
  <2> QED
    BY <2>1, SameRowsInv DEF IInv, TypeOK
<1>5. ASSUME NEW cursor \in Cursors, NEW batch \in Batches,
             AnswerPage(cursor, batch) \/ AnswerConflict(cursor, batch)
      PROVE  IInv'
  BY <1>5, AnswerInv
<1>6. ASSUME NEW cursor \in Cursors, NEW batch \in Batches, BeginWrites(cursor, batch)
      PROVE  IInv'
  BY <1>6, BeginInv
<1>7. ASSUME NEW d \in tx.deletions, SkipDeletion(d) \/ ApplyDeletion(d)
      PROVE  IInv'
  BY <1>7, SkipDeletionInv, ApplyDeletionInv
<1>8. CASE DeletionsDone
  BY <1>8, DeletionsDoneInv
<1>9. CASE SkipUpload
  BY <1>9, SkipUploadInv
<1>10. CASE ApplyUpload
  BY <1>10, ApplyUploadInv
<1>11. CASE RefuseOverQuota
  <2>1. reply'.kind = "quota"
    BY <1>11 DEF RefuseOverQuota, QuotaReply, Reply
  <2> QED
    BY <1>11, <2>1, EndRoundInv DEF RefuseOverQuota, IInv, TypeOK
<1>12. CASE SettleHistory
  BY <1>12, SettleHistoryInv
<1>13. CASE EvictVersion
  BY <1>13, EvictVersionInv
<1>14. CASE Commit
  BY <1>14, CommitInv
<1>15. CASE Rollback
  BY <1>15, EndRoundInv DEF Rollback, IInv, TypeOK
<1>16. ASSUME NEW versions \in Windows, Restart(versions)
       PROVE  IInv'
  BY <1>16, EndRoundInv DEF Restart, IInv, TypeOK
<1>17. CASE UNCHANGED vars
  BY <1>17, SameRowsInv DEF vars, IInv, TypeOK
<1> QED
  BY <1>1, <1>2, <1>3, <1>4, <1>5, <1>6, <1>7, <1>8, <1>9, <1>10, <1>11, <1>12, <1>13,
     <1>14, <1>15, <1>16, <1>17 DEF Next

\* And every step preserves the invariant of the sums.
LEMMA NextUsage == UsageInv /\ IInv /\ [Next]_vars => UsageInv'
<1> SUFFICES ASSUME UsageInv, IInv, [Next]_vars PROVE UsageInv'
  OBVIOUS
<1>1. CASE CreateAccount \/ RetireAccount \/ \E maxBytes \in Quotas : SetAccountByteQuota(maxBytes)
  <2>1. /\ pc' = "idle" /\ usage' = usage
        /\ db'.envelopes = db.envelopes /\ db'.history = db.history
    BY <1>1 DEF CreateAccount, RetireAccount, SetAccountByteQuota, round, Idle, IInv, TypeOK
  <2> QED
    BY <2>1, SameUsage
<1>2. CASE DropAccount
  BY <1>2, DropAccountUsage
<1>3. CASE ReclaimStorage
  BY <1>3, ReclaimUsage
<1>4. ASSUME NEW cursor \in Cursors,
             \/ AnswerReset(cursor)
             \/ \E batch \in Batches : AnswerPage(cursor, batch) \/ AnswerConflict(cursor, batch)
      PROVE  UsageInv'
  <2>1. pc' = "idle" /\ usage' = usage /\ db' = db
    BY <1>4 DEF AnswerReset, AnswerPage, AnswerConflict, Idle
  <2> QED
    BY <2>1, SameUsage
<1>5. ASSUME NEW cursor \in Cursors, NEW batch \in Batches, BeginWrites(cursor, batch)
      PROVE  UsageInv'
  BY <1>5, BeginUsage
<1>6. ASSUME NEW d \in tx.deletions, SkipDeletion(d) \/ ApplyDeletion(d)
      PROVE  UsageInv'
  <2>1. CASE SkipDeletion(d)
    <3>1. /\ pc = "delete" /\ pc' = "delete" /\ tx'.envelopes = tx.envelopes
          /\ UNCHANGED <<db, usage, tally>>
      BY <2>1 DEF SkipDeletion, IInv, TypeOK
    <3> QED
      BY <3>1, SameTally
  <2> QED
    BY <1>6, <2>1, ApplyDeletionUsage
<1>7. CASE DeletionsDone \/ SkipUpload
  <2>1. /\ pc \in {"delete", "upload"} /\ pc' = "upload" /\ tx'.envelopes = tx.envelopes
        /\ UNCHANGED <<db, usage, tally>>
    BY <1>7 DEF DeletionsDone, SkipUpload, IInv, TypeOK
  <2> QED
    BY <2>1, SameTally
<1>8. CASE ApplyUpload
  BY <1>8, ApplyUploadUsage
<1>9. CASE SettleHistory
  BY <1>9, SettleHistoryUsage
<1>10. CASE EvictVersion
  BY <1>10, EvictVersionUsage
<1>11. CASE Commit
  BY <1>11, CommitUsage
<1>12. CASE RefuseOverQuota \/ Rollback \/ \E versions \in Windows : Restart(versions)
  <2>1. pc' = "idle" /\ usage' = usage /\ db' = db
    BY <1>12 DEF RefuseOverQuota, Rollback, Restart, EndRound
  <2> QED
    BY <2>1, SameUsage
<1>13. CASE UNCHANGED vars
  BY <1>13 DEF vars, UsageInv, BytesInv, BytesMatchRows, RoomInv, Idle
<1> QED
  BY <1>1, <1>2, <1>3, <1>4, <1>5, <1>6, <1>7, <1>8, <1>9, <1>10, <1>11, <1>12, <1>13
     DEF Next

\* An account an upgrade finds has counted its bytes.
LEMMA InitUsage == Init => UsageInv
<1> SUFFICES ASSUME Init PROVE UsageInv
  OBVIOUS
<1>1. PICK old \in OldAccounts :
        /\ db.envelopes = old.rows /\ db.history = {}
        /\ usage = Counters(Cardinality(old.rows), BytesOf(old.rows), 0, 0)
  BY DEF Init
<1>2. BytesOf({}) = 0
  <2>1. BytesIn({}) = {}
    BY DEF BytesIn
  <2> QED
    BY <2>1, FS_EmptySet DEF BytesOf
<1>3. OlderVersions(db.envelopes, db.history) = {}
  BY <1>1 DEF OlderVersions
<1> QED
  BY <1>1, <1>2, <1>3 DEF UsageInv, BytesInv, BytesMatchRows, RoomInv, Idle, Init, Counters

\* Only a commit moves an account's last sequence number forward.
LEMMA OnlyCommitWrites == IInv /\ [Next]_vars /\ Wrote => Commit
<1> SUFFICES ASSUME IInv, [Next]_vars, db'.nextSeq > db.nextSeq PROVE Commit
  BY DEF Wrote
<1>1. db.nextSeq \in Nat
  BY DEF IInv, TypeOK
<1>2. db'.nextSeq # db.nextSeq /\ db'.nextSeq # 0
  BY <1>1
<1>3. CASE UNCHANGED vars
  BY <1>2, <1>3 DEF vars
<1>4. ~ ( CreateAccount \/ RetireAccount \/ \E maxBytes \in Quotas : SetAccountByteQuota(maxBytes) )
  BY <1>2 DEF CreateAccount, RetireAccount, SetAccountByteQuota, IInv, TypeOK
<1>5. ~DropAccount /\ ~ReclaimStorage
  BY <1>2 DEF DropAccount, ReclaimStorage, IInv, TypeOK
<1>6. ~ \E cursor \in Cursors :
          \/ AnswerReset(cursor)
          \/ \E batch \in Batches :
               AnswerPage(cursor, batch) \/ AnswerConflict(cursor, batch) \/ BeginWrites(cursor, batch)
  BY <1>2 DEF AnswerReset, AnswerPage, AnswerConflict, BeginWrites
<1>7. ~ \E d \in tx.deletions : SkipDeletion(d) \/ ApplyDeletion(d)
  BY <1>2 DEF SkipDeletion, ApplyDeletion
<1>8. ~ ( DeletionsDone \/ SkipUpload \/ ApplyUpload \/ RefuseOverQuota \/ SettleHistory
          \/ EvictVersion \/ Rollback \/ \E versions \in Windows : Restart(versions) )
  BY <1>2 DEF DeletionsDone, SkipUpload, ApplyUpload, RefuseOverQuota, SettleHistory,
              EvictVersion, Rollback, Restart
<1> QED
  BY <1>3, <1>4, <1>5, <1>6, <1>7, <1>8 DEF Next

\* What a commit makes the account's is bounded as the invariants say.
LEMMA CommitBounded == IInv /\ UsageInv /\ Commit => WindowKept /\ QuotaKept
<1> SUFFICES ASSUME IInv, UsageInv, Commit PROVE WindowKept /\ QuotaKept
  OBVIOUS
<1>1. /\ pc = "evict" /\ usage' = tally
      /\ db'.envelopes = tx.envelopes /\ db'.history = tx.history
      /\ ~OverBudget \/ OlderVersions(tx.envelopes, tx.history) = {}
  BY DEF Commit, IInv, TypeOK
<1>2. WindowKept
  BY <1>1 DEF WindowKept, UsageInv, RoomInv, Idle
<1>3. tally.versions = Cardinality(OlderVersions(tx.envelopes, tx.history))
  BY <1>1 DEF IInv, RoundInv, Idle
<1>4. IsFiniteSet(OlderVersions(tx.envelopes, tx.history))
  BY <1>1, RoundFacts, FS_Subset DEF OlderVersions
<1>5. tally.versions > 0 \/ OlderVersions(tx.envelopes, tx.history) = {}
  BY <1>3, <1>4, FS_CardinalityType, FS_EmptySet
<1>6. LiveBytes(tally) + PastBytes(tally) <= db.quota
      \/ OlderVersions(tx.envelopes, tx.history) = {}
  <2>1. PastBytes(tally) \in Int
    <3>1. tally.versionBytes \in Nat
      <4>1. tally.versionBytes = BytesOf(OlderVersions(tx.envelopes, tx.history))
        BY <1>1, UsageFacts
      <4>2. \A h \in OlderVersions(tx.envelopes, tx.history) : h.id \in Ids
        BY <1>1, UsageFacts DEF OlderVersions
      <4> QED
        BY <1>4, <4>1, <4>2, BytesType
    <3> QED
      BY <1>1, <1>3, <1>4, <3>1, UsageFacts, FS_CardinalityType DEF PastBytes, StorageBytes
  <2> QED
    BY <1>1, <1>5, <2>1, UsageFacts DEF OverBudget
<1>7. QuotaKept
  BY <1>1, <1>6, UsageFacts DEF QuotaKept
<1> QED
  BY <1>2, <1>7

\* Between any two statements of a round the working rows are sound and the
\* counters exact, so that a round may be committed or dropped at any of them.
THEOREM RoundsAreSound == Spec => []RoundInv
<1>1. Spec => []IInv
  BY InitInv, NextInv, PTL DEF Spec
<1>2. IInv => RoundInv
  BY DEF IInv
<1> QED
  BY <1>1, <1>2, PTL

\* Every variable of the relay keeps its kind; the counters never go below zero.
THEOREM TypeCorrect == Spec => []TypeOK
<1>1. Spec => []IInv
  BY InitInv, NextInv, PTL DEF Spec
<1>2. IInv => TypeOK
  BY DEF IInv
<1> QED
  BY <1>1, <1>2, PTL

\* A sequence number is given out once and never above next_seq.
THEOREM CursorsSplitRows == Spec => []RecordsNumbered
<1>1. RoundInv => RecordsNumbered
  BY DEF RoundInv, SoundRows, RecordsNumbered
<1> QED
  BY <1>1, RoundsAreSound, PTL

\* The counters kept by differences are what counting the rows would give.
THEOREM CountsAreExact == Spec => []CountsMatchRows
<1>1. RoundInv => CountsMatchRows
  BY DEF RoundInv
<1> QED
  BY <1>1, RoundsAreSound, PTL

\* Neither the window nor the quota takes a record's live copy from its history.
THEOREM LiveCopySurvives == Spec => []LiveCopyIsNewest
<1>1. RoundInv => LiveCopyIsNewest
  BY DEF RoundInv, SoundRows, LiveCopyIsNewest
<1> QED
  BY <1>1, RoundsAreSound, PTL

\* Nothing of a deleted record stays behind in the history.
THEOREM DeletionIsComplete == Spec => []DeletedLeavesNothing
<1>1. RoundInv => DeletedLeavesNothing
  BY DEF RoundInv, SoundRows, DeletedLeavesNothing
<1> QED
  BY <1>1, RoundsAreSound, PTL

\* The byte sums kept by differences are what adding up the rows would give.
THEOREM BytesAreExact == Spec => []BytesMatchRows
<1>1. Spec => []IInv
  BY InitInv, NextInv, PTL DEF Spec
<1>2. Spec => []UsageInv
  BY <1>1, InitUsage, NextUsage, PTL DEF Spec
<1>3. UsageInv => BytesMatchRows
  BY DEF UsageInv, BytesInv
<1> QED
  BY <1>2, <1>3, PTL

\* A round keeps what it writes within the window and the quota, and evicts
\* versions of other records only for want of room.
THEOREM HistoryStaysBounded == Spec => HistoryBounded
<1>1. Spec => []IInv
  BY InitInv, NextInv, PTL DEF Spec
<1>2. Spec => []UsageInv
  BY <1>1, InitUsage, NextUsage, PTL DEF Spec
<1>3. IInv /\ UsageInv /\ [Next]_vars => [Wrote => WindowKept /\ QuotaKept]_vars
  BY OnlyCommitWrites, CommitBounded
<1> QED
  BY <1>1, <1>2, <1>3, PTL DEF Spec, HistoryBounded

-----------------------------------------------------------------------------
(* The abstract store is an instance of its own: its operators are the      *)
(* relay's under other names.                                               *)

LEMMA SameCardinality == ASSUME NEW S PROVE Store!Cardinality(S) = Cardinality(S)
BY DEF Store!Cardinality, Cardinality

\* Writes make the same rows and the same clock.
LEMMA SameWrites ==
    ASSUME NEW rows, NEW clock, NEW b
    PROVE  /\ Store!RowsAfter(rows, clock, b) = RowsAfter(rows, clock, b)
           /\ Store!ClockAfter(rows, clock, b) = ClockAfter(rows, clock, b)
<1>1. Store!FreshUploads(rows, b) = FreshUploads(rows, b)
      /\ Store!Deleted(rows, b.deletions) = Deleted(rows, b.deletions)
  BY DEF Store!FreshUploads, FreshUploads, Store!Deleted, Deleted
<1>2. Store!NewRows(rows, clock, b) = NewRows(rows, clock, b)
  BY <1>1, SameCardinality DEF Store!NewRows, NewRows
<1> QED
  BY <1>1, <1>2, SameCardinality DEF Store!RowsAfter, RowsAfter, Store!ClockAfter, ClockAfter

\* Rows ahead of a cursor and rows in conflict are the same.
LEMMA SameReading ==
    ASSUME NEW rows, NEW cursor, NEW uploads
    PROVE  /\ Store!After(rows, cursor) = After(rows, cursor)
           /\ Store!Conflicts(rows, uploads) = Conflicts(rows, uploads)
BY DEF Store!After, After, Store!Conflicts, Conflicts

\* A page holds the same rows.
LEMMA SamePage ==
    ASSUME NEW rows, NEW cursor
    PROVE  /\ Store!Page(rows, cursor) = Page(rows, cursor)
           /\ Store!LastSeq(rows) = LastSeq(rows)
<1>1. \A S : Store!BytesOf(S) = BytesOf(S)
  BY SameCardinality DEF Store!BytesOf, BytesOf, Store!BytesIn, BytesIn
<1>2. \A S, n : Store!UpTo(S, n) = UpTo(S, n)
  BY DEF Store!UpTo, UpTo
<1>3. Store!Page(rows, cursor) = Page(rows, cursor)
  BY <1>1, <1>2, SameReading, SameCardinality DEF Store!Page, Page
<1>4. Store!LastSeq(rows) = LastSeq(rows)
  BY DEF Store!LastSeq, LastSeq, Store!Max, Max
<1> QED
  BY <1>3, <1>4

\* And the answers are the same.
LEMMA SameReplies ==
    ASSUME NEW rows, NEW clock, NEW cursor, NEW b
    PROVE  /\ Store!PageReply(rows, cursor, b) = PageReply(rows, cursor, b)
           /\ Store!ConflictReply(rows, clock, cursor, b) = ConflictReply(rows, clock, cursor, b)
           /\ Store!DoneReply(clock, cursor) = DoneReply(clock, cursor)
           /\ Store!NoReply = NoReply /\ Store!ResetReply = ResetReply
           /\ Store!QuotaReply = QuotaReply
<1>1. Store!PageReply(rows, cursor, b) = PageReply(rows, cursor, b)
  BY SamePage, SameReading
     DEF Store!PageReply, PageReply, Store!Reply, Reply, Store!WritesAsked, WritesAsked
<1>2. Store!ConflictReply(rows, clock, cursor, b) = ConflictReply(rows, clock, cursor, b)
  BY SameReading
     DEF Store!ConflictReply, ConflictReply, Store!Reply, Reply, Store!LargerOf, LargerOf
<1>3. Store!DoneReply(clock, cursor) = DoneReply(clock, cursor)
  BY DEF Store!DoneReply, DoneReply, Store!Reply, Reply, Store!LargerOf, LargerOf
<1>4. Store!NoReply = NoReply /\ Store!ResetReply = ResetReply /\ Store!QuotaReply = QuotaReply
  BY DEF Store!NoReply, NoReply, Store!ResetReply, ResetReply, Store!QuotaReply, QuotaReply,
         Store!Reply, Reply
<1> QED
  BY <1>1, <1>2, <1>3, <1>4

-----------------------------------------------------------------------------
(* A round on its way, against the request that began it.                   *)

Asked == req.batch

\* How many of its uploads have been looked at.
Written == Len(Asked.uploads) - Len(tx.uploads)

Fresh == FreshUploads(db.envelopes, Asked)

\* The row an upload makes, numbered after those before it.
RowOf(i) ==
    [ slot |-> Asked.uploads[i].slot,
      id   |-> Asked.uploads[i].id,
      seq  |-> db.nextSeq + Cardinality({ j \in Fresh : j <= i }) ]

\* The rows of a batch's first k uploads.
RowsUpTo(k) == { RowOf(i) : i \in { j \in Fresh : j <= k } }

LeftByDeletions == db.envelopes \ Deleted(db.envelopes, Asked.deletions)

IdsOf(rows) == { r.id : r \in rows }

DeletesAsAsked ==
    /\ tx.uploads = Asked.uploads /\ tx.seq = db.nextSeq
    /\ tx.deletions \subseteq Asked.deletions
    /\ tx.envelopes = db.envelopes \ Deleted(db.envelopes, Asked.deletions \ tx.deletions)
    /\ \A i \in DOMAIN Asked.uploads :
            Asked.uploads[i].id \in tx.known <=> Asked.uploads[i].id \in IdsOf(tx.envelopes)

UploadsAsAsked ==
    /\ Len(tx.uploads) <= Len(Asked.uploads)
    /\ \A i \in DOMAIN tx.uploads : tx.uploads[i] = Asked.uploads[Written + i]
    /\ tx.seq = db.nextSeq + Cardinality({ j \in Fresh : j <= Written })
    /\ tx.envelopes =
         { r \in LeftByDeletions : \A n \in RowsUpTo(Written) : n.slot # r.slot }
         \cup RowsUpTo(Written)
    /\ \A i \in DOMAIN Asked.uploads :
            i > Written => (Asked.uploads[i].id \in tx.known <=> i \notin Fresh)

\* Whatever a round has done, it is what its request asks of the account as
\* it was when the round began.
AsAsked ==
    ~Idle =>
        /\ req.cursor \in Cursors /\ Asked \in Batches
        /\ req.cursor <= db.nextSeq
        /\ After(db.envelopes, req.cursor) = {}
        /\ Conflicts(db.envelopes, Asked.uploads) = {}
        /\ pc = "delete" => DeletesAsAsked
        /\ pc = "upload" => UploadsAsAsked
        /\ pc = "evict" =>
            /\ tx.envelopes = RowsAfter(db.envelopes, db.nextSeq, Asked)
            /\ tx.seq = ClockAfter(db.envelopes, db.nextSeq, Asked)

\* The batch of a round in progress is one a device may form.
LEMMA AskedFacts ==
    ASSUME IInv, AsAsked, pc # "idle"
    PROVE  /\ req.cursor \in Cursors /\ Asked \in Batches
           /\ Asked.uploads \in Seq(Upload) /\ Asked.deletions \in SUBSET Deletion
           /\ \A i, j \in DOMAIN Asked.uploads :
                 i # j => Asked.uploads[i].slot # Asked.uploads[j].slot
           /\ \A i \in DOMAIN Asked.uploads :
                 /\ Asked.uploads[i] \in Upload
                 /\ Asked.uploads[i].slot = SlotOf[Asked.uploads[i].id]
           /\ DOMAIN Asked.uploads = 1 .. Len(Asked.uploads) /\ Len(Asked.uploads) \in Nat
           /\ Fresh \in SUBSET (1 .. Len(Asked.uploads))
           /\ \A i \in Fresh : i \in Nat /\ 1 <= i /\ i <= Len(Asked.uploads)
           /\ db.nextSeq \in Nat
<1>1. req.cursor \in Cursors /\ Asked \in Batches
  BY DEF AsAsked, Idle
<1>2. /\ Asked.uploads \in Seq(Upload) /\ Asked.deletions \in SUBSET Deletion
      /\ \A i, j \in DOMAIN Asked.uploads :
            i # j => Asked.uploads[i].slot # Asked.uploads[j].slot
  BY <1>1, RequestAssumption DEF Batch
<1>3. /\ DOMAIN Asked.uploads = 1 .. Len(Asked.uploads) /\ Len(Asked.uploads) \in Nat
      /\ \A i \in DOMAIN Asked.uploads : Asked.uploads[i] \in Upload
  BY <1>2
<1>4. \A i \in DOMAIN Asked.uploads : Asked.uploads[i].slot = SlotOf[Asked.uploads[i].id]
  BY <1>3 DEF Upload
<1>5. Fresh \in SUBSET (1 .. Len(Asked.uploads))
  BY <1>3 DEF Fresh, FreshUploads
<1>6. \A i \in Fresh : i \in Nat /\ 1 <= i /\ i <= Len(Asked.uploads)
  BY <1>3, <1>5
<1> QED
  BY <1>1, <1>2, <1>3, <1>4, <1>5, <1>6 DEF IInv, TypeOK

\* The round begins: nothing deleted, nothing written, live versions known.
LEMMA BeginAsAsked ==
    ASSUME IInv, NEW cursor \in Cursors, NEW batch \in Batches, BeginWrites(cursor, batch)
    PROVE  AsAsked'
<1> DEFINE uploaded == { batch.uploads[i].id : i \in DOMAIN batch.uploads }
<1>1. /\ pc' = "delete" /\ req' = [cursor |-> cursor, batch |-> batch] /\ db' = db
      /\ tx'.envelopes = db.envelopes /\ tx'.seq = db.nextSeq
      /\ tx'.known = uploaded \cap IdsOf(db.envelopes)
      /\ tx'.deletions = batch.deletions /\ tx'.uploads = batch.uploads
      /\ cursor <= db.nextSeq /\ After(db.envelopes, cursor) = {}
      /\ Conflicts(db.envelopes, batch.uploads) = {}
  BY DEF BeginWrites, IdsOf
<1>2. Asked' = batch
  BY <1>1 DEF Asked
<1>3. Deleted(db.envelopes, {}) = {}
  BY DEF Deleted
<1>4. DeletesAsAsked'
  BY <1>1, <1>2, <1>3 DEF DeletesAsAsked, IdsOf
<1> QED
  BY <1>1, <1>2, <1>4 DEF AsAsked, Idle, Asked

\* A step that leaves the request and the account as they were.
LEMMA RequestKept ==
    ASSUME AsAsked, pc # "idle", UNCHANGED <<db, req>>,
           pc' = "delete" => DeletesAsAsked',
           pc' = "upload" => UploadsAsAsked',
           pc' = "evict" =>
             /\ tx'.envelopes = RowsAfter(db.envelopes, db.nextSeq, Asked)
             /\ tx'.seq = ClockAfter(db.envelopes, db.nextSeq, Asked)
    PROVE  AsAsked'
BY DEF AsAsked, Asked, Idle

\* A deletion that finds nothing has been done.
LEMMA SkipDeletionAsAsked ==
    ASSUME IInv, AsAsked, NEW d \in tx.deletions, SkipDeletion(d)
    PROVE  AsAsked'
<1>1. /\ pc = "delete" /\ pc' = "delete" /\ UNCHANGED <<db, req>>
      /\ Deleted(tx.envelopes, {d}) = {} /\ DeletesAsAsked
  BY DEF SkipDeletion, AsAsked, Idle
<1>2. /\ tx'.envelopes = tx.envelopes /\ tx'.seq = tx.seq /\ tx'.known = tx.known
      /\ tx'.uploads = tx.uploads /\ tx'.deletions = tx.deletions \ {d}
  BY DEF SkipDeletion, IInv, TypeOK
<1>3. Asked' = Asked
  BY <1>1 DEF Asked
<1>4. tx.envelopes =
        db.envelopes \ Deleted(db.envelopes, Asked.deletions \ (tx.deletions \ {d}))
  BY <1>1 DEF DeletesAsAsked, Deleted
<1>5. DeletesAsAsked'
  BY <1>1, <1>2, <1>3, <1>4 DEF DeletesAsAsked
<1> QED
  BY <1>1, <1>5, RequestKept

\* A deletion takes the row the batch names, and its version is not live any more.
LEMMA ApplyDeletionAsAsked ==
    ASSUME IInv, AsAsked, NEW d \in tx.deletions, ApplyDeletion(d)
    PROVE  AsAsked'
<1> DEFINE F == tx.envelopes \ Deleted(tx.envelopes, {d})
<1>1. /\ pc = "delete" /\ pc' = "delete" /\ UNCHANGED <<db, req>>
      /\ Deleted(tx.envelopes, {d}) # {} /\ DeletesAsAsked
  BY DEF ApplyDeletion, AsAsked, Idle
<1>2. /\ tx'.envelopes = F /\ tx'.seq = tx.seq /\ tx'.known = tx.known \ {d.id}
      /\ tx'.uploads = tx.uploads /\ tx'.deletions = tx.deletions \ {d}
  BY DEF ApplyDeletion, IInv, TypeOK
<1>3. d \in Deletion
  BY DEF IInv, TypeOK
<1>4. PICK r \in tx.envelopes :
        /\ Deleted(tx.envelopes, {d}) = {r} /\ r.id = d.id
        /\ \A e \in tx.envelopes : e.slot = d.slot \/ e.id = d.id => e = r
  BY <1>1, <1>3, RoundFacts, DeletedIsOne
<1>5. IdsOf(F) = IdsOf(tx.envelopes) \ {d.id}
  BY <1>4 DEF IdsOf
<1>6. F = db.envelopes \ Deleted(db.envelopes, Asked.deletions \ (tx.deletions \ {d}))
  BY <1>1 DEF DeletesAsAsked, Deleted
<1>7. Asked' = Asked
  BY <1>1 DEF Asked
<1> HIDE DEF F
<1>8. DeletesAsAsked'
  BY <1>1, <1>2, <1>5, <1>6, <1>7 DEF DeletesAsAsked
<1> QED
  BY <1>1, <1>8, RequestKept

\* With the deletions done, none of the uploads has been written.
LEMMA DeletionsDoneAsAsked ==
    ASSUME IInv, AsAsked, DeletionsDone
    PROVE  AsAsked'
<1>1. /\ pc = "delete" /\ pc' = "upload" /\ UNCHANGED <<db, req, tx>>
      /\ tx.deletions = {} /\ DeletesAsAsked
  BY DEF DeletionsDone, AsAsked, Idle
<1>2. Asked' = Asked /\ Fresh' = Fresh /\ LeftByDeletions' = LeftByDeletions
  BY <1>1 DEF Asked, Fresh, LeftByDeletions
<1>3. tx.envelopes = LeftByDeletions
  BY <1>1 DEF DeletesAsAsked, LeftByDeletions
<1>4. /\ Asked.uploads \in Seq(Upload) /\ DOMAIN Asked.uploads = 1 .. Len(Asked.uploads)
      /\ Len(Asked.uploads) \in Nat /\ db.nextSeq \in Nat
      /\ Fresh \in SUBSET (1 .. Len(Asked.uploads))
  BY <1>1, AskedFacts
<1>5. Written' = 0 /\ tx'.uploads = Asked.uploads
  BY <1>1, <1>2, <1>4 DEF Written, DeletesAsAsked
<1>6. { j \in Fresh : j <= 0 } = {}
  <2>1. \A j \in Fresh : j \in Nat /\ 1 <= j
    BY <1>1, AskedFacts
  <2> QED
    BY <2>1
<1>7. (RowsUpTo(Written))' = {}
  BY <1>2, <1>5, <1>6 DEF RowsUpTo
<1>8. tx'.seq = db'.nextSeq + Cardinality({ j \in Fresh' : j <= Written' })
  <2>1. tx'.seq = db.nextSeq /\ db' = db
    BY <1>1 DEF DeletesAsAsked
  <2>2. { j \in Fresh' : j <= Written' } = {}
    BY <1>2, <1>5, <1>6
  <2>3. Cardinality({ j \in Fresh' : j <= Written' }) = 0
    BY <2>2, FS_EmptySet
  <2> QED
    BY <1>4, <2>1, <2>3
<1>9. \A i \in DOMAIN Asked.uploads : Asked.uploads[i].id \in tx.known <=> i \notin Fresh
  BY <1>1, <1>3 DEF DeletesAsAsked, Fresh, FreshUploads, LeftByDeletions, IdsOf
<1>10. UploadsAsAsked'
  BY <1>1, <1>2, <1>3, <1>4, <1>5, <1>7, <1>8, <1>9 DEF UploadsAsAsked
<1> QED
  BY <1>1, <1>10, RequestKept

\* The upload a round looks at is the next one of the batch.
LEMMA NextUpload ==
    ASSUME IInv, AsAsked, pc = "upload", tx.uploads # <<>>
    PROVE  /\ Written \in Nat /\ Written + 1 \in DOMAIN Asked.uploads
           /\ Head(tx.uploads) = Asked.uploads[Written + 1]
           /\ Head(tx.uploads).id \in tx.known <=> Written + 1 \notin Fresh
           /\ Len(Tail(tx.uploads)) = Len(tx.uploads) - 1
           /\ Len(Asked.uploads) - Len(Tail(tx.uploads)) = Written + 1
           /\ Len(Tail(tx.uploads)) <= Len(Asked.uploads)
           /\ \A i \in DOMAIN Tail(tx.uploads) :
                Tail(tx.uploads)[i] = Asked.uploads[Written + 1 + i]
<1>1. /\ UploadsAsAsked /\ tx.uploads \in Seq(Upload)
      /\ Asked.uploads \in Seq(Upload) /\ Len(Asked.uploads) \in Nat
      /\ DOMAIN Asked.uploads = 1 .. Len(Asked.uploads)
  BY AskedFacts, RoundFacts DEF AsAsked, Idle
<1>2. /\ Head(tx.uploads) = tx.uploads[1] /\ 1 \in DOMAIN tx.uploads
      /\ Len(tx.uploads) \in Nat /\ Len(tx.uploads) >= 1
      /\ Len(Tail(tx.uploads)) = Len(tx.uploads) - 1
      /\ \A i \in DOMAIN Tail(tx.uploads) :
            i \in Nat /\ i + 1 \in DOMAIN tx.uploads /\ Tail(tx.uploads)[i] = tx.uploads[i + 1]
  BY <1>1
<1>3. Written \in Nat /\ Written + 1 \in DOMAIN Asked.uploads
  <2>1. Len(tx.uploads) <= Len(Asked.uploads)
    BY <1>1 DEF UploadsAsAsked
  <2>2. Written \in Nat /\ 1 <= Written + 1 /\ Written + 1 <= Len(Asked.uploads)
    BY <1>1, <1>2, <2>1 DEF Written
  <2> QED
    BY <1>1, <2>2
<1>4. Head(tx.uploads) = Asked.uploads[Written + 1]
  BY <1>1, <1>2 DEF UploadsAsAsked
<1>5. Head(tx.uploads).id \in tx.known <=> Written + 1 \notin Fresh
  BY <1>1, <1>3, <1>4 DEF UploadsAsAsked
<1>6. /\ Len(Asked.uploads) - Len(Tail(tx.uploads)) = Written + 1
      /\ Len(Tail(tx.uploads)) <= Len(Asked.uploads)
  <2>1. Len(tx.uploads) <= Len(Asked.uploads)
    BY <1>1 DEF UploadsAsAsked
  <2>2. Len(Tail(tx.uploads)) = Len(tx.uploads) - 1 /\ Len(tx.uploads) \in Nat
    BY <1>2
  <2>3. \A m, n, t \in Nat : n = m - 1 /\ m <= t => t - n = t - m + 1 /\ n <= t
    OBVIOUS
  <2>4. Len(Tail(tx.uploads)) \in Nat
    BY <1>1, <1>2
  <2> QED
    BY <1>1, <2>1, <2>2, <2>3, <2>4 DEF Written
<1>7. ASSUME NEW i \in DOMAIN Tail(tx.uploads)
      PROVE  Tail(tx.uploads)[i] = Asked.uploads[Written + 1 + i]
  <2>1. i \in Nat /\ i + 1 \in DOMAIN tx.uploads /\ Tail(tx.uploads)[i] = tx.uploads[i + 1]
    BY <1>2, <1>7
  <2>2. tx.uploads[i + 1] = Asked.uploads[Written + (i + 1)]
    BY <1>1, <2>1 DEF UploadsAsAsked
  <2>3. Written + (i + 1) = Written + 1 + i
    BY <1>3, <2>1
  <2> QED
    BY <2>1, <2>2, <2>3
<1> QED
  BY <1>2, <1>3, <1>4, <1>5, <1>6, <1>7

\* The rows of one upload more: the upload's own, if it writes, and no other.
LEMMA RowsOfOneMore ==
    ASSUME IInv, AsAsked, pc = "upload", NEW k \in Nat, k + 1 \in DOMAIN Asked.uploads
    PROVE  /\ k + 1 \in Fresh =>
                /\ RowsUpTo(k + 1) = RowsUpTo(k) \cup {RowOf(k + 1)}
                /\ Cardinality({ j \in Fresh : j <= k + 1 })
                     = Cardinality({ j \in Fresh : j <= k }) + 1
           /\ k + 1 \notin Fresh =>
                /\ RowsUpTo(k + 1) = RowsUpTo(k)
                /\ { j \in Fresh : j <= k + 1 } = { j \in Fresh : j <= k }
           /\ Cardinality({ j \in Fresh : j <= k }) \in Nat
           /\ \A n \in RowsUpTo(k) : n.slot # Asked.uploads[k + 1].slot
<1>1. /\ Fresh \in SUBSET (1 .. Len(Asked.uploads)) /\ Len(Asked.uploads) \in Nat
      /\ DOMAIN Asked.uploads = 1 .. Len(Asked.uploads)
      /\ \A i, j \in DOMAIN Asked.uploads :
            i # j => Asked.uploads[i].slot # Asked.uploads[j].slot
  BY AskedFacts
<1> DEFINE A == { j \in Fresh : j <= k }
           B == { j \in Fresh : j <= k + 1 }
<1>2. IsFiniteSet(A)
  <2>1. Len(Asked.uploads) \in Int /\ 1 \in Int
    BY <1>1
  <2>2. IsFiniteSet(1 .. Len(Asked.uploads))
    BY <2>1, FS_Interval
  <2>3. A \in SUBSET (1 .. Len(Asked.uploads))
    BY <1>1
  <2> QED
    BY <2>2, <2>3, FS_Subset
<1>3. \A j \in Fresh : j \in Nat
  BY <1>1
<1>4. k + 1 \in Fresh => B = A \cup {k + 1} /\ k + 1 \notin A
  BY <1>3
<1>5. k + 1 \notin Fresh => B = A
  BY <1>3
<1>6. \A n \in RowsUpTo(k) : n.slot # Asked.uploads[k + 1].slot
  <2>1. ASSUME NEW i \in A PROVE RowOf(i).slot # Asked.uploads[k + 1].slot
    <3>1. i \in DOMAIN Asked.uploads /\ i # k + 1
      BY <1>1, <1>3
    <3> QED
      BY <1>1, <3>1 DEF RowOf
  <2> QED
    BY <2>1 DEF RowsUpTo
<1>7. k + 1 \in Fresh => RowsUpTo(k + 1) = RowsUpTo(k) \cup {RowOf(k + 1)}
  BY <1>4 DEF RowsUpTo
<1>8. k + 1 \notin Fresh => RowsUpTo(k + 1) = RowsUpTo(k)
  BY <1>5 DEF RowsUpTo
<1> HIDE DEF A, B
<1>9. Cardinality(A) \in Nat
  BY <1>2, FS_CardinalityType
<1>10. k + 1 \in Fresh => Cardinality(B) = Cardinality(A) + 1
  BY <1>2, <1>4, FS_AddElement
<1> QED
  BY <1>5, <1>6, <1>7, <1>8, <1>9, <1>10 DEF A, B

\* An upload passed over was live when the round had deleted what it deletes.
LEMMA SkipUploadAsAsked ==
    ASSUME IInv, AsAsked, SkipUpload
    PROVE  AsAsked'
<1>1. /\ pc = "upload" /\ pc' = "upload" /\ UNCHANGED <<db, req>>
      /\ tx.uploads # <<>> /\ Head(tx.uploads).id \in tx.known /\ UploadsAsAsked
  BY DEF SkipUpload, AsAsked, Idle
<1>2. /\ tx'.envelopes = tx.envelopes /\ tx'.seq = tx.seq /\ tx'.known = tx.known
      /\ tx'.uploads = Tail(tx.uploads)
  BY DEF SkipUpload, IInv, TypeOK
<1>3. Asked' = Asked /\ Fresh' = Fresh /\ LeftByDeletions' = LeftByDeletions
  BY <1>1 DEF Asked, Fresh, LeftByDeletions
<1>4. Written' = Written + 1 /\ Written \in Nat /\ Written + 1 \notin Fresh
      /\ Written + 1 \in DOMAIN Asked.uploads
  BY <1>1, <1>2, <1>3, NextUpload DEF Written
<1>5. RowsUpTo(Written + 1) = RowsUpTo(Written)
      /\ { j \in Fresh : j <= Written + 1 } = { j \in Fresh : j <= Written }
  BY <1>1, <1>4, RowsOfOneMore
<1>6. (RowsUpTo(Written))' = RowsUpTo(Written + 1)
  BY <1>1, <1>3, <1>4 DEF RowsUpTo, RowOf
<1>7. \A i \in DOMAIN Asked.uploads : i > Written + 1 => i > Written
  BY <1>1, <1>4, AskedFacts
<1>8. /\ Len(tx'.uploads) <= Len(Asked.uploads)
      /\ \A i \in DOMAIN tx'.uploads : tx'.uploads[i] = Asked.uploads[Written + 1 + i]
  BY <1>1, <1>2, NextUpload
<1>9. tx'.seq = db'.nextSeq + Cardinality({ j \in Fresh' : j <= Written' })
  <2>1. { j \in Fresh' : j <= Written' } = { j \in Fresh : j <= Written }
    BY <1>3, <1>4, <1>5
  <2> QED
    BY <1>1, <1>2, <2>1 DEF UploadsAsAsked
<1>10. tx'.envelopes =
         { r \in LeftByDeletions' : \A n \in (RowsUpTo(Written))' : n.slot # r.slot }
         \cup (RowsUpTo(Written))'
  BY <1>1, <1>2, <1>3, <1>5, <1>6 DEF UploadsAsAsked
<1>11. \A i \in DOMAIN Asked.uploads :
          i > Written + 1 => (Asked.uploads[i].id \in tx'.known <=> i \notin Fresh)
  BY <1>1, <1>2, <1>7 DEF UploadsAsAsked
<1>12. UploadsAsAsked'
  BY <1>3, <1>4, <1>8, <1>9, <1>10, <1>11 DEF UploadsAsAsked
<1> QED
  BY <1>1, <1>12, RequestKept

\* An upload that writes makes the row the batch asks for, under the next number.
LEMMA ApplyUploadAsAsked ==
    ASSUME IInv, AsAsked, ApplyUpload
    PROVE  AsAsked'
<1> DEFINE u == Head(tx.uploads)
           k == Written
           new == [slot |-> u.slot, seq |-> tx.seq + 1, id |-> u.id]
           F == (tx.envelopes \ Prior(u)) \cup {new}
           K == (tx.known \ { p.id : p \in Prior(u) }) \cup {u.id}
<1>1. /\ pc = "upload" /\ pc' = "upload" /\ UNCHANGED <<db, req>>
      /\ tx.uploads # <<>> /\ u.id \notin tx.known /\ UploadsAsAsked
  BY DEF ApplyUpload, AsAsked, Idle
<1>2. /\ tx'.envelopes = F /\ tx'.seq = tx.seq + 1 /\ tx'.known = K
      /\ tx'.uploads = Tail(tx.uploads)
  BY DEF ApplyUpload, IInv, TypeOK
<1>3. Asked' = Asked /\ Fresh' = Fresh /\ LeftByDeletions' = LeftByDeletions
  BY <1>1 DEF Asked, Fresh, LeftByDeletions
<1>4. /\ Written' = k + 1 /\ k \in Nat /\ k + 1 \in Fresh
      /\ k + 1 \in DOMAIN Asked.uploads /\ u = Asked.uploads[k + 1]
  BY <1>1, <1>2, <1>3, NextUpload DEF Written
<1>5. /\ RowsUpTo(k + 1) = RowsUpTo(k) \cup {RowOf(k + 1)}
      /\ Cardinality({ j \in Fresh : j <= k + 1 }) = Cardinality({ j \in Fresh : j <= k }) + 1
      /\ Cardinality({ j \in Fresh : j <= k }) \in Nat
      /\ \A n \in RowsUpTo(k) : n.slot # u.slot
  BY <1>1, <1>4, RowsOfOneMore
<1>6. tx.seq = db.nextSeq + Cardinality({ j \in Fresh : j <= k }) /\ db.nextSeq \in Nat
  BY <1>1, AskedFacts DEF UploadsAsAsked
<1>7. new = RowOf(k + 1) /\ tx'.seq = db.nextSeq + Cardinality({ j \in Fresh : j <= k + 1 })
  BY <1>2, <1>4, <1>5, <1>6 DEF RowOf
<1>8. (RowsUpTo(Written))' = RowsUpTo(k + 1)
  BY <1>1, <1>3, <1>4 DEF RowsUpTo, RowOf
<1> HIDE DEF u
<1>9. F = { r \in LeftByDeletions : \A n \in RowsUpTo(k + 1) : n.slot # r.slot }
          \cup RowsUpTo(k + 1)
  <2>1. tx.envelopes = { r \in LeftByDeletions : \A n \in RowsUpTo(k) : n.slot # r.slot }
                       \cup RowsUpTo(k)
    BY <1>1 DEF UploadsAsAsked
  <2>2. Prior(u) = { r \in tx.envelopes : r.slot = u.slot } /\ new.slot = u.slot
    BY DEF Prior, OfSlots
  <2> HIDE DEF new
  <2> QED
    BY <1>5, <1>7, <2>1, <2>2
<1>10. ASSUME NEW i \in DOMAIN Asked.uploads, i > k + 1
       PROVE  Asked.uploads[i].id \in K <=> i \notin Fresh
  <2>1. i > k /\ i # k + 1
    BY <1>1, <1>4, <1>10, AskedFacts
  <2>2. Asked.uploads[i].id \in tx.known <=> i \notin Fresh
    BY <1>1, <2>1 DEF UploadsAsAsked
  <2>3. /\ Asked.uploads[i].slot = SlotOf[Asked.uploads[i].id]
        /\ u.slot = SlotOf[u.id] /\ Asked.uploads[i].slot # u.slot
    BY <1>1, <1>4, <2>1, AskedFacts
  <2>4. \A p \in Prior(u) : SlotOf[p.id] = u.slot
    BY <1>1, RoundFacts DEF Prior, OfSlots, SoundRows
  <2> QED
    BY <2>2, <2>3, <2>4
<1>11. /\ Len(tx'.uploads) <= Len(Asked.uploads)
       /\ \A i \in DOMAIN tx'.uploads : tx'.uploads[i] = Asked.uploads[k + 1 + i]
  BY <1>1, <1>2, NextUpload
<1> HIDE DEF F, K, new, k
<1>12. UploadsAsAsked'
  BY <1>1, <1>2, <1>3, <1>4, <1>7, <1>8, <1>9, <1>10, <1>11 DEF UploadsAsAsked
<1> QED
  BY <1>1, <1>12, RequestKept

\* With no upload left, the rows and the clock are what the batch makes of the account's.
LEMMA SettleHistoryAsAsked ==
    ASSUME IInv, AsAsked, SettleHistory
    PROVE  AsAsked'
<1>1. /\ pc = "upload" /\ pc' = "evict" /\ UNCHANGED <<db, req>>
      /\ tx.uploads = <<>> /\ UploadsAsAsked
  BY DEF SettleHistory, AsAsked, Idle
<1>2. tx'.envelopes = tx.envelopes /\ tx'.seq = tx.seq
  BY DEF SettleHistory, IInv, TypeOK
<1>3. /\ Len(Asked.uploads) \in Nat /\ Fresh \in SUBSET (1 .. Len(Asked.uploads))
  BY <1>1, AskedFacts
<1>4. Written = Len(Asked.uploads)
  BY <1>1, <1>3 DEF Written
<1>5. { j \in Fresh : j <= Written } = Fresh
  BY <1>1, <1>4, AskedFacts
<1>6. RowsUpTo(Written) = NewRows(db.envelopes, db.nextSeq, Asked)
  BY <1>5 DEF RowsUpTo, RowOf, NewRows, Fresh
<1>7. tx.envelopes = RowsAfter(db.envelopes, db.nextSeq, Asked)
  BY <1>1, <1>6 DEF UploadsAsAsked, RowsAfter, LeftByDeletions
<1>8. tx.seq = ClockAfter(db.envelopes, db.nextSeq, Asked)
  BY <1>1, <1>5 DEF UploadsAsAsked, ClockAfter, Fresh
<1> QED
  BY <1>1, <1>2, <1>7, <1>8, RequestKept

\* Evictions touch the history alone.
LEMMA EvictVersionAsAsked ==
    ASSUME IInv, AsAsked, EvictVersion
    PROVE  AsAsked'
<1>1. /\ pc = "evict" /\ pc' = "evict" /\ UNCHANGED <<db, req>>
      /\ tx'.envelopes = tx.envelopes /\ tx'.seq = tx.seq
  BY DEF EvictVersion, IInv, TypeOK
<1> QED
  BY <1>1, RequestKept DEF AsAsked, Idle

\* Every step of the relay keeps its round what was asked for.
LEMMA NextAsAsked == AsAsked /\ IInv /\ [Next]_vars => AsAsked'
<1> SUFFICES ASSUME AsAsked, IInv, [Next]_vars PROVE AsAsked'
  OBVIOUS
<1>1. CASE pc' = "idle"
  BY <1>1 DEF AsAsked, Idle
<1>2. CASE \/ CreateAccount \/ RetireAccount \/ DropAccount \/ ReclaimStorage
           \/ \E maxBytes \in Quotas : SetAccountByteQuota(maxBytes)
           \/ \E cursor \in Cursors :
                \/ AnswerReset(cursor)
                \/ \E batch \in Batches : AnswerPage(cursor, batch) \/ AnswerConflict(cursor, batch)
  <2>1. pc' = "idle"
    BY <1>2 DEF CreateAccount, RetireAccount, DropAccount, ReclaimStorage, SetAccountByteQuota,
                AnswerReset, AnswerPage, AnswerConflict, round, Idle
  <2> QED
    BY <1>1, <2>1
<1>3. CASE RefuseOverQuota \/ Commit \/ Rollback \/ \E versions \in Windows : Restart(versions)
  <2>1. pc' = "idle"
    BY <1>3 DEF RefuseOverQuota, Commit, Rollback, Restart, EndRound
  <2> QED
    BY <1>1, <2>1
<1>4. ASSUME NEW cursor \in Cursors, NEW batch \in Batches, BeginWrites(cursor, batch)
      PROVE  AsAsked'
  BY <1>4, BeginAsAsked
<1>5. ASSUME NEW d \in tx.deletions, SkipDeletion(d) \/ ApplyDeletion(d)
      PROVE  AsAsked'
  BY <1>5, SkipDeletionAsAsked, ApplyDeletionAsAsked
<1>6. CASE DeletionsDone
  BY <1>6, DeletionsDoneAsAsked
<1>7. CASE SkipUpload
  BY <1>7, SkipUploadAsAsked
<1>8. CASE ApplyUpload
  BY <1>8, ApplyUploadAsAsked
<1>9. CASE SettleHistory
  BY <1>9, SettleHistoryAsAsked
<1>10. CASE EvictVersion
  BY <1>10, EvictVersionAsAsked
<1>11. CASE UNCHANGED vars
  <2>1. UNCHANGED <<db, req, tx, pc>>
    BY <1>11 DEF vars
  <2>2. /\ Asked' = Asked /\ Written' = Written /\ Fresh' = Fresh
        /\ LeftByDeletions' = LeftByDeletions
    BY <2>1 DEF Asked, Written, Fresh, LeftByDeletions
  <2>3. (RowsUpTo(Written))' = RowsUpTo(Written)
    BY <2>1, <2>2 DEF RowsUpTo, RowOf
  <2>4. DeletesAsAsked' = DeletesAsAsked
    BY <2>1, <2>2 DEF DeletesAsAsked
  <2>5. UploadsAsAsked' = UploadsAsAsked
    BY <2>1, <2>2, <2>3 DEF UploadsAsAsked
  <2> QED
    BY <2>1, <2>2, <2>4, <2>5 DEF AsAsked, Idle
<1> QED
  BY <1>2, <1>3, <1>4, <1>5, <1>6, <1>7, <1>8, <1>9, <1>10, <1>11 DEF Next

\* And so IInv and AsAsked hold throughout.
LEMMA AlwaysAsAsked == Spec => [](IInv /\ AsAsked)
<1>1. Spec => []IInv
  BY InitInv, NextInv, PTL DEF Spec
<1>2. Init => AsAsked
  BY DEF Init, AsAsked, Idle
<1>3. Spec => []AsAsked
  BY <1>1, <1>2, NextAsAsked, PTL DEF Spec
<1> QED
  BY <1>1, <1>3, PTL

-----------------------------------------------------------------------------
(* The refinement.                                                          *)

\* A commit is one step of the abstract store, for the request that began.
LEMMA CommitIsWrite ==
    ASSUME IInv, AsAsked, Commit
    PROVE  Store!Write(req.cursor, req.batch)
<1>1. /\ pc = "evict" /\ db'.envelopes = tx.envelopes /\ db'.nextSeq = tx.seq
      /\ reply' = DoneReply(tx.seq, req.cursor)
  BY DEF Commit, IInv, TypeOK
<1>2. /\ req.cursor <= db.nextSeq
      /\ After(db.envelopes, req.cursor) = {}
      /\ Conflicts(db.envelopes, req.batch.uploads) = {}
      /\ tx.envelopes = RowsAfter(db.envelopes, db.nextSeq, req.batch)
      /\ tx.seq = ClockAfter(db.envelopes, db.nextSeq, req.batch)
  BY <1>1 DEF AsAsked, Idle, Asked
<1> QED
  BY <1>1, <1>2, SameReading, SameWrites, SameReplies DEF Store!Write

\* What commits after all its statements is what the abstract store makes in
\* one step of the very request that began.
THEOREM RoundsDoAsAsked == Spec => DoneAsAsked
<1>1. IInv /\ AsAsked /\ [Next]_vars => [Commit => Store!Write(req.cursor, req.batch)]_vars
  BY CommitIsWrite
<1> QED
  BY <1>1, AlwaysAsAsked, PTL DEF Spec, DoneAsAsked

\* The relay starts as the abstract store does.
LEMMA InitImplements == Init => Store!Init
<1> SUFFICES ASSUME Init PROVE Store!Init
  OBVIOUS
<1>1. PICK old \in OldAccounts : db.envelopes = old.rows /\ db.nextSeq = old.clock
  BY DEF Init
<1>2. reply = NoReply
  BY DEF Init
<1> QED
  BY <1>1, <1>2, SameReplies DEF Store!Init

\* A step that shows nothing and changes no row is none of the abstract store's.
LEMMA Stutters ==
    ASSUME db'.envelopes = db.envelopes, db'.nextSeq = db.nextSeq, reply' = reply
    PROVE  [Store!Next]_(Store!vars)
BY DEF Store!vars

\* Every step of the relay is a step of the abstract store or none.
LEMMA NextImplements == IInv /\ AsAsked /\ [Next]_vars => [Store!Next]_(Store!vars)
<1> SUFFICES ASSUME IInv, AsAsked, [Next]_vars PROVE [Store!Next]_(Store!vars)
  OBVIOUS
<1>1. CASE DropAccount
  <2>1. Store!Forget
    BY <1>1, SameReplies DEF DropAccount, Store!Forget, IInv, TypeOK
  <2> QED
    BY <2>1 DEF Store!Next
<1>2. CASE RefuseOverQuota
  <2>1. Store!OverQuota
    BY <1>2, SameReplies DEF RefuseOverQuota, Store!OverQuota
  <2> QED
    BY <2>1 DEF Store!Next
<1>3. ASSUME NEW cursor \in Cursors, AnswerReset(cursor)
      PROVE  [Store!Next]_(Store!vars)
  <2>1. Store!Reset(cursor)
    BY <1>3, SameReplies DEF AnswerReset, Store!Reset
  <2> QED
    BY <2>1 DEF Store!Next
<1>4. ASSUME NEW cursor \in Cursors, NEW batch \in Batches,
             AnswerPage(cursor, batch) \/ AnswerConflict(cursor, batch)
      PROVE  [Store!Next]_(Store!vars)
  <2>1. CASE AnswerPage(cursor, batch)
    <3>1. Store!Show(cursor, batch)
      BY <2>1, SameReading, SameReplies DEF AnswerPage, Store!Show
    <3> QED
      BY <3>1 DEF Store!Next
  <2>2. CASE AnswerConflict(cursor, batch)
    <3>1. Store!Refuse(cursor, batch)
      BY <2>2, SameReading, SameReplies DEF AnswerConflict, Store!Refuse
    <3> QED
      BY <3>1 DEF Store!Next
  <2> QED
    BY <1>4, <2>1, <2>2
<1>5. CASE Commit
  <2>1. req.cursor \in Cursors /\ req.batch \in Batches
    BY <1>5 DEF Commit, AsAsked, Asked, Idle
  <2> QED
    BY <1>5, <2>1, CommitIsWrite DEF Store!Next
<1>6. CASE \/ CreateAccount \/ RetireAccount \/ ReclaimStorage
           \/ \E maxBytes \in Quotas : SetAccountByteQuota(maxBytes)
  <2>1. db'.envelopes = db.envelopes /\ db'.nextSeq = db.nextSeq /\ reply' = reply
    BY <1>6 DEF CreateAccount, RetireAccount, ReclaimStorage, SetAccountByteQuota, round,
                IInv, TypeOK
  <2> QED
    BY <2>1, Stutters
<1>7. CASE \/ \E cursor \in Cursors, batch \in Batches : BeginWrites(cursor, batch)
           \/ \E d \in tx.deletions : SkipDeletion(d) \/ ApplyDeletion(d)
           \/ DeletionsDone \/ SkipUpload \/ ApplyUpload \/ SettleHistory \/ EvictVersion
           \/ Rollback \/ \E versions \in Windows : Restart(versions)
  <2>1. db' = db /\ reply' = reply
    BY <1>7 DEF BeginWrites, SkipDeletion, ApplyDeletion, DeletionsDone, SkipUpload, ApplyUpload,
                SettleHistory, EvictVersion, Rollback, Restart
  <2> QED
    BY <2>1, Stutters
<1>8. CASE UNCHANGED vars
  BY <1>8, Stutters DEF vars
<1> QED
  BY <1>1, <1>2, <1>3, <1>4, <1>5, <1>6, <1>7, <1>8 DEF Next

\* The transaction implements the store that answers in one step.
THEOREM RelayImplementsStore == Spec => Implements
<1>1. Spec => [](IInv /\ AsAsked)
  BY AlwaysAsAsked
<1> QED
  BY <1>1, InitImplements, NextImplements, PTL DEF Spec, Implements, Store!Spec

===============================================================================
