---------------------------- MODULE NoteMergeProofs ----------------------------
(***************************************************************************)
(* Merging the copies of a note, for any number of devices, images and     *)
(* edits, and whatever the clocks show: two copies merge into the same     *)
(* note on either side and merging again changes nothing; and when all     *)
(* devices hold one copy, it is what their edits should have made.         *)
(***************************************************************************)
EXTENDS NoteMerge, SetFacts

-----------------------------------------------------------------------------
(* The kinds of things.                                                     *)

StampType == [time : Nat, writer : Nat]
Item == [phrase : Nat, put : Nat]
Doc == [base : StampType, added : SUBSET Item, removed : SUBSET Item]
Image == [time : Nat, content : Int]

Note ==
    [ value : [WholeFields -> Int], time : [NOTE_FIELDS -> Nat], writer : [NOTE_FIELDS -> Nat],
      updatedAt : Nat \ {0}, doc : Doc, images : [Images -> Image], buried : [Images -> Nat] ]

-----------------------------------------------------------------------------
(* Times and stamps.                                                        *)

LEMMA MaxOfTwo ==
    ASSUME NEW a \in Nat, NEW b \in Nat
    PROVE  /\ Max({a, b}) \in {a, b} /\ Max({a, b}) \in Nat
           /\ Max({a, b}) >= a /\ Max({a, b}) >= b
<1>1. \E x \in {a, b} : \A y \in {a, b} : x >= y
  OBVIOUS
<1>2. Max({a, b}) \in {a, b} /\ \A y \in {a, b} : Max({a, b}) >= y
  BY <1>1 DEF Max
<1> QED
  BY <1>2

LEMMA MaxSame == ASSUME NEW a, NEW b PROVE Max({a, b}) = Max({b, a})
<1>1. {a, b} = {b, a}
  OBVIOUS
<1> QED
  BY <1>1

LEMMA MaxOfFive ==
    ASSUME NEW a \in Nat, NEW b \in Nat, NEW c \in Nat, NEW d \in Nat, NEW e \in Nat,
           NEW S, S = {a, b, c, d, e}
    PROVE  Max(S) \in S /\ \A y \in S : Max(S) >= y
<1>1. PICK x \in {a, b} : x >= a /\ x >= b
  OBVIOUS
<1>2. PICK y \in {x, c} : y >= x /\ y >= c
  BY <1>1
<1>3. PICK z \in {y, d} : z >= y /\ z >= d
  BY <1>1, <1>2
<1>4. PICK t \in {z, e} : t >= z /\ t >= e
  BY <1>1, <1>2, <1>3
<1>5. t \in S /\ \A v \in S : t >= v
  BY <1>1, <1>2, <1>3, <1>4
<1>6. \E v \in S : \A w \in S : v >= w
  BY <1>5
<1> QED
  BY <1>6 DEF Max

\* The time of a note is that of its latest field, and never goes back.
LEMMA LargestTimeOf ==
    ASSUME NEW n, n.time \in [NOTE_FIELDS -> Nat], n.updatedAt \in Nat \ {0}
    PROVE  /\ LargestTime(n) \in Nat \ {0}
           /\ LargestTime(n) >= n.updatedAt
           /\ \A f \in NOTE_FIELDS : LargestTime(n) >= n.time[f]
           /\ LargestTime(n) = n.updatedAt \/ \E f \in NOTE_FIELDS : LargestTime(n) = n.time[f]
<1> DEFINE S == { n.time[f] : f \in NOTE_FIELDS } \cup {n.updatedAt}
<1>1. NOTE_FIELDS = {"title", "secret", "body", "images"}
  BY DEF NOTE_FIELDS, WholeFields
<1>2. S = {n.time["title"], n.time["secret"], n.time["body"], n.time["images"], n.updatedAt}
  BY <1>1
<1>3. \A f \in NOTE_FIELDS : n.time[f] \in Nat
  OBVIOUS
<1> HIDE DEF S
<1>4. Max(S) \in S /\ \A y \in S : Max(S) >= y
  BY <1>1, <1>2, <1>3, MaxOfFive
<1>5. LargestTime(n) = Max(S)
  BY DEF LargestTime, S
<1>6. \A f \in NOTE_FIELDS : n.time[f] \in S
  BY DEF S
<1>7. n.updatedAt \in S
  BY DEF S
<1>8. \A y \in S : y = n.updatedAt \/ \E f \in NOTE_FIELDS : y = n.time[f]
  BY DEF S
<1>9. LargestTime(n) >= n.updatedAt /\ \A f \in NOTE_FIELDS : LargestTime(n) >= n.time[f]
  BY <1>4, <1>5, <1>6, <1>7
<1>10. LargestTime(n) = n.updatedAt \/ \E f \in NOTE_FIELDS : LargestTime(n) = n.time[f]
  BY <1>4, <1>5, <1>8
<1>11. LargestTime(n) \in Nat
  BY <1>3, <1>10
<1> QED
  BY <1>9, <1>10, <1>11

\* Stamps are in order, and the order is total.
LEMMA StampsInOrder ==
    ASSUME NEW a \in StampType, NEW b \in StampType, NEW c \in StampType
    PROVE  /\ Later(a, b) \/ Later(b, a) \/ a = b
           /\ ~(Later(a, b) /\ Later(b, a)) /\ ~Later(a, a)
           /\ ~Later(a, b) /\ ~Later(b, c) => ~Later(a, c)
           /\ ~Later(a, b) => b.time >= a.time
<1>1. a = [time |-> a.time, writer |-> a.writer] /\ b = [time |-> b.time, writer |-> b.writer]
  BY DEF StampType
<1>2. /\ a.time \in Nat /\ a.writer \in Nat /\ b.time \in Nat /\ b.writer \in Nat
      /\ c.time \in Nat /\ c.writer \in Nat
  BY DEF StampType
<1>3. a.time = b.time /\ a.writer = b.writer => a = b
  BY <1>1
<1> QED
  BY <1>2, <1>3 DEF Later

\* One of two values is one of them, whichever way they are named.
LEMMA EitherOf ==
    ASSUME NEW x, NEW y
    PROVE  Either(x, y) \in {x, y} /\ Either(x, y) = Either(y, x)
<1>1. {x, y} = {y, x}
  OBVIOUS
<1>2. Either(x, y) = Either(y, x)
  BY <1>1, Zenon DEF Either
<1>3. Either(x, y) \in {x, y}
  BY DEF Either
<1> QED
  BY <1>2, <1>3

\* The later stamp is first, or else one of two different values.
LEMMA FirstOrSecond ==
    ASSUME NEW a \in StampType, NEW b \in StampType, NEW x, NEW y
    PROVE  /\ Later(a, b) => FirstIsLatest(a, b, x, y)
           /\ Later(b, a) => ~FirstIsLatest(a, b, x, y)
           /\ FirstIsLatest(a, b, x, y) => ~Later(b, a)
           /\ ~FirstIsLatest(a, b, x, y) => ~Later(a, b)
           /\ a = b => (FirstIsLatest(a, b, x, y) <=> Either(x, y) = x)
           /\ a # b \/ x # y => (FirstIsLatest(b, a, y, x) <=> ~FirstIsLatest(a, b, x, y))
<1>1. /\ Later(a, b) \/ Later(b, a) \/ a = b
      /\ ~(Later(a, b) /\ Later(b, a)) /\ ~Later(a, a)
  BY StampsInOrder
<1>2. Either(x, y) \in {x, y} /\ Either(x, y) = Either(y, x)
  BY EitherOf
<1> QED
  BY <1>1, <1>2 DEF FirstIsLatest

\* What a field's stamp is.
LEMMA StampOf ==
    ASSUME NEW n \in Note, NEW f \in NOTE_FIELDS
    PROVE  /\ FieldTime(n, f) \in Nat \ {0} /\ n.writer[f] \in Nat
           /\ Stamp(n, f) \in StampType
           /\ Stamp(n, f).time = FieldTime(n, f) /\ Stamp(n, f).writer = n.writer[f]
           /\ LargestTime(n) \in Nat \ {0} /\ LargestTime(n) >= FieldTime(n, f)
<1>1. n.time[f] \in Nat /\ n.writer[f] \in Nat /\ n.updatedAt \in Nat \ {0}
      /\ n.time \in [NOTE_FIELDS -> Nat]
  BY DEF Note
<1>2. FieldTime(n, f) \in Nat \ {0}
  BY <1>1 DEF FieldTime, Unstamped
<1>3. LargestTime(n) \in Nat \ {0} /\ LargestTime(n) >= FieldTime(n, f)
  BY <1>1, LargestTimeOf DEF FieldTime
<1> QED
  BY <1>1, <1>2, <1>3 DEF Stamp, StampType

\* Notes of equal fields are equal.
LEMMA SameNote ==
    ASSUME NEW m \in Note, NEW n \in Note,
           \A f \in WholeFields : m.value[f] = n.value[f],
           \A f \in NOTE_FIELDS : m.time[f] = n.time[f] /\ m.writer[f] = n.writer[f],
           m.updatedAt = n.updatedAt, m.doc = n.doc,
           \A i \in Images : m.images[i] = n.images[i] /\ m.buried[i] = n.buried[i]
    PROVE  m = n
<1>1. /\ m.value \in [WholeFields -> Int] /\ n.value \in [WholeFields -> Int]
      /\ m.time \in [NOTE_FIELDS -> Nat] /\ n.time \in [NOTE_FIELDS -> Nat]
      /\ m.writer \in [NOTE_FIELDS -> Nat] /\ n.writer \in [NOTE_FIELDS -> Nat]
      /\ m.images \in [Images -> Image] /\ n.images \in [Images -> Image]
      /\ m.buried \in [Images -> Nat] /\ n.buried \in [Images -> Nat]
  BY DEF Note
<1>2. m.value = n.value
  BY <1>1
<1>3. m.time = n.time
  BY <1>1
<1>4. m.writer = n.writer
  BY <1>1
<1>5. m.images = n.images
  BY <1>1
<1>6. m.buried = n.buried
  BY <1>1
<1> QED
  BY <1>2, <1>3, <1>4, <1>5, <1>6 DEF Note

\* Documents of one base, in fields.
LEMMA SameDoc ==
    ASSUME NEW x \in Doc, NEW y \in Doc, x.base = y.base, x.added = y.added, x.removed = y.removed
    PROVE  x = y
BY DEF Doc

LEMMA NoDocType == NoDoc \in Doc /\ NoImage \in Image /\ 0 \in Nat
BY DEF NoDoc, Doc, StampType, NoImage, Image, NoWriter

\* A stamp makes a base that is not the empty document's.
LEMMA BaseOf ==
    ASSUME NEW b \in StampType
    PROVE  LET x == [NoDoc EXCEPT !.base = b]
           IN  /\ x \in Doc /\ x.base = b /\ x.added = {} /\ x.removed = {}
               /\ b.time # 0 => x # NoDoc
BY NoDocType DEF NoDoc, Doc

-----------------------------------------------------------------------------
(* Picking a field.                                                         *)

\* A field comes from one of the copies, with the later stamp.
LEMMA PickedIs ==
    ASSUME NEW l \in Note, NEW r \in Note, NEW f \in NOTE_FIELDS, NEW p, p = Picked(l, r, f)
    PROVE  /\ p \in {l, r} /\ p \in Note
           /\ ~Later(Stamp(l, f), Stamp(p, f)) /\ ~Later(Stamp(r, f), Stamp(p, f))
           /\ FieldTime(p, f) >= FieldTime(l, f) /\ FieldTime(p, f) >= FieldTime(r, f)
<1> DEFINE a == Stamp(l, f)
           b == Stamp(r, f)
           first == FirstIsLatest(a, b, FieldOf(l, f), FieldOf(r, f))
<1>1. a \in StampType /\ b \in StampType
      /\ a.time = FieldTime(l, f) /\ b.time = FieldTime(r, f)
  BY StampOf
<1>2. p = IF first THEN l ELSE r
  BY DEF Picked
<1>3. (first => ~Later(b, a)) /\ (~first => ~Later(a, b))
  <2> HIDE DEF a, b
  <2> QED
    BY <1>1, FirstOrSecond
<1>4. ~Later(a, a) /\ ~Later(b, b)
  <2> HIDE DEF a, b, first
  <2> QED
    BY <1>1, StampsInOrder
<1>5. (~Later(b, a) => a.time >= b.time) /\ (~Later(a, b) => b.time >= a.time)
  <2> HIDE DEF a, b, first
  <2> QED
    BY <1>1, StampsInOrder
<1>6. a.time \in Nat /\ b.time \in Nat
  <2> HIDE DEF a, b, first
  <2> QED
    BY <1>1 DEF StampType
<1>7. CASE first
  <2>1. p = l /\ Stamp(p, f) = a
    BY <1>2, <1>7
  <2> HIDE DEF first
  <2> QED
    BY <1>1, <1>3, <1>4, <1>5, <1>6, <1>7, <2>1
<1>8. CASE ~first
  <2>1. p = r /\ Stamp(p, f) = b
    BY <1>2, <1>8
  <2> HIDE DEF first
  <2> QED
    BY <1>1, <1>3, <1>4, <1>5, <1>6, <1>8, <2>1
<1> QED
  BY <1>7, <1>8

\* Which of the copies is merged into the other makes no difference to a field.
LEMMA PickedEitherWay ==
    ASSUME NEW l \in Note, NEW r \in Note, NEW f \in NOTE_FIELDS
    PROVE  /\ Stamp(Picked(l, r, f), f) = Stamp(Picked(r, l, f), f)
           /\ FieldOf(Picked(l, r, f), f) = FieldOf(Picked(r, l, f), f)
<1> DEFINE a == Stamp(l, f)
           b == Stamp(r, f)
           x == FieldOf(l, f)
           y == FieldOf(r, f)
<1>1. a \in StampType /\ b \in StampType
  BY StampOf
<1>2. Picked(l, r, f) = IF FirstIsLatest(a, b, x, y) THEN l ELSE r
  BY DEF Picked
<1>3. Picked(r, l, f) = IF FirstIsLatest(b, a, y, x) THEN r ELSE l
  BY DEF Picked
<1>4. a # b \/ x # y => (FirstIsLatest(b, a, y, x) <=> ~FirstIsLatest(a, b, x, y))
  <2> HIDE DEF a, b, x, y
  <2> QED
    BY <1>1, FirstOrSecond
<1>5. CASE a # b \/ x # y
  <2>1. Picked(l, r, f) = Picked(r, l, f)
    <3> HIDE DEF a, b, x, y
    <3> QED
      BY <1>2, <1>3, <1>4, <1>5
  <2> QED
    BY <2>1
<1>6. CASE a = b /\ x = y
  <2>1. Picked(l, r, f) \in {l, r} /\ Picked(r, l, f) \in {l, r}
    BY <1>2, <1>3
  <2> QED
    BY <1>6, <2>1
<1> QED
  BY <1>5, <1>6

-----------------------------------------------------------------------------
(* What comes out of a merge.                                               *)

\* Of two images it is one of them, and not none if either is one.
LEMMA PickedImage ==
    ASSUME NEW x \in Image, NEW y \in Image
    PROVE  /\ PickImage(x, y) \in Image /\ PickImage(x, y) = PickImage(y, x)
           /\ PickImage(PickImage(x, y), y) = PickImage(x, y)
           /\ x # NoImage \/ y # NoImage => PickImage(x, y) # NoImage
<1>1. x.time \in Nat /\ y.time \in Nat /\ NoImage.time = 0
  BY DEF Image, NoImage
<1>2. /\ Either(x, y) \in {x, y} /\ Either(x, y) = Either(y, x)
      /\ Either(y, y) = y
  BY EitherOf
<1>3. CASE x.time # y.time
  <2>1. PickImage(x, y) = (IF x.time > y.time THEN x ELSE y) /\ PickImage(x, y) = PickImage(y, x)
    BY <1>1, <1>3 DEF PickImage
  <2>2. PickImage(x, y) # NoImage
    BY <1>1, <1>3, <2>1
  <2>3. PickImage(y, y) = y
    BY <1>2 DEF PickImage
  <2>4. PickImage(PickImage(x, y), y) = PickImage(x, y)
    BY <1>1, <1>3, <2>1, <2>3
  <2> QED
    BY <2>1, <2>2, <2>4
<1>4. CASE x.time = y.time
  <2>1. CASE x = NoImage
    <3>1. PickImage(x, y) = y /\ PickImage(y, y) = y
      BY <1>2, <1>4, <2>1 DEF PickImage
    <3>2. PickImage(y, x) = y
      BY <1>4, <2>1 DEF PickImage
    <3> QED
      BY <2>1, <3>1, <3>2
  <2>2. CASE y = NoImage /\ x # NoImage
    <3>1. PickImage(x, y) = x /\ PickImage(y, x) = x
      BY <1>4, <2>2 DEF PickImage
    <3> QED
      BY <2>2, <3>1
  <2>3. CASE x # NoImage /\ y # NoImage
    <3>1. PickImage(x, y) = Either(x, y) /\ PickImage(y, x) = Either(x, y)
      BY <1>2, <1>4, <2>3 DEF PickImage
    <3>2. PickImage(y, y) = y
      BY <1>2 DEF PickImage
    <3> QED
      BY <1>2, <2>3, <3>1, <3>2
  <2> QED
    BY <2>1, <2>2, <2>3
<1> QED
  BY <1>3, <1>4

\* Of two bodies: one of the documents, what both hold on one base, or a
\* new base for a plain text that is later than the document's.
LEMMA MergedBody ==
    ASSUME NEW l \in Note, NEW r \in Note
    PROVE  /\ MergedDoc(l, r) \in Doc
           /\ l.doc = NoDoc /\ r.doc = NoDoc => MergedDoc(l, r) = NoDoc
           /\ l.doc # NoDoc \/ r.doc # NoDoc => MergedDoc(l, r) # NoDoc
           /\ l.doc # NoDoc /\ r.doc # NoDoc /\ l.doc.base = r.doc.base =>
                /\ MergedDoc(l, r).base = l.doc.base
                /\ MergedDoc(l, r).added = l.doc.added \cup r.doc.added
                /\ MergedDoc(l, r).removed = l.doc.removed \cup r.doc.removed
<1> DEFINE d == MergedDoc(l, r)
           a == Stamp(l, "body")
           b == Stamp(r, "body")
<1>1. /\ a \in StampType /\ a.time # 0 /\ b \in StampType /\ b.time # 0
  BY StampOf DEF NOTE_FIELDS
<1>2. l.doc \in Doc /\ r.doc \in Doc
  BY DEF Note
<1>3. CASE l.doc = NoDoc /\ r.doc = NoDoc
  BY <1>3, NoDocType DEF MergedDoc
<1>4. CASE l.doc = NoDoc /\ r.doc # NoDoc
  <2>1. d = r.doc \/ d = [NoDoc EXCEPT !.base = a]
    BY <1>4 DEF MergedDoc, OverPlain
  <2>2. [NoDoc EXCEPT !.base = a] \in Doc /\ [NoDoc EXCEPT !.base = a] # NoDoc
    <3> HIDE DEF a
    <3> QED
      BY <1>1, BaseOf
  <2> QED
    BY <1>2, <1>4, <2>1, <2>2
<1>5. CASE l.doc # NoDoc /\ r.doc = NoDoc
  <2>1. d = l.doc \/ d = [NoDoc EXCEPT !.base = b]
    BY <1>5 DEF MergedDoc, OverPlain
  <2>2. [NoDoc EXCEPT !.base = b] \in Doc /\ [NoDoc EXCEPT !.base = b] # NoDoc
    <3> HIDE DEF b
    <3> QED
      BY <1>1, BaseOf
  <2> QED
    BY <1>2, <1>5, <2>1, <2>2
<1>6. CASE l.doc # NoDoc /\ r.doc # NoDoc /\ l.doc.base # r.doc.base
  <2>1. d = l.doc \/ d = r.doc
    BY <1>6 DEF MergedDoc
  <2> QED
    BY <1>2, <1>6, <2>1
<1>7. CASE l.doc # NoDoc /\ r.doc # NoDoc /\ l.doc.base = r.doc.base
  <2>1. d = [l.doc EXCEPT !.added = @ \cup r.doc.added, !.removed = @ \cup r.doc.removed]
    BY <1>7 DEF MergedDoc
  <2>2. /\ d.base = l.doc.base /\ d.added = l.doc.added \cup r.doc.added
        /\ d.removed = l.doc.removed \cup r.doc.removed /\ d \in Doc
    BY <1>2, <2>1 DEF Doc
  <2>3. d = NoDoc => l.doc.added = {} /\ l.doc.removed = {} /\ l.doc.base = NoDoc.base
    BY <2>2 DEF NoDoc
  <2>4. d # NoDoc
    BY <1>2, <1>7, <2>3, SameDoc, NoDocType DEF NoDoc
  <2> QED
    BY <1>7, <2>2, <2>4
<1> QED
  BY <1>3, <1>4, <1>5, <1>6, <1>7

\* Every field is stamped by a merge but a flag that was never set.
StampsField(l, r, f) == f # "secret" \/ ~NeverSecret(l, r)

LEMMA Merged ==
    ASSUME NEW l \in Note, NEW r \in Note, NEW m, m = MergeTwoNotes(l, r)
    PROVE  /\ m \in Note
           /\ \A f \in WholeFields : m.value[f] = Picked(l, r, f).value[f]
           /\ \A f \in NOTE_FIELDS :
                IF StampsField(l, r, f)
                THEN m.time[f] = FieldTime(Picked(l, r, f), f) /\ m.writer[f] = Picked(l, r, f).writer[f]
                ELSE m.time[f] = Unstamped /\ m.writer[f] = NoWriter
           /\ m.doc = MergedDoc(l, r)
           /\ \A i \in Images :
                IF i \in KeptImages(l, r)
                THEN m.images[i] = PickImage(l.images[i], r.images[i]) /\ m.buried[i] = 0
                ELSE m.images[i] = NoImage /\ m.buried[i] = Buried(l, r, i)
           /\ m.updatedAt >= l.updatedAt /\ m.updatedAt >= r.updatedAt
           /\ \A f \in NOTE_FIELDS : m.updatedAt >= m.time[f]
           /\ \/ m.updatedAt = l.updatedAt \/ m.updatedAt = r.updatedAt
              \/ \E f \in NOTE_FIELDS : m.updatedAt = m.time[f]
<1> DEFINE stamped(f) == StampsField(l, r, f)
           kept == KeptImages(l, r)
           u == Max({l.updatedAt, r.updatedAt})
           v == [f \in WholeFields |-> Picked(l, r, f).value[f]]
           t == [f \in NOTE_FIELDS |->
                        IF stamped(f) THEN FieldTime(Picked(l, r, f), f) ELSE Unstamped]
           w == [f \in NOTE_FIELDS |->
                        IF stamped(f) THEN Picked(l, r, f).writer[f] ELSE NoWriter]
           im == [i \in Images |->
                        IF i \in kept THEN PickImage(l.images[i], r.images[i]) ELSE NoImage]
           bu == [i \in Images |-> IF i \in kept THEN 0 ELSE Buried(l, r, i)]
           d == MergedDoc(l, r)
           merged == [value |-> v, time |-> t, writer |-> w, updatedAt |-> u,
                      doc |-> d, images |-> im, buried |-> bu]
<1>1. m = [merged EXCEPT !.updatedAt = LargestTime(merged)]
  BY DEF MergeTwoNotes, StampsField
<1>2. \A f \in WholeFields : f \in NOTE_FIELDS
  BY DEF NOTE_FIELDS
<1>3. v \in [WholeFields -> Int]
  <2>1. ASSUME NEW f \in WholeFields PROVE Picked(l, r, f).value[f] \in Int
    <3>1. Picked(l, r, f) \in Note
      BY <1>2, PickedIs
    <3> QED
      BY <3>1 DEF Note
  <2> QED
    BY <2>1
<1>4. t \in [NOTE_FIELDS -> Nat] /\ w \in [NOTE_FIELDS -> Nat]
  <2>1. ASSUME NEW f \in NOTE_FIELDS
        PROVE  FieldTime(Picked(l, r, f), f) \in Nat /\ Picked(l, r, f).writer[f] \in Nat
    <3>1. Picked(l, r, f) \in Note
      BY PickedIs
    <3> QED
      BY <3>1, StampOf
  <2>2. Unstamped \in Nat /\ NoWriter \in Nat
    BY DEF Unstamped, NoWriter
  <2> HIDE DEF stamped
  <2> QED
    BY <2>1, <2>2
<1>5. /\ l.updatedAt \in Nat \ {0} /\ r.updatedAt \in Nat \ {0}
      /\ l.images \in [Images -> Image] /\ r.images \in [Images -> Image]
      /\ l.buried \in [Images -> Nat] /\ r.buried \in [Images -> Nat]
  BY DEF Note
<1>6. u \in Nat \ {0} /\ u >= l.updatedAt /\ u >= r.updatedAt /\ u \in {l.updatedAt, r.updatedAt}
  BY <1>5, MaxOfTwo
<1>7. im \in [Images -> Image]
  BY <1>5, PickedImage, NoDocType
<1>8. bu \in [Images -> Nat]
  BY <1>5, MaxOfTwo DEF Buried
<1>9. d \in Doc
  BY MergedBody
<1>10. merged.time = t /\ merged.updatedAt = u
  OBVIOUS
<1>11. /\ LargestTime(merged) \in Nat \ {0} /\ LargestTime(merged) >= u
       /\ \A f \in NOTE_FIELDS : LargestTime(merged) >= t[f]
       /\ LargestTime(merged) = u \/ \E f \in NOTE_FIELDS : LargestTime(merged) = t[f]
  <2> HIDE DEF merged, t, u
  <2> QED
    BY <1>4, <1>6, <1>10, LargestTimeOf
<1> DEFINE top == LargestTime(merged)
<1>12. /\ m.value = v /\ m.time = t /\ m.writer = w /\ m.updatedAt = top
       /\ m.doc = d /\ m.images = im /\ m.buried = bu
       /\ m = [value |-> v, time |-> t, writer |-> w, updatedAt |-> top,
               doc |-> d, images |-> im, buried |-> bu]
  <2> HIDE DEF v, t, w, u, d, im, bu
  <2> QED
    BY <1>1
<1>13. m \in Note
  <2> HIDE DEF v, t, w, u, d, im, bu, merged
  <2> QED
    BY <1>3, <1>4, <1>7, <1>8, <1>9, <1>11, <1>12 DEF Note
<1>14. \A f \in WholeFields : m.value[f] = Picked(l, r, f).value[f]
  BY <1>12
<1>15. \A f \in NOTE_FIELDS :
          IF stamped(f)
          THEN m.time[f] = FieldTime(Picked(l, r, f), f) /\ m.writer[f] = Picked(l, r, f).writer[f]
          ELSE m.time[f] = Unstamped /\ m.writer[f] = NoWriter
  BY <1>12
<1>16. \A i \in Images :
          IF i \in kept
          THEN m.images[i] = PickImage(l.images[i], r.images[i]) /\ m.buried[i] = 0
          ELSE m.images[i] = NoImage /\ m.buried[i] = Buried(l, r, i)
  BY <1>12
<1>17. /\ m.updatedAt >= l.updatedAt /\ m.updatedAt >= r.updatedAt
       /\ \A f \in NOTE_FIELDS : m.updatedAt >= m.time[f]
       /\ \/ m.updatedAt = l.updatedAt \/ m.updatedAt = r.updatedAt
          \/ \E f \in NOTE_FIELDS : m.updatedAt = m.time[f]
  <2>1. top \in Nat
    BY <1>11
  <2> HIDE DEF v, t, w, u, d, im, bu, merged, top
  <2>2. \A f \in NOTE_FIELDS : top >= t[f] /\ t[f] \in Nat
    BY <1>4, <1>11 DEF top
  <2>3. top >= u /\ (top = u \/ \E f \in NOTE_FIELDS : top = t[f])
    BY <1>11 DEF top
  <2>4. top >= l.updatedAt /\ top >= r.updatedAt
    BY <1>5, <1>6, <2>1, <2>3
  <2> QED
    BY <1>6, <1>12, <2>2, <2>3, <2>4
<1> HIDE DEF v, t, w, u, d, im, bu, merged, top
<1> QED
  BY <1>12, <1>13, <1>14, <1>15, <1>16, <1>17 DEF d

-----------------------------------------------------------------------------
(* The side a copy is on makes no difference.                               *)

\* Which images are kept.
LEMMA KeptEitherWay ==
    ASSUME NEW l, NEW r
    PROVE  /\ KeptImages(l, r) = KeptImages(r, l)
           /\ \A i \in Images : Buried(l, r, i) = Buried(r, l, i)
<1>1. \A i \in Images : Buried(l, r, i) = Buried(r, l, i)
  BY MaxSame DEF Buried
<1>2. ASSUME NEW i \in Images PROVE i \in KeptImages(l, r) <=> i \in KeptImages(r, l)
  <2>1. Buried(l, r, i) = Buried(r, l, i)
    BY <1>1
  <2> QED
    BY <2>1 DEF KeptImages
<1>3. KeptImages(l, r) \subseteq Images /\ KeptImages(r, l) \subseteq Images
  BY DEF KeptImages
<1> QED
  BY <1>1, <1>2, <1>3

\* Whose body is taken across bases.
LEMMA BodyEitherWay ==
    ASSUME NEW l \in Note, NEW r \in Note
    PROVE  MergedDoc(l, r) = MergedDoc(r, l)
<1> DEFINE a == Stamp(l, "body")
           b == Stamp(r, "body")
           x == Text(l)
           y == Text(r)
<1>1. a \in StampType /\ b \in StampType
  BY StampOf DEF NOTE_FIELDS
<1>2. l.doc \in Doc /\ r.doc \in Doc
  BY DEF Note
<1>3. CASE l.doc = NoDoc \/ r.doc = NoDoc
  BY <1>3 DEF MergedDoc
<1>4. CASE l.doc # NoDoc /\ r.doc # NoDoc /\ l.doc.base # r.doc.base
  <2>1. l.doc.base \in StampType /\ r.doc.base \in StampType
    BY <1>2 DEF Doc
  <2>2. Later(l.doc.base, r.doc.base) <=> ~Later(r.doc.base, l.doc.base)
    BY <1>4, <2>1, StampsInOrder
  <2>3. a # b \/ x # y => (FirstIsLatest(b, a, y, x) <=> ~FirstIsLatest(a, b, x, y))
    <3> HIDE DEF a, b, x, y
    <3> QED
      BY <1>1, FirstOrSecond
  <2>4. LeftBodyWins(l, r) <=> IF a = b /\ x = y THEN Later(l.doc.base, r.doc.base)
                               ELSE FirstIsLatest(a, b, x, y)
    BY DEF LeftBodyWins
  <2>5. LeftBodyWins(r, l) <=> IF b = a /\ y = x THEN Later(r.doc.base, l.doc.base)
                               ELSE FirstIsLatest(b, a, y, x)
    BY DEF LeftBodyWins
  <2>6. LeftBodyWins(l, r) <=> ~LeftBodyWins(r, l)
    <3> HIDE DEF a, b, x, y
    <3> QED
      BY <2>2, <2>3, <2>4, <2>5
  <2>7. MergedDoc(l, r) = (IF LeftBodyWins(l, r) THEN l.doc ELSE r.doc)
    BY <1>4 DEF MergedDoc
  <2>8. MergedDoc(r, l) = (IF LeftBodyWins(r, l) THEN r.doc ELSE l.doc)
    BY <1>4 DEF MergedDoc
  <2> QED
    BY <2>6, <2>7, <2>8
<1>5. CASE l.doc # NoDoc /\ r.doc # NoDoc /\ l.doc.base = r.doc.base
  <2>1. /\ MergedDoc(l, r) \in Doc /\ MergedDoc(r, l) \in Doc
        /\ MergedDoc(l, r).base = l.doc.base /\ MergedDoc(r, l).base = r.doc.base
        /\ MergedDoc(l, r).added = l.doc.added \cup r.doc.added
        /\ MergedDoc(r, l).added = r.doc.added \cup l.doc.added
        /\ MergedDoc(l, r).removed = l.doc.removed \cup r.doc.removed
        /\ MergedDoc(r, l).removed = r.doc.removed \cup l.doc.removed
    BY <1>5, MergedBody
  <2>2. l.doc.added \cup r.doc.added = r.doc.added \cup l.doc.added
        /\ l.doc.removed \cup r.doc.removed = r.doc.removed \cup l.doc.removed
    OBVIOUS
  <2> QED
    BY <1>5, <2>1, <2>2, SameDoc
<1> QED
  BY <1>3, <1>4, <1>5

\* A note's fields, as a merge reads them, are those of its stamp.
LEMMA StampParts ==
    ASSUME NEW m \in Note, NEW n \in Note, NEW f \in NOTE_FIELDS, Stamp(m, f) = Stamp(n, f)
    PROVE  FieldTime(m, f) = FieldTime(n, f) /\ m.writer[f] = n.writer[f]
BY StampOf

\* Two merges are alike if they take equally stamped and equally valued fields.
LEMMA MergeEitherWay ==
    ASSUME NEW l \in Note, NEW r \in Note
    PROVE  MergeTwoNotes(l, r) = MergeTwoNotes(r, l)
<1> DEFINE m == MergeTwoNotes(l, r)
           n == MergeTwoNotes(r, l)
<1>1. \A f \in WholeFields : f \in NOTE_FIELDS /\ f # "body" /\ f # "images"
  BY DEF NOTE_FIELDS, WholeFields
<1>2. \A f \in NOTE_FIELDS :
         /\ FieldTime(Picked(l, r, f), f) = FieldTime(Picked(r, l, f), f)
         /\ Picked(l, r, f).writer[f] = Picked(r, l, f).writer[f]
         /\ FieldOf(Picked(l, r, f), f) = FieldOf(Picked(r, l, f), f)
  BY PickedIs, PickedEitherWay, StampParts
<1>3. \A f \in NOTE_FIELDS : StampsField(l, r, f) = StampsField(r, l, f)
  BY DEF StampsField, NeverSecret
<1>4. m \in Note /\ n \in Note
  BY Merged
<1>5. ASSUME NEW f \in WholeFields PROVE m.value[f] = n.value[f]
  <2>1. m.value[f] = Picked(l, r, f).value[f] /\ n.value[f] = Picked(r, l, f).value[f]
    BY Merged
  <2>2. FieldOf(Picked(l, r, f), f) = Picked(l, r, f).value[f]
        /\ FieldOf(Picked(r, l, f), f) = Picked(r, l, f).value[f]
    BY <1>1 DEF FieldOf
  <2> QED
    BY <1>1, <1>2, <2>1, <2>2
<1>6. ASSUME NEW f \in NOTE_FIELDS PROVE m.time[f] = n.time[f] /\ m.writer[f] = n.writer[f]
  <2>1. IF StampsField(l, r, f)
        THEN m.time[f] = FieldTime(Picked(l, r, f), f) /\ m.writer[f] = Picked(l, r, f).writer[f]
        ELSE m.time[f] = Unstamped /\ m.writer[f] = NoWriter
    BY Merged
  <2>2. IF StampsField(r, l, f)
        THEN n.time[f] = FieldTime(Picked(r, l, f), f) /\ n.writer[f] = Picked(r, l, f).writer[f]
        ELSE n.time[f] = Unstamped /\ n.writer[f] = NoWriter
    BY Merged
  <2> HIDE DEF m, n
  <2>3. FieldTime(Picked(l, r, f), f) = FieldTime(Picked(r, l, f), f)
        /\ Picked(l, r, f).writer[f] = Picked(r, l, f).writer[f]
    BY <1>2
  <2>4. StampsField(l, r, f) = StampsField(r, l, f)
    BY <1>3
  <2>5. CASE StampsField(l, r, f)
    BY <2>1, <2>2, <2>3, <2>4, <2>5
  <2>6. CASE ~StampsField(l, r, f)
    BY <2>1, <2>2, <2>4, <2>6
  <2> QED
    BY <2>5, <2>6
<1>7. m.doc = n.doc
  <2>1. m.doc = MergedDoc(l, r) /\ n.doc = MergedDoc(r, l)
    BY Merged
  <2> QED
    BY <2>1, BodyEitherWay
<1>8. ASSUME NEW i \in Images PROVE m.images[i] = n.images[i] /\ m.buried[i] = n.buried[i]
  <2>1. IF i \in KeptImages(l, r)
        THEN m.images[i] = PickImage(l.images[i], r.images[i]) /\ m.buried[i] = 0
        ELSE m.images[i] = NoImage /\ m.buried[i] = Buried(l, r, i)
    BY Merged
  <2>2. IF i \in KeptImages(r, l)
        THEN n.images[i] = PickImage(r.images[i], l.images[i]) /\ n.buried[i] = 0
        ELSE n.images[i] = NoImage /\ n.buried[i] = Buried(r, l, i)
    BY Merged
  <2>3. KeptImages(l, r) = KeptImages(r, l) /\ Buried(l, r, i) = Buried(r, l, i)
    BY KeptEitherWay
  <2>4. l.images[i] \in Image /\ r.images[i] \in Image
    BY DEF Note
  <2>5. PickImage(l.images[i], r.images[i]) = PickImage(r.images[i], l.images[i])
    BY <2>4, PickedImage
  <2> HIDE DEF m, n
  <2> QED
    BY <2>1, <2>2, <2>3, <2>5
<1>9. m.updatedAt = n.updatedAt
  <2>1. /\ m.updatedAt >= l.updatedAt /\ m.updatedAt >= r.updatedAt
        /\ \A f \in NOTE_FIELDS : m.updatedAt >= m.time[f]
        /\ \/ m.updatedAt = l.updatedAt \/ m.updatedAt = r.updatedAt
           \/ \E f \in NOTE_FIELDS : m.updatedAt = m.time[f]
    BY Merged
  <2>2. /\ n.updatedAt >= l.updatedAt /\ n.updatedAt >= r.updatedAt
        /\ \A f \in NOTE_FIELDS : n.updatedAt >= n.time[f]
        /\ \/ n.updatedAt = l.updatedAt \/ n.updatedAt = r.updatedAt
           \/ \E f \in NOTE_FIELDS : n.updatedAt = n.time[f]
    BY Merged
  <2>3. m.updatedAt \in Nat /\ n.updatedAt \in Nat
    BY <1>4 DEF Note
  <2> HIDE DEF m, n
  <2>4. m.updatedAt <= n.updatedAt
    BY <1>6, <2>1, <2>2, <2>3
  <2>5. n.updatedAt <= m.updatedAt
    BY <1>6, <2>1, <2>2, <2>3
  <2> QED
    BY <2>3, <2>4, <2>5
<1> HIDE DEF m, n
<1>10. m = n
  BY <1>4, <1>5, <1>6, <1>7, <1>8, <1>9, SameNote
<1> QED
  BY <1>10 DEF m, n

-----------------------------------------------------------------------------
(* Merging again changes nothing.                                           *)

\* A merge has the stamp of the copy a field was taken from.
LEMMA StampMerged ==
    ASSUME NEW l \in Note, NEW r \in Note, NEW m, m = MergeTwoNotes(l, r),
           NEW f \in NOTE_FIELDS, StampsField(l, r, f)
    PROVE  /\ m.time[f] # Unstamped /\ FieldTime(m, f) = m.time[f]
           /\ Stamp(m, f) = Stamp(Picked(l, r, f), f)
<1>1. m.time[f] = FieldTime(Picked(l, r, f), f) /\ m.writer[f] = Picked(l, r, f).writer[f]
  <2>1. \A g \in NOTE_FIELDS :
          IF StampsField(l, r, g)
          THEN m.time[g] = FieldTime(Picked(l, r, g), g) /\ m.writer[g] = Picked(l, r, g).writer[g]
          ELSE m.time[g] = Unstamped /\ m.writer[g] = NoWriter
    BY Merged
  <2> QED
    BY <2>1
<1>2. FieldTime(Picked(l, r, f), f) \in Nat \ {0}
  BY PickedIs, StampOf
<1>3. m.time[f] # Unstamped
  BY <1>1, <1>2 DEF Unstamped
<1>4. FieldTime(m, f) = m.time[f]
  BY <1>3 DEF FieldTime
<1> QED
  BY <1>1, <1>3, <1>4 DEF Stamp

\* The field is taken from the merge, or from a copy that says the same of it.
LEMMA PickedAgain ==
    ASSUME NEW l \in Note, NEW r \in Note, NEW m, m = MergeTwoNotes(l, r),
           NEW f \in NOTE_FIELDS, StampsField(l, r, f)
    PROVE  /\ Stamp(Picked(m, r, f), f) = Stamp(m, f)
           /\ f \in WholeFields => Picked(m, r, f).value[f] = m.value[f]
<1> DEFINE a == Stamp(l, f)
           b == Stamp(r, f)
           c == Stamp(m, f)
           x == FieldOf(l, f)
           y == FieldOf(r, f)
           z == FieldOf(m, f)
           p == Picked(l, r, f)
           q == Picked(m, r, f)
<1>1. m \in Note /\ c = Stamp(p, f)
  BY Merged, StampMerged
<1>2. a \in StampType /\ b \in StampType /\ c \in StampType
  BY <1>1, StampOf
<1>3. p = IF FirstIsLatest(a, b, x, y) THEN l ELSE r
  BY DEF Picked
<1>4. q = IF FirstIsLatest(c, b, z, y) THEN m ELSE r
  BY DEF Picked
<1>5. f \in WholeFields => /\ m.value[f] = p.value[f]
                           /\ x = l.value[f] /\ y = r.value[f] /\ z = m.value[f]
  <2>1. f \in WholeFields => f # "body" /\ f # "images"
    BY DEF WholeFields
  <2>2. \A g \in WholeFields : m.value[g] = Picked(l, r, g).value[g]
    BY Merged
  <2> QED
    BY <2>1, <2>2 DEF FieldOf
<1>6. CASE p = r /\ ~FirstIsLatest(a, b, x, y)
  <2>1. c = b /\ (f \in WholeFields => m.value[f] = r.value[f])
    BY <1>1, <1>5, <1>6
  <2>2. q \in {m, r}
    BY <1>4
  <2> QED
    BY <2>1, <2>2
<1>7. CASE p = l /\ FirstIsLatest(a, b, x, y)
  <2>1. c = a /\ (f \in WholeFields => z = x)
    BY <1>1, <1>5, <1>7
  <2>2. CASE a = b
    <3>1. q \in {m, r}
      BY <1>4
    <3>2. Stamp(q, f) = c
      BY <2>1, <2>2, <3>1
    <3>3. f \in WholeFields => q = m
      <4> HIDE DEF a, b, c, x, y, z
      <4> QED
        BY <1>4, <1>7, <2>1
    <3> QED
      BY <3>2, <3>3
  <2>3. CASE a # b
    <3>1. Later(a, b)
      <4> HIDE DEF a, b, c, x, y, z, p, q
      <4> QED
        BY <1>2, <1>7, <2>3, StampsInOrder, FirstOrSecond
    <3>2. FirstIsLatest(c, b, z, y)
      <4> HIDE DEF a, b, c, x, y, z, p, q
      <4> QED
        BY <2>1, <3>1 DEF FirstIsLatest
    <3>3. q = m
      BY <1>4, <3>2
    <3> QED
      BY <3>3
  <2> QED
    BY <2>2, <2>3
<1> QED
  BY <1>3, <1>6, <1>7

\* The images that were kept are kept again, those that were buried stay buried.
LEMMA ImagesAgain ==
    ASSUME NEW l \in Note, NEW r \in Note, NEW m, m = MergeTwoNotes(l, r), NEW i \in Images
    PROVE  IF i \in KeptImages(m, r)
           THEN PickImage(m.images[i], r.images[i]) = m.images[i] /\ m.buried[i] = 0
           ELSE m.images[i] = NoImage /\ Buried(m, r, i) = m.buried[i]
<1> DEFINE x == l.images[i]
           y == r.images[i]
           old == Buried(l, r, i)
           new == Buried(m, r, i)
<1>1. /\ m \in Note /\ x \in Image /\ y \in Image /\ l.buried[i] \in Nat /\ r.buried[i] \in Nat
  BY Merged DEF Note
<1>2. IF i \in KeptImages(l, r)
      THEN m.images[i] = PickImage(x, y) /\ m.buried[i] = 0
      ELSE m.images[i] = NoImage /\ m.buried[i] = old
  BY Merged
<1>3. /\ old \in Nat /\ old >= l.buried[i] /\ old >= r.buried[i]
  BY <1>1, MaxOfTwo DEF Buried
<1>4. /\ FieldTime(l, "images") \in Nat /\ FieldTime(r, "images") \in Nat
      /\ FieldTime(m, "images") \in Nat /\ FieldTime(m, "images") >= FieldTime(l, "images")
  <2>1. "images" \in NOTE_FIELDS /\ StampsField(l, r, "images")
    BY DEF NOTE_FIELDS, StampsField
  <2>2. FieldTime(Picked(l, r, "images"), "images") >= FieldTime(l, "images")
    BY <2>1, PickedIs
  <2>3. Stamp(m, "images") = Stamp(Picked(l, r, "images"), "images")
    BY <2>1, StampMerged
  <2>4. FieldTime(m, "images") = FieldTime(Picked(l, r, "images"), "images")
    BY <1>1, <2>1, <2>3, PickedIs, StampParts
  <2> QED
    BY <1>1, <2>1, <2>2, <2>4, StampOf
<1>5. CASE i \in KeptImages(l, r)
  <2>1. /\ x # NoImage \/ y # NoImage
        /\ old = 0 \/ Restores(l, i, old) \/ Restores(r, i, old)
    BY <1>5 DEF KeptImages
  <2>2. m.images[i] # NoImage /\ m.buried[i] = 0
    BY <1>1, <1>2, <1>5, <2>1, PickedImage
  <2>3. new = r.buried[i]
    <3>1. new \in {0, r.buried[i]} /\ new >= r.buried[i] /\ new >= 0
      <4>1. 0 \in Nat
        OBVIOUS
      <4> QED
        BY <1>1, <2>2, <4>1, MaxOfTwo DEF Buried
    <3> QED
      BY <1>1, <3>1
  <2>4. new = 0 \/ Restores(m, i, new) \/ Restores(r, i, new)
    <3> HIDE DEF old, new
    <3>1. CASE old = 0
      BY <1>1, <1>3, <2>3, <3>1
    <3>2. CASE Restores(l, i, old)
      BY <1>1, <1>3, <1>4, <2>2, <2>3, <3>2 DEF Restores
    <3>3. CASE Restores(r, i, old)
      BY <1>1, <1>3, <1>4, <2>3, <3>3 DEF Restores
    <3> QED
      BY <2>1, <3>1, <3>2, <3>3
  <2>5. i \in KeptImages(m, r)
    BY <2>2, <2>4 DEF KeptImages
  <2>6. PickImage(m.images[i], y) = m.images[i]
    BY <1>1, <1>2, <1>5, PickedImage
  <2> QED
    BY <2>2, <2>5, <2>6
<1>6. CASE i \notin KeptImages(l, r)
  <2>1. m.images[i] = NoImage /\ m.buried[i] = old
    BY <1>2, <1>6
  <2>2. new = old
    <3>1. new \in {old, r.buried[i]} /\ new >= old
      BY <1>1, <1>3, <2>1, MaxOfTwo DEF Buried
    <3> HIDE DEF old, new
    <3> QED
      BY <1>1, <1>3, <3>1
  <2>3. ~Restores(m, i, new)
    BY <2>1 DEF Restores
  <2>4. i \notin KeptImages(m, r)
    BY <1>6, <2>1, <2>2, <2>3 DEF KeptImages
  <2> QED
    BY <2>1, <2>2, <2>4
<1> QED
  BY <1>5, <1>6

\* The body as well.
LEMMA BodyAgain ==
    ASSUME NEW l \in Note, NEW r \in Note, NEW m, m = MergeTwoNotes(l, r)
    PROVE  MergedDoc(m, r) = m.doc
<1> DEFINE a == Stamp(l, "body")
           b == Stamp(r, "body")
           c == Stamp(m, "body")
           p == Picked(l, r, "body")
           x == Text(l)
           y == Text(r)
<1>1. "body" \in NOTE_FIELDS /\ StampsField(l, r, "body")
  BY DEF NOTE_FIELDS, StampsField
<1>2. m \in Note /\ m.doc = MergedDoc(l, r) /\ c = Stamp(p, "body")
  BY <1>1, Merged, StampMerged
<1>3. p = IF FirstIsLatest(a, b, x, y) THEN l ELSE r
  BY DEF Picked, FieldOf
<1>4. a \in StampType /\ b \in StampType /\ c \in StampType /\ a.time # 0 /\ b.time # 0
  BY <1>1, <1>2, StampOf
<1>5. l.doc \in Doc /\ r.doc \in Doc /\ m.doc \in Doc
      /\ l.doc.base \in StampType /\ r.doc.base \in StampType
  BY <1>2 DEF Note, Doc
\* A document merged with itself.
<1>6. r.doc # NoDoc /\ m.doc = r.doc => MergedDoc(m, r) = m.doc
  <2> SUFFICES ASSUME r.doc # NoDoc, m.doc = r.doc PROVE MergedDoc(m, r) = m.doc
    OBVIOUS
  <2>1. /\ MergedDoc(m, r) \in Doc /\ MergedDoc(m, r).base = m.doc.base
        /\ MergedDoc(m, r).added = m.doc.added \cup r.doc.added
        /\ MergedDoc(m, r).removed = m.doc.removed \cup r.doc.removed
    BY <1>2, MergedBody
  <2>2. m.doc.added \cup r.doc.added = m.doc.added /\ m.doc.removed \cup r.doc.removed = m.doc.removed
    OBVIOUS
  <2> QED
    BY <1>5, <2>1, <2>2, SameDoc
<1>7. CASE l.doc = NoDoc /\ r.doc = NoDoc
  BY <1>2, <1>7 DEF MergedDoc
<1>8. CASE l.doc = NoDoc /\ r.doc # NoDoc
  <2>1. m.doc = OverPlain(r, l)
    BY <1>2, <1>8 DEF MergedDoc
  <2>2. CASE m.doc = r.doc
    BY <1>6, <1>8, <2>2
  <2>3. CASE m.doc # r.doc
    <3>1. /\ m.doc = [NoDoc EXCEPT !.base = a]
          /\ b # a /\ ~FirstIsLatest(b, a, y, x) /\ Later(a, r.doc.base)
      BY <2>1, <2>3 DEF OverPlain
    <3> HIDE DEF a, b, c, p, x, y
    <3>2. Later(a, b)
      BY <1>4, <3>1, StampsInOrder, FirstOrSecond
    <3>3. p = l /\ c = a
      BY <1>2, <1>3, <3>2 DEF FirstIsLatest, a
    <3>4. m.doc.base = a /\ m.doc # NoDoc
      BY <1>4, <3>1, BaseOf
    <3>5. m.doc.base # r.doc.base
      BY <1>4, <1>5, <3>1, <3>4, StampsInOrder
    <3>6. FirstIsLatest(c, b, Text(m), y)
      BY <3>2, <3>3 DEF FirstIsLatest
    <3>7. LeftBodyWins(m, r)
      BY <3>1, <3>3, <3>6 DEF LeftBodyWins, b, c, y
    <3> QED
      BY <1>8, <3>4, <3>5, <3>7 DEF MergedDoc
  <2> QED
    BY <2>2, <2>3
<1>9. CASE l.doc # NoDoc /\ r.doc = NoDoc
  <2>1. m.doc = OverPlain(l, r)
    BY <1>2, <1>9 DEF MergedDoc
  <2>2. m.doc # NoDoc
    BY <1>2, <1>9, MergedBody
  <2>3. MergedDoc(m, r) = OverPlain(m, r)
    BY <1>9, <2>2 DEF MergedDoc
  <2>4. c = b \/ FirstIsLatest(c, b, Text(m), y) \/ ~Later(b, m.doc.base)
    <3>1. CASE a = b
      <4>1. c \in {a, b}
        BY <1>2, <1>3
      <4> QED
        BY <3>1, <4>1
    <3>2. CASE a # b /\ FirstIsLatest(a, b, x, y)
      <4> HIDE DEF a, b, x, y, c, p
      <4>1. Later(a, b)
        BY <1>4, <3>2, StampsInOrder, FirstOrSecond
      <4>2. c = a
        BY <1>2, <1>3, <3>2 DEF a
      <4> QED
        BY <4>1, <4>2 DEF FirstIsLatest
    <3>3. CASE a # b /\ ~FirstIsLatest(a, b, x, y)
      <4>1. p = r
        BY <1>3, <3>3
      <4> QED
        BY <1>2, <4>1
    <3> QED
      BY <3>1, <3>2, <3>3
  <2> QED
    BY <2>3, <2>4 DEF OverPlain
<1>10. CASE l.doc # NoDoc /\ r.doc # NoDoc /\ l.doc.base # r.doc.base
  <2>1. m.doc = IF LeftBodyWins(l, r) THEN l.doc ELSE r.doc
    BY <1>2, <1>10 DEF MergedDoc
  <2>2. CASE ~LeftBodyWins(l, r)
    BY <1>6, <1>10, <2>1, <2>2
  <2>3. CASE LeftBodyWins(l, r)
    <3>1. m.doc = l.doc /\ Text(m) = x
      BY <2>1, <2>3 DEF Text
    <3>2. LeftBodyWins(l, r) <=> IF a = b /\ x = y THEN Later(l.doc.base, r.doc.base)
                                 ELSE FirstIsLatest(a, b, x, y)
      BY DEF LeftBodyWins
    <3>3. LeftBodyWins(m, r) <=> IF c = b /\ x = y THEN Later(l.doc.base, r.doc.base)
                                 ELSE FirstIsLatest(c, b, x, y)
      BY <3>1 DEF LeftBodyWins
    <3>4. c = a
      <4>1. CASE a = b
        <5>1. c \in {a, b}
          BY <1>2, <1>3
        <5> QED
          BY <4>1, <5>1
      <4>2. CASE FirstIsLatest(a, b, x, y)
        BY <1>2, <1>3, <4>2
      <4> HIDE DEF a, b, c, x, y, p
      <4> QED
        BY <2>3, <3>2, <4>1, <4>2
    <3>5. LeftBodyWins(m, r)
      BY <2>3, <3>2, <3>3, <3>4
    <3> QED
      BY <1>10, <3>1, <3>5 DEF MergedDoc
  <2> QED
    BY <2>2, <2>3
<1>11. CASE l.doc # NoDoc /\ r.doc # NoDoc /\ l.doc.base = r.doc.base
  <2>1. /\ m.doc # NoDoc /\ m.doc.base = r.doc.base
        /\ m.doc.added = l.doc.added \cup r.doc.added
        /\ m.doc.removed = l.doc.removed \cup r.doc.removed
    BY <1>2, <1>11, MergedBody
  <2>2. /\ MergedDoc(m, r) \in Doc /\ MergedDoc(m, r).base = m.doc.base
        /\ MergedDoc(m, r).added = m.doc.added \cup r.doc.added
        /\ MergedDoc(m, r).removed = m.doc.removed \cup r.doc.removed
    BY <1>2, <1>11, <2>1, MergedBody
  <2>3. /\ m.doc.added \cup r.doc.added = m.doc.added
        /\ m.doc.removed \cup r.doc.removed = m.doc.removed
    BY <2>1
  <2> QED
    BY <1>5, <2>2, <2>3, SameDoc
<1> QED
  BY <1>7, <1>8, <1>9, <1>10, <1>11

\* A copy that was merged in brings nothing new.
LEMMA MergeAgain ==
    ASSUME NEW l \in Note, NEW r \in Note, NEW m, m = MergeTwoNotes(l, r)
    PROVE  MergeTwoNotes(m, r) = m
<1> DEFINE n == MergeTwoNotes(m, r)
<1>1. m \in Note /\ n \in Note
  BY Merged
<1>2. \A f \in WholeFields : f \in NOTE_FIELDS
  BY DEF NOTE_FIELDS
<1>3. ASSUME NEW f \in NOTE_FIELDS, StampsField(l, r, f)
      PROVE  /\ StampsField(m, r, f) /\ n.time[f] = m.time[f] /\ n.writer[f] = m.writer[f]
             /\ f \in WholeFields => n.value[f] = m.value[f]
  <2>1. m.time[f] # Unstamped /\ FieldTime(m, f) = m.time[f]
    BY <1>3, StampMerged
  <2>2. StampsField(m, r, f)
    BY <2>1 DEF StampsField, NeverSecret
  <2>3. n.time[f] = FieldTime(Picked(m, r, f), f) /\ n.writer[f] = Picked(m, r, f).writer[f]
    <3>1. \A g \in NOTE_FIELDS :
            IF StampsField(m, r, g)
            THEN n.time[g] = FieldTime(Picked(m, r, g), g) /\ n.writer[g] = Picked(m, r, g).writer[g]
            ELSE n.time[g] = Unstamped /\ n.writer[g] = NoWriter
      BY <1>1, Merged
    <3> QED
      BY <2>2, <3>1
  <2>4. Stamp(Picked(m, r, f), f) = Stamp(m, f)
    BY <1>3, PickedAgain
  <2>5. Picked(m, r, f) \in Note
    BY <1>1, PickedIs
  <2>6. FieldTime(Picked(m, r, f), f) = FieldTime(m, f) /\ Picked(m, r, f).writer[f] = m.writer[f]
    BY <1>1, <2>4, <2>5, StampParts
  <2>7. f \in WholeFields => n.value[f] = Picked(m, r, f).value[f]
    BY <1>1, Merged
  <2>8. f \in WholeFields => Picked(m, r, f).value[f] = m.value[f]
    BY <1>3, PickedAgain
  <2> HIDE DEF n
  <2> QED
    BY <2>1, <2>2, <2>3, <2>6, <2>7, <2>8
<1>4. ASSUME NEW f \in NOTE_FIELDS, ~StampsField(l, r, f)
      PROVE  /\ n.time[f] = m.time[f] /\ n.writer[f] = m.writer[f]
             /\ f \in WholeFields => n.value[f] = m.value[f]
  <2>1. f = "secret" /\ NeverSecret(l, r)
    BY <1>4 DEF StampsField
  <2>2. m.time[f] = Unstamped /\ m.writer[f] = NoWriter
    <3>1. \A g \in NOTE_FIELDS :
            IF StampsField(l, r, g)
            THEN m.time[g] = FieldTime(Picked(l, r, g), g) /\ m.writer[g] = Picked(l, r, g).writer[g]
            ELSE m.time[g] = Unstamped /\ m.writer[g] = NoWriter
      BY Merged
    <3> QED
      BY <1>4, <3>1
  <2>3. f \in WholeFields
    BY <2>1 DEF WholeFields
  <2>4. m.value[f] = Picked(l, r, f).value[f] /\ n.value[f] = Picked(m, r, f).value[f]
    BY <1>1, <2>3, Merged
  <2>5. Picked(l, r, f) \in {l, r} /\ Picked(m, r, f) \in {m, r}
    BY <1>1, PickedIs
  <2>6. m.value[f] = 0
    BY <2>1, <2>4, <2>5 DEF NeverSecret
  <2>7. n.value[f] = 0
    BY <2>1, <2>4, <2>5, <2>6 DEF NeverSecret
  <2>8. NeverSecret(m, r)
    BY <2>1, <2>2, <2>6 DEF NeverSecret
  <2>9. n.time[f] = Unstamped /\ n.writer[f] = NoWriter
    <3>1. \A g \in NOTE_FIELDS :
            IF StampsField(m, r, g)
            THEN n.time[g] = FieldTime(Picked(m, r, g), g) /\ n.writer[g] = Picked(m, r, g).writer[g]
            ELSE n.time[g] = Unstamped /\ n.writer[g] = NoWriter
      BY <1>1, Merged
    <3>2. ~StampsField(m, r, f)
      BY <2>1, <2>8 DEF StampsField
    <3> QED
      BY <3>1, <3>2
  <2> QED
    BY <2>2, <2>6, <2>7, <2>9
<1>5. \A f \in NOTE_FIELDS : n.time[f] = m.time[f] /\ n.writer[f] = m.writer[f]
  BY <1>3, <1>4
<1>6. \A f \in WholeFields : n.value[f] = m.value[f]
  BY <1>2, <1>3, <1>4
<1>7. n.doc = m.doc
  <2>1. n.doc = MergedDoc(m, r)
    BY <1>1, Merged
  <2> QED
    BY <2>1, BodyAgain
<1>8. ASSUME NEW i \in Images PROVE n.images[i] = m.images[i] /\ n.buried[i] = m.buried[i]
  <2>1. IF i \in KeptImages(m, r)
        THEN n.images[i] = PickImage(m.images[i], r.images[i]) /\ n.buried[i] = 0
        ELSE n.images[i] = NoImage /\ n.buried[i] = Buried(m, r, i)
    BY <1>1, Merged
  <2>2. IF i \in KeptImages(m, r)
        THEN PickImage(m.images[i], r.images[i]) = m.images[i] /\ m.buried[i] = 0
        ELSE m.images[i] = NoImage /\ Buried(m, r, i) = m.buried[i]
    BY ImagesAgain
  <2> HIDE DEF n
  <2> QED
    BY <2>1, <2>2
<1>9. n.updatedAt = m.updatedAt
  <2>1. m.updatedAt >= r.updatedAt /\ \A f \in NOTE_FIELDS : m.updatedAt >= m.time[f]
    BY Merged
  <2>2. /\ n.updatedAt >= m.updatedAt
        /\ \/ n.updatedAt = m.updatedAt \/ n.updatedAt = r.updatedAt
           \/ \E f \in NOTE_FIELDS : n.updatedAt = n.time[f]
    BY <1>1, Merged
  <2>3. m.updatedAt \in Nat /\ n.updatedAt \in Nat /\ r.updatedAt \in Nat
    BY <1>1 DEF Note
  <2> HIDE DEF n
  <2> QED
    BY <1>5, <2>1, <2>2, <2>3
<1> HIDE DEF n
<1>10. n = m
  BY <1>1, <1>5, <1>6, <1>7, <1>8, <1>9, SameNote
<1> QED
  BY <1>10 DEF n

-----------------------------------------------------------------------------
(* The copies stay notes.                                                   *)

\* What an edit stamps: its fields with a time later than theirs, of this
\* device; the others keep their stamps.
StampedFrom(m, n, fields, d, at) ==
    /\ m \in Note
    /\ m.value = n.value /\ m.doc = n.doc /\ m.images = n.images /\ m.buried = n.buried
    /\ \A f \in fields : /\ FieldTime(m, f) > FieldTime(n, f) /\ FieldTime(m, f) >= at
                         /\ m.writer[f] = d /\ Later(Stamp(m, f), Stamp(n, f))
    /\ \A f \in NOTE_FIELDS \ fields : Stamp(m, f) = Stamp(n, f)
    /\ \A f \in NOTE_FIELDS : m.time[f] # Unstamped /\ m.time[f] <= m.updatedAt

LEMMA Touched ==
    ASSUME NEW n \in Note, NEW fields \in SUBSET NOTE_FIELDS, NEW d \in Nat, NEW at \in Nat,
           NEW m, m = TouchNoteFields(n, fields, d, at)
    PROVE  StampedFrom(m, n, fields, d, at)
<1> DEFINE t == [f \in NOTE_FIELDS |->
                    IF f \in fields THEN Max({at, FieldTime(n, f) + 1}) ELSE FieldTime(n, f)]
           w == [f \in NOTE_FIELDS |-> IF f \in fields THEN d ELSE n.writer[f]]
           stamped == [n EXCEPT !.time = t, !.writer = w]
           top == LargestTime(stamped)
<1>1. m = [stamped EXCEPT !.updatedAt = top]
  BY DEF TouchNoteFields
<1>2. n = [value |-> n.value, time |-> n.time, writer |-> n.writer, updatedAt |-> n.updatedAt,
           doc |-> n.doc, images |-> n.images, buried |-> n.buried]
  BY DEF Note
<1>3. stamped.time = t /\ stamped.updatedAt = n.updatedAt /\ n.updatedAt \in Nat \ {0}
  <2> HIDE DEF t, w
  <2> QED
    BY <1>2 DEF Note
<1>4. \A f \in NOTE_FIELDS : FieldTime(n, f) \in Nat \ {0} /\ n.writer[f] \in Nat
  BY StampOf
<1>5. ASSUME NEW f \in NOTE_FIELDS
      PROVE  /\ t[f] \in Nat \ {0}
             /\ f \in fields => t[f] >= at /\ t[f] > FieldTime(n, f)
             /\ f \notin fields => t[f] = FieldTime(n, f)
  <2>1. CASE f \in fields
    <3>1. FieldTime(n, f) + 1 \in Nat
      BY <1>4
    <3>2. t[f] = Max({at, FieldTime(n, f) + 1})
      BY <2>1
    <3>3. t[f] \in Nat /\ t[f] >= at /\ t[f] >= FieldTime(n, f) + 1
      <4> HIDE DEF t
      <4> QED
        BY <3>1, <3>2, MaxOfTwo
    <3> HIDE DEF t
    <3> QED
      BY <1>4, <2>1, <3>3
  <2>2. CASE f \notin fields
    <3>1. t[f] = FieldTime(n, f)
      BY <2>2
    <3> QED
      BY <1>4, <2>2, <3>1
  <2> QED
    BY <2>1, <2>2
<1>6. t \in [NOTE_FIELDS -> Nat] /\ w \in [NOTE_FIELDS -> Nat]
  <2>1. DOMAIN t = NOTE_FIELDS /\ t = [f \in NOTE_FIELDS |-> t[f]]
    OBVIOUS
  <2>2. w \in [NOTE_FIELDS -> Nat]
    BY <1>4
  <2> HIDE DEF t, w
  <2> QED
    BY <1>5, <2>1, <2>2
<1>7. top \in Nat \ {0} /\ \A f \in NOTE_FIELDS : t[f] <= top
  <2>1. \A f \in NOTE_FIELDS : t[f] \in Nat
    BY <1>6
  <2> HIDE DEF t, stamped
  <2> QED
    BY <1>3, <1>6, <2>1, LargestTimeOf
<1>8. /\ m = [value |-> n.value, time |-> t, writer |-> w, updatedAt |-> top,
              doc |-> n.doc, images |-> n.images, buried |-> n.buried]
      /\ m.value = n.value /\ m.time = t /\ m.writer = w /\ m.updatedAt = top
      /\ m.doc = n.doc /\ m.images = n.images /\ m.buried = n.buried
  <2>1. stamped = [value |-> n.value, time |-> t, writer |-> w, updatedAt |-> n.updatedAt,
                   doc |-> n.doc, images |-> n.images, buried |-> n.buried]
    <3> HIDE DEF t, w
    <3>1. stamped \in [value : {n.value}, time : {t}, writer : {w}, updatedAt : {n.updatedAt},
                       doc : {n.doc}, images : {n.images}, buried : {n.buried}]
      BY DEF Note
    <3> HIDE DEF stamped
    <3> QED
      BY <3>1
  <2> HIDE DEF t, w, stamped, top
  <2> QED
    BY <1>1, <2>1
<1>9. m \in Note
  <2> HIDE DEF t, w, stamped, top
  <2> QED
    BY <1>6, <1>7, <1>8 DEF Note
<1>10. \A f \in NOTE_FIELDS : m.time[f] = t[f] /\ m.time[f] # Unstamped /\ m.time[f] <= m.updatedAt
                              /\ FieldTime(m, f) = t[f]
  <2> HIDE DEF t, w, stamped, top
  <2> QED
    BY <1>5, <1>7, <1>8 DEF Unstamped, FieldTime
<1>11. \A f \in NOTE_FIELDS : m.writer[f] = IF f \in fields THEN d ELSE n.writer[f]
  BY <1>8
<1> HIDE DEF t, w, stamped, top
<1>12. ASSUME NEW f \in fields
       PROVE  /\ FieldTime(m, f) > FieldTime(n, f) /\ FieldTime(m, f) >= at
              /\ m.writer[f] = d /\ Later(Stamp(m, f), Stamp(n, f))
  <2>1. f \in NOTE_FIELDS
    OBVIOUS
  <2>2. FieldTime(m, f) > FieldTime(n, f) /\ FieldTime(m, f) >= at /\ m.writer[f] = d
    BY <1>5, <1>10, <1>11, <2>1
  <2>3. Stamp(m, f).time = FieldTime(m, f) /\ Stamp(n, f).time = FieldTime(n, f)
    BY <1>9, <2>1, StampOf
  <2> QED
    BY <2>2, <2>3 DEF Later
<1>13. ASSUME NEW f \in NOTE_FIELDS \ fields PROVE Stamp(m, f) = Stamp(n, f)
  BY <1>5, <1>10, <1>11 DEF Stamp
<1> QED
  BY <1>8, <1>9, <1>10, <1>12, <1>13 DEF StampedFrom

\* The note as it was made.
LEMMA FirstCopyIs ==
    ASSUME NEW stamped \in BOOLEAN, NEW n, n = FirstCopy(stamped)
    PROVE  /\ n \in Note /\ n.doc = NoDoc /\ \A i \in Images : n.buried[i] = 0
           /\ \A f \in NOTE_FIELDS : /\ FieldTime(n, f) = 1 /\ n.time[f] <= n.updatedAt
                                     /\ n.time[f] = Unstamped => n.updatedAt = 1 /\ n.writer[f] = NoWriter
           /\ Stamp(n, "body").time # 0
<1> DEFINE at == IF stamped THEN 1 ELSE Unstamped
           writer == IF stamped THEN Min(Writers) ELSE NoWriter
           v == [f \in WholeFields |-> 0]
           t == [f \in NOTE_FIELDS |-> at]
           w == [f \in NOTE_FIELDS |-> writer]
           im == [i \in Images |-> IF i \in FirstImages THEN [time |-> 0, content |-> 0] ELSE NoImage]
           bu == [i \in Images |-> 0]
<1>1. Min(Writers) \in Nat
  <2>1. Writers \in SUBSET Nat /\ Writers # {}
    BY WritersAssumption
  <2>2. \E x \in Writers : \A y \in Writers : x <= y
    BY <2>1, LeastNatural
  <2>3. Min(Writers) \in Writers
    BY <2>2 DEF Min
  <2> QED
    BY <2>1, <2>3
<1>2. /\ n = [value |-> v, time |-> t, writer |-> w, updatedAt |-> 1,
              doc |-> NoDoc, images |-> im, buried |-> bu]
      /\ n.time = t /\ n.writer = w /\ n.updatedAt = 1 /\ n.doc = NoDoc /\ n.buried = bu
  BY DEF FirstCopy
<1>3. at \in Nat /\ (at = 1 \/ (at = Unstamped /\ writer = NoWriter)) /\ writer \in Nat
  <2>1. CASE stamped
    <3>1. at = 1
      BY <2>1
    <3>2. writer = Min(Writers)
      BY <2>1
    <3>3. writer \in Nat
      BY <1>1, <3>2
    <3> HIDE DEF at, writer
    <3> QED
      BY <3>1, <3>3
  <2>2. CASE ~stamped
    <3>1. at = Unstamped /\ writer = NoWriter
      BY <2>2
    <3> HIDE DEF at, writer
    <3> QED
      BY <3>1 DEF Unstamped, NoWriter
  <2> QED
    BY <2>1, <2>2
<1>4. /\ v \in [WholeFields -> Int] /\ t \in [NOTE_FIELDS -> Nat] /\ w \in [NOTE_FIELDS -> Nat]
      /\ im \in [Images -> Image] /\ bu \in [Images -> Nat] /\ 1 \in Nat \ {0}
  <2> HIDE DEF at, writer
  <2>1. [time |-> 0, content |-> 0] \in Image /\ NoImage \in Image
    BY NoDocType DEF Image
  <2> QED
    BY <1>3, <2>1
<1>5. n \in Note
  <2> HIDE DEF v, t, w, im, bu
  <2> QED
    BY <1>2, <1>4, NoDocType DEF Note
<1>6. ASSUME NEW f \in NOTE_FIELDS
      PROVE  /\ FieldTime(n, f) = 1 /\ n.time[f] <= n.updatedAt
             /\ n.time[f] = Unstamped => n.updatedAt = 1 /\ n.writer[f] = NoWriter
  <2>1. n.time[f] = at /\ n.writer[f] = writer
    BY <1>2
  <2> HIDE DEF at, writer
  <2> QED
    BY <1>2, <1>3, <2>1 DEF FieldTime, Unstamped
<1>7. Stamp(n, "body").time # 0
  BY <1>5, StampOf DEF NOTE_FIELDS
<1> QED
  BY <1>2, <1>5, <1>6, <1>7

\* The kinds of all there is.
Kinds ==
    /\ live \in Note /\ copy \in [Writers -> Note] /\ edits \in Nat
    /\ \A w \in writes : w.stamp \in StampType
    /\ \A w \in imageWrites : /\ w.stamp \in StampType /\ w.at \in Nat
                              /\ w.removed # {} => w.at # 0

\* An edit leaves the device with a touched copy, and touches nothing else.
LEMMA EditMakes ==
    ASSUME Kinds, NEW d \in Writers, NEW at \in Nat, NEW fields \in SUBSET NOTE_FIELDS,
           NEW n \in Note, WriteNote(d, at, fields, n), NEW m, m = TouchNoteFields(n, fields, d, at)
    PROVE  /\ m \in Note /\ copy'[d] = m /\ live' = live
           /\ \A e \in Writers \ {d} : copy'[e] = copy[e]
           /\ live' \in Note /\ copy' \in [Writers -> Note] /\ edits' \in Nat
<1>1. d \in Nat
  BY WritersAssumption
<1>2. m \in Note
  BY <1>1, Touched DEF StampedFrom
<1>3. copy' = [copy EXCEPT ![d] = m] /\ live' = live /\ edits' = edits + 1
  BY DEF WriteNote
<1> QED
  BY <1>2, <1>3 DEF Kinds

\* What the edits are of.
LEMMA DocSet ==
    ASSUME NEW n \in Note, NEW x \in Doc, NEW m, m = [n EXCEPT !.doc = x]
    PROVE  /\ m \in Note /\ m.value = n.value
           /\ m.time = n.time /\ m.writer = n.writer /\ m.updatedAt = n.updatedAt
           /\ m.doc = x /\ m.images = n.images /\ m.buried = n.buried
BY DEF Note

-----------------------------------------------------------------------------
(* What each action does to the copies.                                     *)

\* A field without a time of its own is of a note that is as it was made.
Aged(n) ==
    \A f \in NOTE_FIELDS : /\ n.time[f] <= n.updatedAt
                           /\ n.time[f] = Unstamped => n.updatedAt = 1 /\ n.writer[f] = NoWriter

\* One device has another copy, and the relay the same.
Moves(d) ==
    /\ copy'[d] \in Note /\ live' = live
    /\ \A e \in Writers \ {d} : copy'[e] = copy[e]
    /\ live' \in Note /\ copy' \in [Writers -> Note] /\ edits' \in Nat

\* What an edit of some fields comes to, n being the copy before it is stamped.
Edited(m, n, d, at, fields) ==
    /\ Moves(d) /\ m \in Note /\ Aged(m)
    /\ m.value = n.value /\ m.doc = n.doc /\ m.images = n.images /\ m.buried = n.buried
    /\ \A f \in fields : /\ FieldTime(m, f) > FieldTime(copy[d], f) /\ FieldTime(m, f) >= at
                         /\ m.writer[f] = d /\ Later(Stamp(m, f), Stamp(copy[d], f))
    /\ \A f \in NOTE_FIELDS \ fields : Stamp(m, f) = Stamp(copy[d], f)

LEMMA EditedFrom ==
    ASSUME Kinds, NEW d \in Writers, NEW at \in Times, NEW fields \in SUBSET NOTE_FIELDS,
           NEW n \in Note, n.time = copy[d].time, n.writer = copy[d].writer,
           n.updatedAt = copy[d].updatedAt,
           WriteNote(d, at, fields, n), NEW m, m = copy'[d]
    PROVE  Edited(m, n, d, at, fields)
<1> DEFINE t == TouchNoteFields(n, fields, d, at)
<1>1. at \in Nat /\ d \in Nat
  BY WritersAssumption, TimesAssumption
<1>2. Moves(d) /\ m = t
  BY <1>1, EditMakes DEF Moves
<1>3. \A f \in NOTE_FIELDS : FieldTime(n, f) = FieldTime(copy[d], f) /\ Stamp(n, f) = Stamp(copy[d], f)
  BY DEF FieldTime, Stamp
<1>4. /\ m \in Note
      /\ m.value = n.value /\ m.doc = n.doc /\ m.images = n.images /\ m.buried = n.buried
      /\ \A f \in fields : /\ FieldTime(m, f) > FieldTime(n, f) /\ FieldTime(m, f) >= at
                           /\ m.writer[f] = d /\ Later(Stamp(m, f), Stamp(n, f))
      /\ \A f \in NOTE_FIELDS \ fields : Stamp(m, f) = Stamp(n, f)
      /\ \A f \in NOTE_FIELDS : m.time[f] # Unstamped /\ m.time[f] <= m.updatedAt
  <2>1. m = TouchNoteFields(n, fields, d, at)
    BY <1>2
  <2>2. at \in Nat /\ d \in Nat
    BY <1>1
  <2> HIDE DEF t
  <2>3. StampedFrom(m, n, fields, d, at)
    BY <2>1, <2>2, Touched
  <2> QED
    BY <2>3 DEF StampedFrom
<1>5. Aged(m)
  BY <1>4 DEF Aged
<1> HIDE DEF t
<1>6. \A f \in fields : f \in NOTE_FIELDS
  OBVIOUS
<1> QED
  BY <1>2, <1>3, <1>4, <1>5, <1>6 DEF Edited

\* An edit of a whole field.
LEMMA WholeFieldEdited ==
    ASSUME Kinds, NEW d \in Writers, NEW at \in Times, NEW f \in WholeFields, NEW x \in Int,
           WriteNote(d, at, {f}, [copy[d] EXCEPT !.value[f] = x]), NEW m, m = copy'[d]
    PROVE  /\ Moves(d) /\ m \in Note /\ Aged(m)
           /\ m.doc = copy[d].doc /\ m.images = copy[d].images /\ m.buried = copy[d].buried
           /\ \A g \in WholeFields \ {f} : m.value[g] = copy[d].value[g]
           /\ \A g \in NOTE_FIELDS \ {f} : Stamp(m, g) = Stamp(copy[d], g)
           /\ Later(Stamp(m, f), Stamp(copy[d], f))
<1> DEFINE n == [copy[d] EXCEPT !.value[f] = x]
<1>1. copy[d] \in Note
  BY DEF Kinds
<1>2. /\ n \in Note /\ n.value = [copy[d].value EXCEPT ![f] = x]
      /\ n.time = copy[d].time /\ n.writer = copy[d].writer /\ n.updatedAt = copy[d].updatedAt
      /\ n.doc = copy[d].doc /\ n.images = copy[d].images /\ n.buried = copy[d].buried
  <2> DEFINE c == copy[d]
  <2>1. c \in Note /\ n = [c EXCEPT !.value[f] = x]
    BY <1>1
  <2> HIDE DEF c, n
  <2>2. c.value \in [WholeFields -> Int] /\ [c.value EXCEPT ![f] = x] \in [WholeFields -> Int]
    BY <2>1 DEF Note
  <2>4. /\ n \in Note /\ n.value = [c.value EXCEPT ![f] = x]
        /\ n.time = c.time /\ n.writer = c.writer /\ n.updatedAt = c.updatedAt
        /\ n.doc = c.doc /\ n.images = c.images /\ n.buried = c.buried
    BY <2>1, <2>2 DEF Note
  <2> QED
    BY <2>4 DEF c
<1>3. {f} \in SUBSET NOTE_FIELDS
  BY DEF NOTE_FIELDS
<1>4. WriteNote(d, at, {f}, n)
  OBVIOUS
<1> HIDE DEF n
<1>5. /\ Moves(d) /\ m \in Note /\ Aged(m)
      /\ m.value = n.value /\ m.doc = n.doc /\ m.images = n.images /\ m.buried = n.buried
      /\ Later(Stamp(m, f), Stamp(copy[d], f))
      /\ \A g \in NOTE_FIELDS \ {f} : Stamp(m, g) = Stamp(copy[d], g)
  <2>1. Edited(m, n, d, at, {f})
    BY <1>2, <1>3, <1>4, EditedFrom
  <2> QED
    BY <2>1 DEF Edited
<1>6. \A g \in WholeFields \ {f} : m.value[g] = copy[d].value[g]
  <2>1. copy[d].value \in [WholeFields -> Int]
    BY <1>1 DEF Note
  <2> QED
    BY <1>2, <1>5, <2>1
<1> QED
  BY <1>2, <1>5, <1>6

\* A phrase typed: on the base the text has, or on a new one of its stamp.
LEMMA PhraseTyped ==
    ASSUME Kinds, NEW d \in Writers, NEW at \in Times, TypePhrase(d, at), NEW m, m = copy'[d]
    PROVE  /\ Moves(d) /\ m \in Note /\ Aged(m)
           /\ m.value = copy[d].value /\ m.images = copy[d].images /\ m.buried = copy[d].buried
           /\ m.doc # NoDoc
           /\ m.doc.base = (IF copy[d].doc # NoDoc THEN copy[d].doc.base ELSE Stamp(copy[d], "body"))
           /\ m.doc.added = copy[d].doc.added \cup {[phrase |-> edits + 1, put |-> edits + 1]}
           /\ m.doc.removed = copy[d].doc.removed
           /\ \A g \in NOTE_FIELDS \ {"body"} : Stamp(m, g) = Stamp(copy[d], g)
<1> DEFINE c == copy[d]
           b == Stamp(c, "body")
           loaded == Loaded(c)
           item == [phrase |-> edits + 1, put |-> edits + 1]
           doc == [loaded EXCEPT !.added = @ \cup {item}]
           n == [c EXCEPT !.doc = doc]
<1>1. c \in Note /\ c.doc \in Doc /\ item \in Item
  BY DEF Kinds, Note, Item
<1>2. b \in StampType
  BY <1>1, StampOf DEF NOTE_FIELDS
<1>3. /\ loaded \in Doc
      /\ loaded.base = (IF c.doc # NoDoc THEN c.doc.base ELSE b)
      /\ loaded.added = c.doc.added /\ loaded.removed = c.doc.removed
  <2>1. CASE c.doc # NoDoc
    BY <1>1, <2>1 DEF Loaded
  <2>2. CASE c.doc = NoDoc
    <3>1. loaded = [NoDoc EXCEPT !.base = b]
      BY <2>2 DEF Loaded
    <3>2. NoDoc.added = {} /\ NoDoc.removed = {}
      BY DEF NoDoc
    <3> HIDE DEF b, loaded
    <3> QED
      BY <1>2, <2>2, <3>1, <3>2, BaseOf
  <2> QED
    BY <2>1, <2>2
<1>4. /\ doc \in Doc /\ doc.base = loaded.base /\ doc.added = c.doc.added \cup {item}
      /\ doc.removed = c.doc.removed
  <2> HIDE DEF loaded, item, c
  <2> QED
    BY <1>1, <1>3 DEF Doc
<1>5. doc # NoDoc
  <2> HIDE DEF doc, item
  <2> QED
    BY <1>4 DEF NoDoc
<1>6. WriteNote(d, at, {"body"}, n)
  BY DEF TypePhrase
<1>7. /\ n \in Note /\ n.value = c.value
      /\ n.time = c.time /\ n.writer = c.writer /\ n.updatedAt = c.updatedAt
      /\ n.doc = doc /\ n.images = c.images /\ n.buried = c.buried
  <2> HIDE DEF doc, c
  <2> QED
    BY <1>1, <1>4, DocSet
<1>8. {"body"} \in SUBSET NOTE_FIELDS
  BY DEF NOTE_FIELDS
<1>9. /\ Moves(d) /\ m \in Note /\ Aged(m)
      /\ m.value = n.value /\ m.doc = n.doc /\ m.images = n.images /\ m.buried = n.buried
      /\ \A g \in NOTE_FIELDS \ {"body"} : Stamp(m, g) = Stamp(c, g)
  <2> HIDE DEF n
  <2> QED
    <3>1. Edited(m, n, d, at, {"body"})
      BY <1>6, <1>7, <1>8, EditedFrom
    <3> QED
      BY <3>1 DEF Edited
<1> HIDE DEF n, doc, loaded
<1> QED
  BY <1>3, <1>4, <1>5, <1>7, <1>9

\* An edit of the images.
LEMMA ImagesEdited ==
    ASSUME Kinds, NEW d \in Writers, NEW at \in Times, NEW n \in Note,
           n.time = copy[d].time, n.writer = copy[d].writer, n.updatedAt = copy[d].updatedAt,
           n.value = copy[d].value, n.doc = copy[d].doc,
           WriteNote(d, at, {"images"}, n), NEW m, m = copy'[d]
    PROVE  /\ Moves(d) /\ m \in Note /\ Aged(m)
           /\ m.value = copy[d].value /\ m.doc = copy[d].doc
           /\ m.images = n.images /\ m.buried = n.buried
           /\ \A g \in NOTE_FIELDS \ {"images"} : Stamp(m, g) = Stamp(copy[d], g)
           /\ FieldTime(m, "images") > FieldTime(copy[d], "images") /\ FieldTime(m, "images") >= at
           /\ m.writer["images"] = d
<1>1. {"images"} \in SUBSET NOTE_FIELDS
  BY DEF NOTE_FIELDS
<1> QED
  <2>1. Edited(m, n, d, at, {"images"})
    BY <1>1, EditedFrom
  <2> QED
    BY <2>1 DEF Edited

\* The replacement of the cloud's copy, as far as fields go.
LEMMA PushMakes ==
    ASSUME Kinds, NEW d \in Writers, NEW now \in Times, ForcePush(d, now), NEW m, m = copy'[d]
    PROVE  /\ Moves(d) /\ m \in Note /\ Aged(m)
           /\ \A f \in NOTE_FIELDS : m.writer[f] = d /\ Later(Stamp(m, f), Stamp(copy[d], f))
           /\ imageWrites' = imageWrites \cup
                {ImageWrite(m, Listed(live) \ Listed(copy[d]),
                            Max({now, LargestTime(copy[d]) + 1, LargestTime(live) + 1}))}
           /\ Max({now, LargestTime(copy[d]) + 1, LargestTime(live) + 1}) \in Nat \ {0}
<1> DEFINE local == copy[d]
           at == Max({now, LargestTime(local) + 1, LargestTime(live) + 1})
           n == OverCloudCopy(local, live, at, edits + 1)
<1>1. local \in Note /\ live \in Note /\ edits \in Nat
  BY DEF Kinds
<1>2. now \in Nat \ {0} /\ d \in Nat
  BY WritersAssumption, TimesAssumption
<1>3. at \in Nat \ {0}
  <2>1. LargestTime(local) \in Nat \ {0} /\ LargestTime(live) \in Nat \ {0}
    BY <1>1, StampOf DEF NOTE_FIELDS
  <2> DEFINE x == LargestTime(local) + 1
             y == LargestTime(live) + 1
             S == {now, x, y}
  <2>2. x \in Nat \ {0} /\ y \in Nat \ {0}
    BY <2>1
  <2> HIDE DEF x, y
  <2>3. S = {now, x, y, y, y}
    OBVIOUS
  <2> HIDE DEF S
  <2>4. Max(S) \in S
    BY <1>2, <2>2, <2>3, MaxOfFive
  <2> QED
    BY <1>2, <2>2, <2>4 DEF S, x, y
<1>4. TextOver(local, live, edits + 1) \in Doc
  <2> DEFINE merged == MergeTwoNotes(local, live).doc
             shown == merged.added \ merged.removed
  <2>1. merged \in Doc /\ NoDoc \in Doc
    BY <1>1, Merged, NoDocType DEF Note
  <2>2. \A p \in Text(local) : p \in Nat
    BY <1>1 DEF Text, Note, Doc, Item
  <2>3. { [phrase |-> p, put |-> edits + 1] : p \in Text(local) \ { item.phrase : item \in shown } }
            \in SUBSET Item
    BY <1>1, <2>2 DEF Item
  <2>4. { item \in shown : item.phrase \notin Text(local) } \in SUBSET Item
    BY <2>1 DEF Doc
  <2>5. [merged EXCEPT
            !.removed = @ \cup { item \in shown : item.phrase \notin Text(local) },
            !.added = @ \cup { [phrase |-> p, put |-> edits + 1] :
                            p \in Text(local) \ { item.phrase : item \in shown } }] \in Doc
    <3> DEFINE gone == { item \in shown : item.phrase \notin Text(local) }
               new == { [phrase |-> p, put |-> edits + 1] :
                            p \in Text(local) \ { item.phrase : item \in shown } }
    <3>1. gone \in SUBSET Item /\ new \in SUBSET Item
      BY <2>3, <2>4
    <3> HIDE DEF gone, new, merged
    <3>2. [merged EXCEPT !.removed = @ \cup gone, !.added = @ \cup new] \in Doc
      BY <2>1, <3>1 DEF Doc
    <3> QED
      BY <3>2 DEF gone, new
  <2> QED
    BY <2>1, <2>5 DEF TextOver
<1>5. BuriedOver(local, live, at) \in [Images -> Nat]
  <2> HIDE DEF at
  <2>1. local.buried \in [Images -> Nat] /\ live.buried \in [Images -> Nat]
    BY <1>1 DEF Note
  <2> QED
    BY <1>3, <2>1 DEF BuriedOver
<1>6. /\ n \in Note /\ n.time = local.time /\ n.writer = local.writer
      /\ n.updatedAt = local.updatedAt
  <2> DEFINE doc == TextOver(local, live, edits + 1)
             buried == BuriedOver(local, live, at)
  <2>1. n = [local EXCEPT !.doc = doc, !.buried = buried]
    BY DEF OverCloudCopy
  <2> HIDE DEF n, doc, buried
  <2>2. doc \in Doc /\ buried \in [Images -> Nat]
    BY <1>4, <1>5 DEF doc, buried
  <2> QED
    BY <1>1, <2>1, <2>2 DEF Note
<1>7. /\ copy' = [copy EXCEPT ![d] = TouchNoteFields(n, NOTE_FIELDS, d, at)]
      /\ live' = live /\ edits' = edits + 1
      /\ imageWrites' = imageWrites \cup {ImageWrite(copy'[d], Listed(live) \ Listed(local), at)}
  BY DEF ForcePush
<1>8. m = TouchNoteFields(n, NOTE_FIELDS, d, at)
  BY <1>7 DEF Kinds
<1> HIDE DEF at, n
<1>9. NOTE_FIELDS \in SUBSET NOTE_FIELDS
  OBVIOUS
<1>10. /\ m \in Note
       /\ \A f \in NOTE_FIELDS : m.writer[f] = d /\ Later(Stamp(m, f), Stamp(n, f))
       /\ \A f \in NOTE_FIELDS : m.time[f] # Unstamped /\ m.time[f] <= m.updatedAt
  <2>1. at \in Nat
    BY <1>3
  <2>2. StampedFrom(m, n, NOTE_FIELDS, d, at)
    BY <1>2, <2>1, <1>6, <1>8, <1>9, Touched
  <2> QED
    BY <2>2 DEF StampedFrom
<1>11. \A f \in NOTE_FIELDS : Stamp(n, f) = Stamp(copy[d], f)
  BY <1>6 DEF FieldTime, Stamp
<1>12. Aged(m)
  BY <1>10 DEF Aged
<1>13. Moves(d)
  BY <1>1, <1>7, <1>8, <1>10 DEF Moves, Kinds
<1> QED
  BY <1>3, <1>7, <1>10, <1>11, <1>12, <1>13 DEF at

-----------------------------------------------------------------------------
(* What becomes of the copies.                                              *)

AgedCopies == \A c \in Copies : Aged(c)

\* A field of what comes of a merge has the stamp of the copy it is taken
\* from, a flag that neither ever set included.
LEMMA MergedStamps ==
    ASSUME NEW l \in Note, NEW r \in Note, Aged(l), Aged(r), NEW m, m = MergeTwoNotes(l, r)
    PROVE  /\ Aged(m)
           /\ \A f \in NOTE_FIELDS : Stamp(m, f) = Stamp(Picked(l, r, f), f)
<1>1. m \in Note
  BY Merged
<1>2. ASSUME NEW f \in NOTE_FIELDS, ~StampsField(l, r, f)
      PROVE  /\ m.updatedAt = 1 /\ m.time[f] = Unstamped /\ m.writer[f] = NoWriter
             /\ Stamp(m, f) = Stamp(Picked(l, r, f), f)
  <2>1. f = "secret" /\ \A n \in {l, r} : n.time[f] = Unstamped
    BY <1>2 DEF StampsField, NeverSecret
  <2>2. \A n \in {l, r} : n.updatedAt = 1 /\ n.writer[f] = NoWriter /\ \A g \in NOTE_FIELDS : n.time[g] <= 1
    BY <2>1 DEF Aged
  <2>3. \A g \in NOTE_FIELDS : Picked(l, r, g) \in {l, r}
    BY PickedIs
  <2>4. \A g \in NOTE_FIELDS : FieldTime(Picked(l, r, g), g) = 1
    <3>1. \A n \in {l, r}, g \in NOTE_FIELDS : n.time[g] \in Nat
      BY DEF Note
    <3> QED
      BY <2>2, <2>3, <3>1 DEF FieldTime, Unstamped
  <2>5. m.time[f] = Unstamped /\ m.writer[f] = NoWriter
    BY <1>2, Merged
  <2>6. \A g \in NOTE_FIELDS : m.time[g] = Unstamped \/ m.time[g] = 1
    BY <2>4, Merged
  <2>7. \/ m.updatedAt = l.updatedAt \/ m.updatedAt = r.updatedAt
        \/ \E g \in NOTE_FIELDS : m.updatedAt = m.time[g]
    BY Merged
  <2>8. m.updatedAt # 0
    BY <1>1 DEF Note
  <2>9. m.updatedAt = 1
    BY <2>2, <2>6, <2>7, <2>8 DEF Unstamped
  <2>10. Picked(l, r, f).writer[f] = NoWriter
    BY <2>2, <2>3
  <2> QED
    BY <2>4, <2>5, <2>9, <2>10 DEF Stamp, FieldTime
<1>3. ASSUME NEW f \in NOTE_FIELDS, StampsField(l, r, f)
      PROVE  m.time[f] # Unstamped /\ Stamp(m, f) = Stamp(Picked(l, r, f), f)
  BY <1>3, StampMerged
<1>4. \A f \in NOTE_FIELDS : m.time[f] <= m.updatedAt
  BY <1>1, Merged DEF Note
<1> QED
  BY <1>2, <1>3, <1>4 DEF Aged

\* A copy m takes the place of some others.
Replaced(olds, m) ==
    /\ olds \subseteq Copies /\ m \in Note /\ Aged(m)
    /\ m \in Copies' /\ Copies' \subseteq Copies \cup {m}
    /\ \A c \in Copies : c \in Copies' \/ c \in olds

LEMMA CopiesAreNotes ==
    ASSUME Kinds
    PROVE  \A c \in Copies : c \in Note
BY DEF Kinds, Copies

\* An edit replaces the device's copy.
LEMMA EditReplaces ==
    ASSUME NEW d \in Writers, Moves(d), Aged(copy'[d])
    PROVE  Replaced({copy[d]}, copy'[d])
<1>1. Copies' = {live} \cup { copy'[e] : e \in Writers }
  BY DEF Moves, Copies
<1>2. \A e \in Writers : e # d => copy'[e] = copy[e]
  BY DEF Moves
<1>3. copy'[d] \in Note
  BY DEF Moves
<1> QED
  BY <1>1, <1>2, <1>3 DEF Copies, Replaced

\* A sync replaces the device's copy and the relay's.
LEMMA SyncReplaces ==
    ASSUME Kinds, AgedCopies, NEW d \in Writers, Sync(d), NEW m, m = copy'[d]
    PROVE  /\ m = MergeTwoNotes(copy[d], live)
           /\ copy[d] \in Note /\ live \in Note /\ Aged(copy[d]) /\ Aged(live)
           /\ Replaced({copy[d], live}, m)
           /\ \A e \in Writers \ {d} : copy'[e] = copy[e]
           /\ live' \in Note /\ copy' \in [Writers -> Note]
<1>1. copy[d] \in Note /\ live \in Note /\ copy \in [Writers -> Note]
  BY DEF Kinds
<1>2. Aged(copy[d]) /\ Aged(live)
  BY DEF AgedCopies, Copies
<1>3. copy' = [copy EXCEPT ![d] = MergeTwoNotes(copy[d], live)] /\ live' = MergeTwoNotes(copy[d], live)
  BY DEF Sync
<1>4. m = MergeTwoNotes(copy[d], live)
  BY <1>1, <1>3
<1>5. m \in Note /\ Aged(m)
  <2>1. m \in Note
    BY <1>1, <1>4, Merged
  <2>2. Aged(m)
    BY <1>1, <1>2, <1>4, MergedStamps
  <2> QED
    BY <2>1, <2>2
<1>6. /\ copy' \in [Writers -> Note] /\ live' = m
      /\ \A e \in Writers : copy'[e] = IF e = d THEN m ELSE copy[e]
  BY <1>1, <1>3, <1>4, <1>5
<1>7. Copies' = {m} \cup { copy'[e] : e \in Writers }
  BY <1>6 DEF Copies
<1>8. Copies' \subseteq Copies \cup {m} /\ m \in Copies'
  BY <1>6, <1>7 DEF Copies
<1>9. \A c \in Copies : c \in Copies' \/ c \in {copy[d], live}
  BY <1>6, <1>7 DEF Copies
<1>10. {copy[d], live} \subseteq Copies
  BY DEF Copies
<1> QED
  BY <1>1, <1>2, <1>4, <1>5, <1>6, <1>8, <1>9, <1>10 DEF Replaced

LEMMA AgedKept ==
    ASSUME AgedCopies, NEW olds, NEW m, Replaced(olds, m)
    PROVE  AgedCopies'
<1>1. \A c \in Copies' : c \in Copies \/ c = m
  BY DEF Replaced
<1>2. \A c \in Copies' : Aged(c)
  BY <1>1 DEF AgedCopies, Replaced
<1> QED
  BY <1>2 DEF AgedCopies

-----------------------------------------------------------------------------
(* Values.                                                                  *)

\* A value that a copy has was written with the stamp it has there.
ValuesWritten ==
    \A c \in Copies, f \in WholeFields :
        \E w \in writes : w.field = f /\ w.value = c.value[f] /\ w.stamp = Stamp(c, f)

\* No copy need have what was written last, but some have nothing earlier.
WritesCovered ==
    \A w \in writes : w.field \in WholeFields =>
        \E c \in Copies : ~Later(w.stamp, Stamp(c, w.field))

\* What a step does to the values.
ValuesStep(olds, m) ==
    /\ writes \subseteq writes'
    /\ \A f \in WholeFields :
        /\ \E w \in writes' : w.field = f /\ w.value = m.value[f] /\ w.stamp = Stamp(m, f)
        /\ \A o \in olds : ~Later(Stamp(o, f), Stamp(m, f))
        /\ \A w \in writes' \ writes : w.field = f => ~Later(w.stamp, Stamp(m, f))

LEMMA ValuesKept ==
    ASSUME Kinds, ValuesWritten, WritesCovered, NEW olds, NEW m,
           Replaced(olds, m), ValuesStep(olds, m)
    PROVE  ValuesWritten' /\ WritesCovered'
<1>1. ASSUME NEW c \in Copies', NEW f \in WholeFields
      PROVE  \E w \in writes' : w.field = f /\ w.value = c.value[f] /\ w.stamp = Stamp(c, f)
  <2>1. CASE c = m
    BY <2>1 DEF ValuesStep
  <2>2. CASE c \in Copies
    <3>1. PICK w \in writes : w.field = f /\ w.value = c.value[f] /\ w.stamp = Stamp(c, f)
      BY <2>2 DEF ValuesWritten
    <3>2. w \in writes'
      BY DEF ValuesStep
    <3> QED
      BY <3>1, <3>2
  <2> QED
    BY <2>1, <2>2 DEF Replaced
<1>2. ASSUME NEW w \in writes', w.field \in WholeFields
      PROVE  \E c \in Copies' : ~Later(w.stamp, Stamp(c, w.field))
  <2> DEFINE f == w.field
  <2>1. CASE w \in writes
    <3>1. PICK c \in Copies : ~Later(w.stamp, Stamp(c, f))
      BY <1>2, <2>1 DEF WritesCovered
    <3>2. CASE c \in Copies'
      BY <3>1, <3>2
    <3>3. CASE c \in olds
      <4>1. ~Later(Stamp(c, f), Stamp(m, f)) /\ m \in Copies'
        BY <1>2, <3>3 DEF ValuesStep, Replaced
      <4>2. w.stamp \in StampType /\ Stamp(c, f) \in StampType /\ Stamp(m, f) \in StampType
        <5>1. f \in NOTE_FIELDS /\ c \in Note /\ m \in Note
          BY <1>2, CopiesAreNotes DEF NOTE_FIELDS, Replaced
        <5>2. w.stamp \in StampType
          BY <2>1 DEF Kinds
        <5> HIDE DEF f
        <5> QED
          BY <5>1, <5>2, StampOf
      <4> HIDE DEF f
      <4>3. ~Later(w.stamp, Stamp(m, f))
        BY <3>1, <4>1, <4>2, StampsInOrder
      <4> QED
        BY <4>1, <4>3 DEF f
    <3> QED
      BY <3>2, <3>3 DEF Replaced
  <2>2. CASE w \notin writes
    BY <1>2, <2>2 DEF ValuesStep, Replaced
  <2> QED
    BY <2>1, <2>2
<1> QED
  BY <1>1, <1>2 DEF ValuesWritten, WritesCovered

\* Where the values and their stamps stay.
LEMMA ValuesUntouched ==
    ASSUME Kinds, ValuesWritten, NEW d \in Writers, NEW m \in Note, writes \subseteq writes',
           \A f \in WholeFields : m.value[f] = copy[d].value[f] /\ Stamp(m, f) = Stamp(copy[d], f),
           \A w \in writes' \ writes : w.field \notin WholeFields
    PROVE  ValuesStep({copy[d]}, m)
<1>1. copy[d] \in Copies /\ copy[d] \in Note
  BY DEF Copies, Kinds
<1>2. ASSUME NEW f \in WholeFields
      PROVE  /\ \E w \in writes' : w.field = f /\ w.value = m.value[f] /\ w.stamp = Stamp(m, f)
             /\ ~Later(Stamp(copy[d], f), Stamp(m, f))
  <2>1. PICK w \in writes : /\ w.field = f /\ w.value = copy[d].value[f]
                            /\ w.stamp = Stamp(copy[d], f)
    BY <1>1 DEF ValuesWritten
  <2>2. Stamp(m, f) \in StampType
    BY StampOf DEF NOTE_FIELDS
  <2>3. ~Later(Stamp(m, f), Stamp(m, f))
    BY <2>2, StampsInOrder
  <2> QED
    BY <2>1, <2>3
<1> QED
  BY <1>2 DEF ValuesStep

\* Where some fields are written.
LEMMA ValuesSet ==
    ASSUME Kinds, ValuesWritten, NEW d \in Writers, NEW m \in Note,
           NEW fields \in SUBSET WholeFields, Written(m, fields) \subseteq writes',
           writes \subseteq writes',
           \A w \in writes' \ writes : w.field \in WholeFields => w \in Written(m, fields),
           \A f \in fields : Later(Stamp(m, f), Stamp(copy[d], f)),
           \A f \in WholeFields \ fields :
                m.value[f] = copy[d].value[f] /\ Stamp(m, f) = Stamp(copy[d], f)
    PROVE  ValuesStep({copy[d]}, m)
<1>1. copy[d] \in Copies /\ copy[d] \in Note
  BY DEF Copies, Kinds
<1>2. ASSUME NEW f \in WholeFields
      PROVE  /\ Stamp(m, f) \in StampType /\ Stamp(copy[d], f) \in StampType
             /\ ~Later(Stamp(m, f), Stamp(m, f)) /\ ~Later(Stamp(copy[d], f), Stamp(m, f))
  <2>1. Stamp(m, f) \in StampType /\ Stamp(copy[d], f) \in StampType
    BY <1>1, StampOf DEF NOTE_FIELDS
  <2>2. ~Later(Stamp(m, f), Stamp(m, f))
    BY <2>1, StampsInOrder
  <2>3. Later(Stamp(m, f), Stamp(copy[d], f)) \/ Stamp(m, f) = Stamp(copy[d], f)
    OBVIOUS
  <2> QED
    BY <2>1, <2>2, <2>3, StampsInOrder
<1>3. ASSUME NEW f \in WholeFields
      PROVE  \E w \in writes' : w.field = f /\ w.value = m.value[f] /\ w.stamp = Stamp(m, f)
  <2>1. CASE f \in fields
    <3> DEFINE w == [field |-> f, stamp |-> Stamp(m, f), value |-> m.value[f]]
    <3>1. w \in Written(m, fields)
      BY <2>1 DEF Written
    <3> QED
      BY <3>1
  <2>2. CASE f \notin fields
    <3>1. PICK w \in writes : /\ w.field = f /\ w.value = copy[d].value[f]
                              /\ w.stamp = Stamp(copy[d], f)
      BY <1>1 DEF ValuesWritten
    <3> QED
      BY <2>2, <3>1
  <2> QED
    BY <2>1, <2>2
<1>4. ASSUME NEW w \in writes' \ writes, w.field \in WholeFields
      PROVE  ~Later(w.stamp, Stamp(m, w.field))
  <2>1. w \in Written(m, fields)
    BY <1>4
  <2>2. w.stamp = Stamp(m, w.field)
    BY <2>1 DEF Written
  <2> QED
    BY <1>2, <1>4, <2>2
<1> QED
  BY <1>2, <1>3, <1>4 DEF ValuesStep

\* And what a sync makes of them.
LEMMA ValuesSynced ==
    ASSUME ValuesWritten, NEW l \in Note, NEW r \in Note, l \in Copies, r \in Copies,
           Aged(l), Aged(r), writes' = writes, NEW m, m = MergeTwoNotes(l, r)
    PROVE  ValuesStep({l, r}, m)
<1>1. ASSUME NEW f \in WholeFields
      PROVE  /\ \E w \in writes' : w.field = f /\ w.value = m.value[f] /\ w.stamp = Stamp(m, f)
             /\ \A o \in {l, r} : ~Later(Stamp(o, f), Stamp(m, f))
  <2> DEFINE p == Picked(l, r, f)
  <2>1. f \in NOTE_FIELDS
    BY DEF NOTE_FIELDS
  <2>2. p \in {l, r} /\ ~Later(Stamp(l, f), Stamp(p, f)) /\ ~Later(Stamp(r, f), Stamp(p, f))
    BY <2>1, PickedIs
  <2>3. Stamp(m, f) = Stamp(p, f)
    BY <2>1, MergedStamps
  <2>4. m.value[f] = p.value[f]
    BY Merged
  <2> HIDE DEF p
  <2>5. PICK w \in writes : w.field = f /\ w.value = p.value[f] /\ w.stamp = Stamp(p, f)
    BY <2>2 DEF ValuesWritten
  <2> QED
    BY <2>2, <2>3, <2>4, <2>5
<1> QED
  BY <1>1 DEF ValuesStep

-----------------------------------------------------------------------------
(* The body.                                                                *)

NoPush == \A w \in writes : w.field # "push"

\* A copy's text is on the base that the note's first write names, or will be,
\* and nothing was taken out of it.
Based(c, s) ==
    /\ c.doc.removed = {}
    /\ IF c.doc = NoDoc THEN Stamp(c, "body") = s ELSE c.doc.base = s

\* As long as no device replaces the cloud's copy, there is but one base.
OneBase == NoPush => \E s \in StampType : s.time # 0 /\ \A c \in Copies : Based(c, s)

PhrasesHeld ==
    NoPush => \A w \in writes : w.field = "body" =>
                 \E c \in Copies : \E x \in c.doc.added : x.phrase = w.value

\* What a step does to the body.
BodyStep(olds, m) ==
    /\ writes \subseteq writes'
    /\ \A s \in StampType : s.time # 0 /\ (\A o \in olds : Based(o, s)) =>
            Based(m, s) /\ \A o \in olds : o.doc.added \subseteq m.doc.added
    /\ \A w \in writes' \ writes : w.field = "body" => \E x \in m.doc.added : x.phrase = w.value

LEMMA BodyKept ==
    ASSUME OneBase, PhrasesHeld, NEW olds, NEW m, Replaced(olds, m), BodyStep(olds, m)
    PROVE  OneBase' /\ PhrasesHeld'
<1>1. ASSUME NoPush'
      PROVE  /\ \E s \in StampType : s.time # 0 /\ \A c \in Copies' : Based(c, s)
             /\ \A w \in writes' : w.field = "body" =>
                    \E c \in Copies' : \E x \in c.doc.added : x.phrase = w.value
  <2>1. NoPush
    BY <1>1 DEF NoPush, BodyStep
  <2>2. PICK s \in StampType : s.time # 0 /\ \A c \in Copies : Based(c, s)
    BY <2>1 DEF OneBase
  <2>3. Based(m, s) /\ \A o \in olds : o.doc.added \subseteq m.doc.added
    <3>1. \A o \in olds : Based(o, s)
      BY <2>2 DEF Replaced
    <3> QED
      BY <2>2, <3>1 DEF BodyStep
  <2>4. \A c \in Copies' : Based(c, s)
    BY <2>2, <2>3 DEF Replaced
  <2>5. ASSUME NEW w \in writes', w.field = "body"
        PROVE  \E c \in Copies' : \E x \in c.doc.added : x.phrase = w.value
    <3>1. CASE w \in writes
      <4>1. PICK c \in Copies : \E x \in c.doc.added : x.phrase = w.value
        BY <2>1, <2>5, <3>1 DEF PhrasesHeld
      <4> QED
        BY <2>3, <4>1 DEF Replaced
    <3>2. CASE w \notin writes
      BY <2>5, <3>2 DEF BodyStep, Replaced
    <3> QED
      BY <3>1, <3>2
  <2> QED
    BY <2>2, <2>4, <2>5
<1> QED
  BY <1>1 DEF OneBase, PhrasesHeld

\* Where the text and its stamp stay.
LEMMA BodyUntouched ==
    ASSUME NEW o, NEW m, m.doc = o.doc, Stamp(m, "body") = Stamp(o, "body"),
           writes \subseteq writes', \A w \in writes' \ writes : w.field # "body"
    PROVE  BodyStep({o}, m)
BY DEF BodyStep, Based

\* Where a phrase is typed.
LEMMA BodyTyped ==
    ASSUME NEW o, NEW m, NEW item, m.doc # NoDoc, m.doc.added = o.doc.added \cup {item},
           m.doc.base = (IF o.doc # NoDoc THEN o.doc.base ELSE Stamp(o, "body")),
           m.doc.removed = o.doc.removed, writes \subseteq writes',
           \A w \in writes' \ writes : w.value = item.phrase
    PROVE  BodyStep({o}, m)
BY DEF BodyStep, Based

\* What a sync makes of texts on one base.
LEMMA BodySynced ==
    ASSUME NEW l \in Note, NEW r \in Note, Aged(l), Aged(r), writes' = writes,
           NEW m, m = MergeTwoNotes(l, r)
    PROVE  BodyStep({l, r}, m)
<1>1. ASSUME NEW s \in StampType, s.time # 0, Based(l, s), Based(r, s)
      PROVE  Based(m, s) /\ l.doc.added \subseteq m.doc.added /\ r.doc.added \subseteq m.doc.added
  <2>1. m.doc = MergedDoc(l, r)
    BY Merged
  <2>2. NoDoc.added = {} /\ NoDoc.removed = {}
    BY DEF NoDoc
  <2>3. CASE l.doc = NoDoc /\ r.doc = NoDoc
    <3>1. m.doc = NoDoc
      BY <2>1, <2>3, MergedBody
    <3>2. Stamp(l, "body") = s /\ Stamp(r, "body") = s
      BY <1>1, <2>3 DEF Based
    <3>3. Stamp(m, "body") = s
      <4>1. "body" \in NOTE_FIELDS
        BY DEF NOTE_FIELDS
      <4>2. Picked(l, r, "body") \in {l, r}
        BY <4>1, PickedIs
      <4> QED
        BY <3>2, <4>1, <4>2, MergedStamps
    <3> QED
      BY <2>2, <2>3, <3>1, <3>3 DEF Based
  <2>4. ASSUME NEW x \in {l, r}, NEW y \in {l, r}, x.doc = NoDoc, y.doc # NoDoc
        PROVE  OverPlain(y, x) = y.doc
    <3>1. Stamp(x, "body") = s /\ y.doc.base = s
      BY <1>1, <2>4 DEF Based
    <3>2. ~Later(s, s)
      BY StampsInOrder
    <3> QED
      BY <3>1, <3>2 DEF OverPlain
  <2>5. CASE l.doc = NoDoc /\ r.doc # NoDoc
    <3>1. m.doc = r.doc
      BY <2>1, <2>4, <2>5 DEF MergedDoc
    <3> QED
      BY <1>1, <2>2, <2>5, <3>1 DEF Based
  <2>6. CASE l.doc # NoDoc /\ r.doc = NoDoc
    <3>1. m.doc = l.doc
      BY <2>1, <2>4, <2>6 DEF MergedDoc
    <3> QED
      BY <1>1, <2>2, <2>6, <3>1 DEF Based
  <2>7. CASE l.doc # NoDoc /\ r.doc # NoDoc
    <3>1. l.doc.base = s /\ r.doc.base = s /\ l.doc.removed = {} /\ r.doc.removed = {}
      BY <1>1, <2>7 DEF Based
    <3>2. /\ m.doc # NoDoc /\ m.doc.base = s /\ m.doc.removed = {} \cup {}
          /\ m.doc.added = l.doc.added \cup r.doc.added
      BY <2>1, <2>7, <3>1, MergedBody
    <3> QED
      BY <3>2 DEF Based
  <2> QED
    BY <2>3, <2>5, <2>6, <2>7
<1> QED
  BY <1>1 DEF BodyStep

-----------------------------------------------------------------------------
(* The images.                                                              *)

ImageTime(n) == FieldTime(n, "images")

\* The images of a copy were last edited by a write of theirs.
ImageStamps == \A c \in Copies : \E w \in imageWrites : w.stamp = Stamp(c, "images")

\* A device's copy is no older than what the device did to the images.
OwnSeen ==
    \A w \in imageWrites, d \in Writers : w.stamp.writer = d => w.stamp.time <= ImageTime(copy[d])

\* An image nobody removed is nowhere buried, and some copy has it if it was
\* ever listed.
ListedKept ==
    \A i \in Images : (\A v \in imageWrites : i \notin v.removed) =>
        /\ \A c \in Copies : c.buried[i] = 0
        /\ \A w \in imageWrites : i \in w.listed => \E c \in Copies : c.images[i] # NoImage

\* A copy that took part in a removal.
Saw(c, w, i) == c.images[i] = NoImage /\ c.buried[i] >= w.at /\ ImageTime(c) >= w.at

\* After a removal that all other edits of the images precede, some copy took
\* part in it and the others are no younger.
RemovalSeen ==
    \A w \in imageWrites, i \in Images :
        i \in w.removed /\ (\A v \in imageWrites \ {w} : v.stamp.time <= w.at) =>
            /\ \E c \in Copies : Saw(c, w, i)
            /\ \A c \in Copies : Saw(c, w, i) \/ ImageTime(c) <= w.at

\* What a step that edits no images does to them.
ImagesStep(olds, m) ==
    /\ \E o \in olds : Stamp(m, "images") = Stamp(o, "images")
    /\ \A i \in Images : (\A o \in olds : o.buried[i] = 0) =>
            m.buried[i] = 0 /\ ((\E o \in olds : o.images[i] # NoImage) => m.images[i] # NoImage)
    /\ \A w \in imageWrites, i \in Images :
            w.at # 0 /\ (\A o \in olds : Saw(o, w, i) \/ ImageTime(o) <= w.at) =>
                /\ Saw(m, w, i) \/ ImageTime(m) <= w.at
                /\ (\E o \in olds : Saw(o, w, i)) => Saw(m, w, i)

LEMMA ImagesKeptOn ==
    ASSUME Kinds, ImageStamps, ListedKept, RemovalSeen, imageWrites' = imageWrites,
           NEW olds, NEW m, Replaced(olds, m), ImagesStep(olds, m)
    PROVE  ImageStamps' /\ ListedKept' /\ RemovalSeen'
<1>1. ImageStamps'
  <2>1. ASSUME NEW c \in Copies' PROVE \E w \in imageWrites' : w.stamp = Stamp(c, "images")
    <3>1. PICK o \in Copies : Stamp(c, "images") = Stamp(o, "images")
      BY DEF ImagesStep, Replaced
    <3> QED
      BY <3>1 DEF ImageStamps
  <2> QED
    BY <2>1 DEF ImageStamps
<1>2. ASSUME NEW i \in Images, \A v \in imageWrites : i \notin v.removed
      PROVE  /\ \A c \in Copies' : c.buried[i] = 0
             /\ \A w \in imageWrites : i \in w.listed => \E c \in Copies' : c.images[i] # NoImage
  <2>1. /\ \A c \in Copies : c.buried[i] = 0
        /\ \A w \in imageWrites : i \in w.listed => \E c \in Copies : c.images[i] # NoImage
    BY <1>2 DEF ListedKept
  <2>2. \A o \in olds : o.buried[i] = 0
    BY <2>1 DEF Replaced
  <2>3. m.buried[i] = 0 /\ ((\E o \in olds : o.images[i] # NoImage) => m.images[i] # NoImage)
    BY <2>2 DEF ImagesStep
  <2> QED
    BY <2>1, <2>3 DEF Replaced
<1>3. ListedKept'
  BY <1>2 DEF ListedKept
<1>4. ASSUME NEW w \in imageWrites, NEW i \in Images, i \in w.removed,
             \A v \in imageWrites \ {w} : v.stamp.time <= w.at
      PROVE  /\ \E c \in Copies' : Saw(c, w, i)
             /\ \A c \in Copies' : Saw(c, w, i) \/ ImageTime(c) <= w.at
  <2>1. PICK c \in Copies : Saw(c, w, i)
    BY <1>4 DEF RemovalSeen
  <2>2. \A o \in Copies : Saw(o, w, i) \/ ImageTime(o) <= w.at
    BY <1>4 DEF RemovalSeen
  <2>3. w.at # 0
    BY <1>4 DEF Kinds
  <2>4. /\ Saw(m, w, i) \/ ImageTime(m) <= w.at
        /\ (\E o \in olds : Saw(o, w, i)) => Saw(m, w, i)
    <3>1. \A o \in olds : Saw(o, w, i) \/ ImageTime(o) <= w.at
      BY <2>2 DEF Replaced
    <3> QED
      BY <2>3, <3>1 DEF ImagesStep
  <2>5. \A o \in Copies' : o \in Copies \/ o = m
    BY DEF Replaced
  <2>6. c \in Copies' \/ c \in olds
    BY DEF Replaced
  <2>7. m \in Copies'
    BY DEF Replaced
  <2> QED
    BY <2>1, <2>2, <2>4, <2>5, <2>6, <2>7
<1>5. RemovalSeen'
  <2>1. ASSUME NEW w \in imageWrites', NEW i \in Images, i \in w.removed,
               \A v \in imageWrites' \ {w} : v.stamp.time <= w.at
        PROVE  /\ \E c \in Copies' : Saw(c, w, i)
               /\ \A c \in Copies' : Saw(c, w, i) \/ ImageTime(c) <= w.at
    BY <1>4, <2>1
  <2> QED
    BY <2>1 DEF RemovalSeen, Saw, ImageTime, FieldTime
<1> QED
  BY <1>1, <1>3, <1>5

\* Where the images and their stamp stay.
LEMMA ImagesUntouched ==
    ASSUME NEW o \in Note, NEW m \in Note, m.images = o.images, m.buried = o.buried,
           Stamp(m, "images") = Stamp(o, "images")
    PROVE  ImagesStep({o}, m)
<1>1. ImageTime(m) = ImageTime(o)
  BY StampParts DEF ImageTime, NOTE_FIELDS
<1> QED
  BY <1>1 DEF ImagesStep, Saw

\* What a sync makes of them: a removal that one side took part in, and that
\* the other is no younger than, stays.
LEMMA ImagesSynced ==
    ASSUME Kinds, NEW l \in Note, NEW r \in Note, Aged(l), Aged(r), NEW m, m = MergeTwoNotes(l, r)
    PROVE  ImagesStep({l, r}, m)
<1> DEFINE p == Picked(l, r, "images")
<1>1. "images" \in NOTE_FIELDS
  BY DEF NOTE_FIELDS
<1>2. m \in Note
  BY Merged
<1>3. /\ p \in {l, r} /\ Stamp(m, "images") = Stamp(p, "images")
      /\ FieldTime(p, "images") >= FieldTime(l, "images")
      /\ FieldTime(p, "images") >= FieldTime(r, "images")
  BY <1>1, PickedIs, MergedStamps
<1> HIDE DEF p
<1>4. /\ ImageTime(m) \in {ImageTime(l), ImageTime(r)}
      /\ ImageTime(m) >= ImageTime(l) /\ ImageTime(m) >= ImageTime(r)
  <2>1. ImageTime(m) = ImageTime(p)
    <3>1. p \in Note
      BY <1>3
    <3> QED
      BY <1>1, <1>2, <1>3, <3>1, StampParts DEF ImageTime
  <2> QED
    BY <1>3, <2>1 DEF ImageTime
<1>5. ImageTime(l) \in Nat /\ ImageTime(r) \in Nat /\ ImageTime(m) \in Nat
  BY <1>1, <1>2, StampOf DEF ImageTime
<1>6. ASSUME NEW i \in Images
      PROVE  /\ Buried(l, r, i) \in {l.buried[i], r.buried[i]} /\ Buried(l, r, i) \in Nat
             /\ Buried(l, r, i) >= l.buried[i] /\ Buried(l, r, i) >= r.buried[i]
             /\ l.buried[i] \in Nat /\ r.buried[i] \in Nat
             /\ l.images[i] \in Image /\ r.images[i] \in Image
             /\ IF i \in KeptImages(l, r)
                THEN m.images[i] = PickImage(l.images[i], r.images[i]) /\ m.buried[i] = 0
                ELSE m.images[i] = NoImage /\ m.buried[i] = Buried(l, r, i)
  <2>1. l.buried[i] \in Nat /\ r.buried[i] \in Nat /\ l.images[i] \in Image /\ r.images[i] \in Image
    BY DEF Note
  <2>2. IF i \in KeptImages(l, r)
        THEN m.images[i] = PickImage(l.images[i], r.images[i]) /\ m.buried[i] = 0
        ELSE m.images[i] = NoImage /\ m.buried[i] = Buried(l, r, i)
    BY Merged
  <2> QED
    BY <2>1, <2>2, MaxOfTwo DEF Buried
<1>7. ASSUME NEW i \in Images, l.buried[i] = 0, r.buried[i] = 0
      PROVE  /\ m.buried[i] = 0
             /\ l.images[i] # NoImage \/ r.images[i] # NoImage => m.images[i] # NoImage
  <2>1. Buried(l, r, i) = 0
    BY <1>6, <1>7
  <2>2. l.images[i] # NoImage \/ r.images[i] # NoImage =>
            i \in KeptImages(l, r) /\ PickImage(l.images[i], r.images[i]) # NoImage
    BY <1>6, <2>1, PickedImage DEF KeptImages
  <2> QED
    BY <1>6, <2>1, <2>2
<1>8. ASSUME NEW w \in imageWrites, NEW i \in Images, w.at # 0,
             \A o \in {l, r} : Saw(o, w, i) \/ ImageTime(o) <= w.at
      PROVE  /\ Saw(m, w, i) \/ ImageTime(m) <= w.at
             /\ (\E o \in {l, r} : Saw(o, w, i)) => Saw(m, w, i)
  <2>1. w.at \in Nat
    BY DEF Kinds
  <2>2. CASE \E o \in {l, r} : Saw(o, w, i)
    <3>1. Buried(l, r, i) >= w.at /\ Buried(l, r, i) # 0 /\ ImageTime(m) >= w.at
      BY <1>4, <1>5, <1>6, <1>8, <2>1, <2>2 DEF Saw
    <3>2. ASSUME NEW o \in {l, r} PROVE ~Restores(o, i, Buried(l, r, i))
      BY <1>5, <1>6, <1>8, <2>1, <3>1 DEF Restores, Saw, ImageTime
    <3>3. i \notin KeptImages(l, r)
      BY <3>1, <3>2 DEF KeptImages
    <3>4. Saw(m, w, i)
      BY <1>6, <3>1, <3>3 DEF Saw
    <3> QED
      BY <3>4
  <2>3. CASE ~\E o \in {l, r} : Saw(o, w, i)
    <3>1. ImageTime(m) <= w.at
      BY <1>4, <1>8, <2>3
    <3> QED
      BY <2>3, <3>1
  <2> QED
    BY <2>2, <2>3
<1> QED
  BY <1>3, <1>7, <1>8 DEF ImagesStep

\* m has taken the images `removed' out of the note c, with burials of time at,
\* and hides no other image.
TakenOut(c, m, removed, at) ==
    /\ \A i \in Images \ removed : c.buried[i] = 0 =>
          m.buried[i] = 0 /\ (c.images[i] # NoImage => m.images[i] # NoImage)
    /\ \A i \in removed : m.images[i] = NoImage /\ m.buried[i] >= at /\ ImageTime(m) >= at

ImagesKnown == ImageStamps /\ OwnSeen /\ ListedKept /\ RemovalSeen

\* An edit of the images: what it removes it buries with its time, and it is
\* later than what the device had.
LEMMA ImagesKeptByEdit ==
    ASSUME Kinds, ImagesKnown, NEW d \in Writers, NEW m, m = copy'[d],
           Moves(d), Replaced({copy[d]}, m), NEW removed, NEW at \in Nat,
           imageWrites' = imageWrites \cup {ImageWrite(m, removed, at)},
           m.writer["images"] = d, ImageTime(m) > ImageTime(copy[d]),
           TakenOut(copy[d], m, removed, at)
    PROVE  ImagesKnown'
<1> DEFINE o == copy[d]
           new == ImageWrite(m, removed, at)
<1>0. /\ ImageStamps /\ OwnSeen /\ ListedKept /\ RemovalSeen
      /\ imageWrites' = imageWrites \cup {new}
      /\ \A i \in Images \ removed : copy[d].buried[i] = 0 =>
                m.buried[i] = 0 /\ (copy[d].images[i] # NoImage => m.images[i] # NoImage)
      /\ \A i \in removed : m.images[i] = NoImage /\ m.buried[i] >= at /\ ImageTime(m) >= at
  BY DEF ImagesKnown, TakenOut
<1>1. /\ new.stamp = Stamp(m, "images") /\ new.listed = Listed(m)
      /\ new.removed = removed /\ new.at = at
      /\ new.stamp.time = ImageTime(m) /\ new.stamp.writer = d
  BY DEF ImageWrite, Stamp, ImageTime
<1> HIDE DEF new
<1> USE <1>0
<1>2. o \in Note /\ m \in Note /\ o \in Copies
  BY DEF Kinds, Moves, Copies
<1>3. ImageTime(m) \in Nat /\ ImageTime(o) \in Nat
  BY <1>2, StampOf DEF ImageTime, NOTE_FIELDS
<1>4. new \notin imageWrites
  <2>1. ASSUME new \in imageWrites PROVE FALSE
    <3>1. new.stamp.time <= ImageTime(o)
      BY <1>1, <2>1 DEF OwnSeen
    <3> QED
      BY <1>1, <1>3, <3>1
  <2> QED
    BY <2>1
<1>5. \A c \in Copies' : c \in Copies \/ c = m
  BY DEF Replaced
<1>6. m \in Copies' /\ \A c \in Copies : c # o => c \in Copies'
  BY DEF Replaced
<1>7. ImageStamps'
  <2>1. ASSUME NEW c \in Copies' PROVE \E w \in imageWrites' : w.stamp = Stamp(c, "images")
    BY <1>1, <1>5 DEF ImageStamps
  <2> QED
    BY <2>1 DEF ImageStamps
<1>8. OwnSeen'
  <2>1. ASSUME NEW w \in imageWrites', NEW e \in Writers, w.stamp.writer = e
        PROVE  w.stamp.time <= ImageTime(copy'[e])
    <3>1. CASE w = new
      <4>1. e = d /\ w.stamp.time = ImageTime(m)
        BY <1>1, <2>1, <3>1
      <4> QED
        BY <1>3, <4>1
    <3>2. CASE w \in imageWrites
      <4>1. w.stamp.time <= ImageTime(copy[e]) /\ w.stamp \in StampType
        BY <2>1, <3>2 DEF OwnSeen, Kinds
      <4>2. CASE e = d
        BY <1>3, <4>1, <4>2 DEF StampType
      <4>3. CASE e # d
        BY <4>1, <4>3 DEF Moves
      <4> QED
        BY <4>2, <4>3
    <3> QED
      BY <3>1, <3>2
  <2> QED
    BY <2>1 DEF OwnSeen, ImageTime, FieldTime
<1>9. ASSUME NEW i \in Images, \A v \in imageWrites' : i \notin v.removed
      PROVE  /\ \A c \in Copies' : c.buried[i] = 0
             /\ \A w \in imageWrites' : i \in w.listed => \E c \in Copies' : c.images[i] # NoImage
  <2>1. i \notin removed /\ \A v \in imageWrites : i \notin v.removed
    BY <1>1, <1>9
  <2>2. /\ \A c \in Copies : c.buried[i] = 0
        /\ \A w \in imageWrites : i \in w.listed => \E c \in Copies : c.images[i] # NoImage
    BY <2>1 DEF ListedKept
  <2>3. m.buried[i] = 0 /\ (o.images[i] # NoImage => m.images[i] # NoImage)
    BY <1>2, <2>1, <2>2
  <2>4. i \in new.listed => m.images[i] # NoImage
    BY <1>1 DEF Listed
  <2> QED
    BY <1>5, <1>6, <2>2, <2>3, <2>4
<1>10. ListedKept'
  BY <1>9 DEF ListedKept
<1>11. ASSUME NEW w \in imageWrites', NEW i \in Images, i \in w.removed,
              \A v \in imageWrites' \ {w} : v.stamp.time <= w.at
       PROVE  /\ \E c \in Copies' : Saw(c, w, i)
              /\ \A c \in Copies' : Saw(c, w, i) \/ ImageTime(c) <= w.at
  <2>1. CASE w = new
    <3>1. Saw(m, w, i)
      BY <1>1, <1>11, <2>1 DEF Saw
    <3>2. ASSUME NEW c \in Copies PROVE ImageTime(c) <= w.at
      <4>1. PICK v \in imageWrites : v.stamp = Stamp(c, "images")
        BY DEF ImageStamps
      <4>2. v.stamp.time = ImageTime(c)
        BY <4>1 DEF Stamp, ImageTime
      <4>3. v.stamp.time <= w.at
        BY <1>4, <1>11, <2>1
      <4> QED
        BY <4>2, <4>3
    <3> QED
      BY <1>5, <1>6, <3>1, <3>2
  <2>2. CASE w \in imageWrites
    <3>1. /\ \E c \in Copies : Saw(c, w, i)
          /\ \A c \in Copies : Saw(c, w, i) \/ ImageTime(c) <= w.at
      BY <1>11, <2>2 DEF RemovalSeen
    <3>2. ImageTime(m) <= w.at
      <4>1. new \in imageWrites' \ {w}
        BY <1>4, <2>2
      <4> QED
        BY <1>1, <1>11, <4>1
    <3>3. ~Saw(o, w, i)
      <4>1. w.at \in Nat
        BY <2>2 DEF Kinds
      <4> QED
        BY <1>3, <3>2, <4>1 DEF Saw
    <3> QED
      BY <1>5, <1>6, <3>1, <3>2, <3>3
  <2> QED
    BY <2>1, <2>2
<1>12. RemovalSeen'
  BY <1>11 DEF RemovalSeen, Saw, ImageTime, FieldTime
<1> QED
  BY <1>7, <1>8, <1>10, <1>12 DEF ImagesKnown

\* A step that edits no images leaves each device's at least as late.
LEMMA OwnSeenKept ==
    ASSUME Kinds, OwnSeen, imageWrites' = imageWrites, copy' \in [Writers -> Note],
           \A e \in Writers : ImageTime(copy'[e]) >= ImageTime(copy[e])
    PROVE  OwnSeen'
<1>1. ASSUME NEW w \in imageWrites, NEW e \in Writers, w.stamp.writer = e
      PROVE  w.stamp.time <= ImageTime(copy'[e])
  <2>1. w.stamp.time <= ImageTime(copy[e]) /\ w.stamp.time \in Nat
    BY <1>1 DEF OwnSeen, Kinds, StampType
  <2>2. ImageTime(copy[e]) \in Nat /\ ImageTime(copy'[e]) \in Nat
    BY StampOf DEF ImageTime, NOTE_FIELDS, Kinds
  <2> QED
    BY <2>1, <2>2
<1> QED
  BY <1>1 DEF OwnSeen, ImageTime, FieldTime

-----------------------------------------------------------------------------
(* The inductive invariant.                                                 *)

ImagesHeld == NoPush => ImageStamps /\ OwnSeen /\ ListedKept /\ RemovalSeen

NoteInv ==
    /\ Kinds /\ AgedCopies
    /\ ValuesWritten /\ WritesCovered
    /\ OneBase /\ PhrasesHeld
    /\ ImagesHeld

LEMMA NoPushBefore ==
    ASSUME writes \subseteq writes', NoPush'
    PROVE  NoPush
BY DEF NoPush

\* The images of a copy, where a step leaves them alone.
LEMMA ImagesLeftAlone ==
    ASSUME NoteInv, NEW d \in Writers, Moves(d), NEW m, m = copy'[d], Replaced({copy[d]}, m),
           writes \subseteq writes', imageWrites' = imageWrites,
           m.images = copy[d].images, m.buried = copy[d].buried,
           Stamp(m, "images") = Stamp(copy[d], "images")
    PROVE  ImagesHeld'
<1>1. copy[d] \in Note /\ m \in Note
  BY DEF NoteInv, Kinds, Moves
<1>2. ImagesStep({copy[d]}, m)
  BY <1>1, ImagesUntouched
<1>3. ASSUME NoPush' PROVE ImageStamps' /\ OwnSeen' /\ ListedKept' /\ RemovalSeen'
  <2>1. ImageStamps /\ OwnSeen /\ ListedKept /\ RemovalSeen /\ Kinds
    BY <1>3, NoPushBefore DEF NoteInv, ImagesHeld
  <2>2. ImageStamps' /\ ListedKept' /\ RemovalSeen'
    BY <1>2, <2>1, ImagesKeptOn
  <2>3. \A e \in Writers : ImageTime(copy'[e]) >= ImageTime(copy[e])
    <3>1. ImageTime(m) = ImageTime(copy[d]) /\ ImageTime(m) \in Nat
      BY <1>1, StampParts, StampOf DEF ImageTime, NOTE_FIELDS
    <3>2. \A e \in Writers : ImageTime(copy[e]) \in Nat
      BY <2>1, StampOf DEF ImageTime, NOTE_FIELDS, Kinds
    <3>3. \A e \in Writers : e # d => copy'[e] = copy[e]
      BY DEF Moves
    <3> QED
      BY <3>1, <3>2, <3>3
  <2>4. copy' \in [Writers -> Note]
    BY DEF Moves
  <2>5. OwnSeen'
    BY <2>1, <2>3, <2>4, OwnSeenKept
  <2> QED
    BY <2>2, <2>5
<1> QED
  BY <1>3 DEF ImagesHeld

\* The kinds stay what they are where what is written is a copy's stamp.
LEMMA KindsKept ==
    ASSUME Kinds, NEW d \in Writers, Moves(d),
           \A w \in writes' \ writes : \E f \in NOTE_FIELDS : w.stamp = Stamp(copy'[d], f),
           \A w \in imageWrites' \ imageWrites :
                /\ w.stamp = Stamp(copy'[d], "images") /\ w.at \in Nat
                /\ w.removed # {} => w.at # 0
    PROVE  Kinds'
<1>1. \A f \in NOTE_FIELDS : Stamp(copy'[d], f) \in StampType
  BY StampOf DEF Moves
<1>2. "images" \in NOTE_FIELDS
  BY DEF NOTE_FIELDS
<1>3. live' \in Note /\ copy' \in [Writers -> Note] /\ edits' \in Nat
  BY DEF Moves
<1>4. \A w \in writes' : w.stamp \in StampType
  BY <1>1 DEF Kinds
<1>5. \A w \in imageWrites' : /\ w.stamp \in StampType /\ w.at \in Nat
                              /\ w.removed # {} => w.at # 0
  BY <1>1, <1>2 DEF Kinds
<1> QED
  BY <1>3, <1>4, <1>5 DEF Kinds

LEMMA WholeFieldKeeps ==
    ASSUME NoteInv, NEW d \in Writers, NEW at \in Times, NEW f \in WholeFields, NEW x \in Int,
           WriteNote(d, at, {f}, [copy[d] EXCEPT !.value[f] = x]),
           writes' = writes \cup Written(copy'[d], {f}), imageWrites' = imageWrites
    PROVE  NoteInv'
<1> DEFINE m == copy'[d]
<1>1. /\ Moves(d) /\ m \in Note /\ Aged(m)
      /\ m.doc = copy[d].doc /\ m.images = copy[d].images /\ m.buried = copy[d].buried
      /\ \A g \in WholeFields \ {f} : m.value[g] = copy[d].value[g]
      /\ \A g \in NOTE_FIELDS \ {f} : Stamp(m, g) = Stamp(copy[d], g)
      /\ Later(Stamp(m, f), Stamp(copy[d], f))
  BY WholeFieldEdited DEF NoteInv
<1>2. Replaced({copy[d]}, m)
  BY <1>1, EditReplaces
<1>3. f \in NOTE_FIELDS /\ f # "body" /\ f # "images" /\ f # "push"
  BY DEF WholeFields, NOTE_FIELDS
<1>4. \A w \in Written(m, {f}) : w.field = f /\ w.stamp = Stamp(m, f)
  BY DEF Written
<1>5. /\ writes \subseteq writes'
      /\ \A w \in writes' \ writes : w \in Written(m, {f}) /\ w.field = f /\ w.stamp = Stamp(m, f)
  BY <1>4
<1>6. Stamp(m, "body") = Stamp(copy[d], "body") /\ Stamp(m, "images") = Stamp(copy[d], "images")
  BY <1>1, <1>3 DEF NOTE_FIELDS
<1> HIDE DEF m
<1>7. Kinds'
  BY <1>1, <1>3, <1>5, KindsKept DEF NoteInv, m
<1>8. AgedCopies'
  BY <1>2, AgedKept DEF NoteInv
<1>9. ValuesWritten' /\ WritesCovered'
  <2>1. \A g \in WholeFields \ {f} : Stamp(m, g) = Stamp(copy[d], g)
    BY <1>1 DEF NOTE_FIELDS
  <2>2. Written(m, {f}) \subseteq writes' /\ {f} \in SUBSET WholeFields
    BY DEF m
  <2>3. ValuesStep({copy[d]}, m)
    BY <1>1, <1>5, <2>1, <2>2, ValuesSet DEF NoteInv
  <2> QED
    BY <1>2, <2>3, ValuesKept DEF NoteInv
<1>10. OneBase' /\ PhrasesHeld'
  <2>1. BodyStep({copy[d]}, m)
    BY <1>1, <1>3, <1>5, <1>6, BodyUntouched
  <2> QED
    BY <1>2, <2>1, BodyKept DEF NoteInv
<1>11. ImagesHeld'
  BY <1>1, <1>2, <1>5, <1>6, ImagesLeftAlone DEF m
<1> QED
  BY <1>7, <1>8, <1>9, <1>10, <1>11 DEF NoteInv

LEMMA TypePhraseKeeps ==
    ASSUME NoteInv, NEW d \in Writers, NEW at \in Times, TypePhrase(d, at)
    PROVE  NoteInv'
<1> DEFINE m == copy'[d]
           item == [phrase |-> edits + 1, put |-> edits + 1]
<1>1. /\ Moves(d) /\ m \in Note /\ Aged(m)
      /\ m.value = copy[d].value /\ m.images = copy[d].images /\ m.buried = copy[d].buried
      /\ m.doc # NoDoc
      /\ m.doc.base = (IF copy[d].doc # NoDoc THEN copy[d].doc.base ELSE Stamp(copy[d], "body"))
      /\ m.doc.added = copy[d].doc.added \cup {item}
      /\ m.doc.removed = copy[d].doc.removed
      /\ \A g \in NOTE_FIELDS \ {"body"} : Stamp(m, g) = Stamp(copy[d], g)
  BY PhraseTyped DEF NoteInv
<1>2. Replaced({copy[d]}, m)
  BY <1>1, EditReplaces
<1>3. /\ writes \subseteq writes' /\ imageWrites' = imageWrites
      /\ \A w \in writes' \ writes : /\ w.field = "body" /\ w.stamp = Stamp(m, "body")
                                     /\ w.value = item.phrase
  BY DEF TypePhrase
<1>4. {"body", "images"} \subseteq NOTE_FIELDS /\ "body" \notin WholeFields
      /\ \A f \in WholeFields : f \in NOTE_FIELDS \ {"body"}
  BY DEF NOTE_FIELDS, WholeFields
<1> HIDE DEF m, item
<1>5. Kinds'
  BY <1>1, <1>3, <1>4, KindsKept DEF NoteInv, m
<1>6. AgedCopies'
  BY <1>2, AgedKept DEF NoteInv
<1>7. ValuesWritten' /\ WritesCovered'
  <2>1. ValuesStep({copy[d]}, m)
    BY <1>1, <1>3, <1>4, ValuesUntouched DEF NoteInv
  <2> QED
    BY <1>2, <2>1, ValuesKept DEF NoteInv
<1>8. OneBase' /\ PhrasesHeld'
  <2>1. BodyStep({copy[d]}, m)
    BY <1>1, <1>3, BodyTyped
  <2> QED
    BY <1>2, <2>1, BodyKept DEF NoteInv
<1>9. ImagesHeld'
  <2>1. Stamp(m, "images") = Stamp(copy[d], "images")
    BY <1>1, <1>4
  <2> QED
    BY <1>1, <1>2, <1>3, <2>1, ImagesLeftAlone DEF m
<1> QED
  BY <1>5, <1>6, <1>7, <1>8, <1>9 DEF NoteInv

\* n is the note c after an edit of its images that takes `gone' out of it, with
\* burials of time `when', and hides no other image.
ImageEdit(c, n, gone, when) ==
    /\ n \in Note
    /\ n.time = c.time /\ n.writer = c.writer /\ n.updatedAt = c.updatedAt
    /\ n.value = c.value /\ n.doc = c.doc
    /\ \A i \in Images \ gone : c.buried[i] = 0 =>
          n.buried[i] = 0 /\ (c.images[i] # NoImage => n.images[i] # NoImage)
    /\ \A i \in gone : n.images[i] = NoImage /\ n.buried[i] = when

LEMMA ImageEditKeeps ==
    ASSUME NoteInv, NEW d \in Writers, NEW at \in Times, NEW n, NEW gone, NEW when \in Nat,
           ImageEdit(copy[d], n, gone, when), gone # {} => when = at,
           WriteNote(d, at, {"images"}, n), writes' = writes,
           imageWrites' = imageWrites \cup {ImageWrite(copy'[d], gone, when)}
    PROVE  NoteInv'
<1>0. /\ n \in Note
      /\ n.time = copy[d].time /\ n.writer = copy[d].writer /\ n.updatedAt = copy[d].updatedAt
      /\ n.value = copy[d].value /\ n.doc = copy[d].doc
      /\ \A i \in Images \ gone : copy[d].buried[i] = 0 =>
            n.buried[i] = 0 /\ (copy[d].images[i] # NoImage => n.images[i] # NoImage)
      /\ \A i \in gone : n.images[i] = NoImage /\ n.buried[i] = when
  BY DEF ImageEdit
<1> DEFINE m == copy'[d]
           new == ImageWrite(m, gone, when)
<1>1. /\ Moves(d) /\ m \in Note /\ Aged(m)
      /\ m.value = copy[d].value /\ m.doc = copy[d].doc
      /\ m.images = n.images /\ m.buried = n.buried
      /\ \A g \in NOTE_FIELDS \ {"images"} : Stamp(m, g) = Stamp(copy[d], g)
      /\ FieldTime(m, "images") > FieldTime(copy[d], "images") /\ FieldTime(m, "images") >= at
      /\ m.writer["images"] = d
  BY <1>0, ImagesEdited DEF NoteInv
<1>2. Replaced({copy[d]}, m)
  BY <1>1, EditReplaces
<1>3. /\ new.stamp = Stamp(m, "images") /\ new.removed = gone /\ new.at = when
      /\ imageWrites' = imageWrites \cup {new}
  BY DEF ImageWrite
<1>4. "images" \notin WholeFields /\ \A f \in WholeFields \cup {"body"} : f \in NOTE_FIELDS \ {"images"}
  BY DEF NOTE_FIELDS, WholeFields
<1>5. gone # {} => when # 0
  BY TimesAssumption
<1> HIDE DEF m, new
<1>6. Kinds'
  BY <1>1, <1>3, <1>5, KindsKept DEF NoteInv, m
<1>7. AgedCopies'
  BY <1>2, AgedKept DEF NoteInv
<1>8. ValuesWritten' /\ WritesCovered'
  <2>1. ValuesStep({copy[d]}, m)
    BY <1>1, <1>4, ValuesUntouched DEF NoteInv
  <2> QED
    BY <1>2, <2>1, ValuesKept DEF NoteInv
<1>9. OneBase' /\ PhrasesHeld'
  <2>1. BodyStep({copy[d]}, m)
    BY <1>1, <1>4, BodyUntouched
  <2> QED
    BY <1>2, <2>1, BodyKept DEF NoteInv
<1>10. ImagesHeld'
  <2>1. ASSUME NoPush' PROVE ImageStamps' /\ OwnSeen' /\ ListedKept' /\ RemovalSeen'
    <3>1. ImageStamps /\ OwnSeen /\ ListedKept /\ RemovalSeen /\ Kinds
      BY <2>1, NoPushBefore DEF NoteInv, ImagesHeld
    <3>2. ImageTime(m) > ImageTime(copy[d])
      BY <1>1 DEF ImageTime
    <3>3. \A i \in gone : m.images[i] = NoImage /\ m.buried[i] >= when /\ ImageTime(m) >= when
      BY <1>0, <1>1 DEF ImageTime
    <3>4. \A i \in Images \ gone : copy[d].buried[i] = 0 =>
            m.buried[i] = 0 /\ (copy[d].images[i] # NoImage => m.images[i] # NoImage)
      BY <1>0, <1>1
    <3>5. imageWrites' = imageWrites \cup {ImageWrite(m, gone, when)} /\ m = copy'[d]
      BY <1>3 DEF new, m
    <3>6. ImagesKnown /\ TakenOut(copy[d], m, gone, when)
      BY <3>1, <3>3, <3>4 DEF ImagesKnown, TakenOut
    <3>7. ImagesKnown'
      BY <1>1, <1>2, <3>1, <3>2, <3>5, <3>6, ImagesKeptByEdit
    <3> QED
      BY <3>7 DEF ImagesKnown
  <2> QED
    BY <2>1 DEF ImagesHeld
<1> QED
  BY <1>6, <1>7, <1>8, <1>9, <1>10 DEF NoteInv

LEMMA PutImageKeeps ==
    ASSUME NoteInv, NEW d \in Writers, NEW at \in Times, NEW i \in Images, PutImage(d, at, i)
    PROVE  NoteInv'
<1> DEFINE c == copy[d]
           x == [time |-> 0, content |-> 0]
           n == [c EXCEPT !.images[i] = x, !.buried[i] = 0]
           gone == {}
           when == 0
<1>1. c \in Note /\ x \in Image /\ 0 \in Nat /\ x # NoImage
  BY DEF NoteInv, Kinds, Image, NoImage
<1>2. WriteNote(d, at, {"images"}, n) /\ writes' = writes
      /\ imageWrites' = imageWrites \cup {ImageWrite(copy'[d], gone, when)}
  BY DEF PutImage
<1> HIDE DEF x, c, n
<1>3. /\ n \in Note /\ n.value = c.value
      /\ n.time = c.time /\ n.writer = c.writer /\ n.updatedAt = c.updatedAt /\ n.doc = c.doc
      /\ n.images = [c.images EXCEPT ![i] = x] /\ n.buried = [c.buried EXCEPT ![i] = 0]
  <2>1. /\ [c.images EXCEPT ![i] = x] \in [Images -> Image]
        /\ [c.buried EXCEPT ![i] = 0] \in [Images -> Nat]
    BY <1>1 DEF Note
  <2> QED
    BY <1>1, <2>1 DEF Note, n
<1>4. \A j \in Images : c.buried[j] = 0 =>
            n.buried[j] = 0 /\ (c.images[j] # NoImage => n.images[j] # NoImage)
  BY <1>1, <1>3 DEF Note
<1>5. ImageEdit(copy[d], n, gone, when)
  BY <1>3, <1>4 DEF c, ImageEdit
<1>6. when \in Nat /\ (gone # {} => when = at)
  OBVIOUS
<1> HIDE DEF n, gone, when
<1> QED
  BY <1>2, <1>5, <1>6, ImageEditKeeps

LEMMA RemoveImageKeeps ==
    ASSUME NoteInv, NEW d \in Writers, NEW at \in Times, NEW i \in Images, RemoveImage(d, at, i)
    PROVE  NoteInv'
<1> DEFINE c == copy[d]
           n == [c EXCEPT !.images[i] = NoImage, !.buried[i] = at]
           gone == {i}
<1>1. c \in Note /\ NoImage \in Image /\ at \in Nat
  BY TimesAssumption, NoDocType DEF NoteInv, Kinds
<1>2. WriteNote(d, at, {"images"}, n) /\ writes' = writes
      /\ imageWrites' = imageWrites \cup {ImageWrite(copy'[d], gone, at)}
  BY DEF RemoveImage
<1> HIDE DEF c, n
<1>3. /\ n \in Note /\ n.value = c.value
      /\ n.time = c.time /\ n.writer = c.writer /\ n.updatedAt = c.updatedAt /\ n.doc = c.doc
      /\ n.images = [c.images EXCEPT ![i] = NoImage] /\ n.buried = [c.buried EXCEPT ![i] = at]
  <2>1. /\ [c.images EXCEPT ![i] = NoImage] \in [Images -> Image]
        /\ [c.buried EXCEPT ![i] = at] \in [Images -> Nat]
    BY <1>1 DEF Note
  <2> QED
    BY <1>1, <2>1 DEF Note, n
<1>4. /\ n.images[i] = NoImage /\ n.buried[i] = at
      /\ \A j \in Images \ {i} : n.buried[j] = c.buried[j] /\ n.images[j] = c.images[j]
  BY <1>1, <1>3 DEF Note
<1>5. ImageEdit(copy[d], n, gone, at)
  BY <1>3, <1>4 DEF c, ImageEdit
<1>6. at \in Nat /\ (gone # {} => at = at)
  BY <1>1
<1> HIDE DEF n, gone
<1> QED
  BY <1>2, <1>5, <1>6, ImageEditKeeps

LEMMA CropImageKeeps ==
    ASSUME NoteInv, NEW d \in Writers, NEW at \in Times, NEW i \in Images, CropImage(d, at, i)
    PROVE  NoteInv'
<1> DEFINE c == copy[d]
           x == [time |-> at, content |-> edits + 1]
           n == [c EXCEPT !.images[i] = x]
           gone == {}
           when == 0
<1>1. c \in Note /\ at \in Nat \ {0} /\ edits \in Nat
  BY TimesAssumption DEF NoteInv, Kinds
<1>2. x \in Image /\ x # NoImage
  BY <1>1 DEF Image, NoImage
<1>3. WriteNote(d, at, {"images"}, n) /\ writes' = writes
      /\ imageWrites' = imageWrites \cup {ImageWrite(copy'[d], gone, when)}
  BY DEF CropImage
<1> HIDE DEF x, c, n
<1>4. /\ n \in Note /\ n.value = c.value
      /\ n.time = c.time /\ n.writer = c.writer /\ n.updatedAt = c.updatedAt /\ n.doc = c.doc
      /\ n.images = [c.images EXCEPT ![i] = x] /\ n.buried = c.buried
  <2>1. [c.images EXCEPT ![i] = x] \in [Images -> Image]
    BY <1>1, <1>2 DEF Note
  <2> QED
    BY <1>1, <1>2, <2>1 DEF Note, n
<1>5. \A j \in Images : c.buried[j] = 0 =>
            n.buried[j] = 0 /\ (c.images[j] # NoImage => n.images[j] # NoImage)
  BY <1>1, <1>2, <1>4 DEF Note
<1>6. when \in Nat /\ (gone # {} => when = at)
  OBVIOUS
<1>7. ImageEdit(copy[d], n, gone, when)
  BY <1>4, <1>5 DEF c, ImageEdit
<1> HIDE DEF gone, when
<1> QED
  BY <1>3, <1>6, <1>7, ImageEditKeeps

\* A replacement of the cloud's copy writes all fields; of the text and the
\* images nothing is promised after it.
LEMMA ForcePushKeeps ==
    ASSUME NoteInv, NEW d \in Writers, NEW now \in Times, ForcePush(d, now)
    PROVE  NoteInv'
<1> DEFINE m == copy'[d]
           at == Max({now, LargestTime(copy[d]) + 1, LargestTime(live) + 1})
           push == [field |-> "push", stamp |-> Stamp(m, "body"), value |-> 0]
           new == ImageWrite(m, Listed(live) \ Listed(copy[d]), at)
<1>1. /\ Moves(d) /\ m \in Note /\ Aged(m)
      /\ \A f \in NOTE_FIELDS : Later(Stamp(m, f), Stamp(copy[d], f))
      /\ imageWrites' = imageWrites \cup {new} /\ at \in Nat \ {0}
  BY PushMakes DEF NoteInv
<1>2. Replaced({copy[d]}, m)
  BY <1>1, EditReplaces
<1>3. writes' = writes \cup Written(m, WholeFields) \cup {push}
  BY DEF ForcePush
<1>4. push.field = "push" /\ push.stamp = Stamp(m, "body") /\ "push" \notin WholeFields
      /\ "body" \in NOTE_FIELDS /\ WholeFields \subseteq NOTE_FIELDS
  BY DEF WholeFields, NOTE_FIELDS
<1>5. new.stamp = Stamp(m, "images") /\ new.at = at
  BY DEF ImageWrite
<1>6. \A w \in Written(m, WholeFields) : w.field \in WholeFields /\ w.stamp = Stamp(m, w.field)
  BY DEF Written
<1> HIDE DEF m, at, push, new
<1>7. Kinds'
  <2>1. \A w \in writes' \ writes : \E f \in NOTE_FIELDS : w.stamp = Stamp(m, f)
    BY <1>3, <1>4, <1>6
  <2>2. \A w \in imageWrites' \ imageWrites : /\ w.stamp = Stamp(m, "images") /\ w.at \in Nat
                                              /\ w.removed # {} => w.at # 0
    BY <1>1, <1>5
  <2> QED
    BY <1>1, <2>1, <2>2, KindsKept DEF NoteInv, m
<1>8. AgedCopies'
  BY <1>2, AgedKept DEF NoteInv
<1>9. ValuesWritten' /\ WritesCovered'
  <2>1. \A w \in writes' \ writes : w.field \in WholeFields => w \in Written(m, WholeFields)
    BY <1>3, <1>4
  <2>2. Written(m, WholeFields) \subseteq writes' /\ writes \subseteq writes'
    BY <1>3
  <2>3. \A f \in WholeFields : Later(Stamp(m, f), Stamp(copy[d], f))
    BY <1>1, <1>4
  <2>4. WholeFields \in SUBSET WholeFields /\ WholeFields \ WholeFields = {}
    OBVIOUS
  <2>5. ValuesStep({copy[d]}, m)
    BY <1>1, <2>1, <2>2, <2>3, <2>4, ValuesSet DEF NoteInv
  <2> QED
    BY <1>2, <2>5, ValuesKept DEF NoteInv
<1>10. ~NoPush'
  BY <1>3, <1>4 DEF NoPush
<1> QED
  BY <1>7, <1>8, <1>9, <1>10 DEF NoteInv, OneBase, PhrasesHeld, ImagesHeld

LEMMA SyncKeeps ==
    ASSUME NoteInv, NEW d \in Writers, Sync(d)
    PROVE  NoteInv'
<1> DEFINE m == copy'[d]
           l == copy[d]
           r == live
<1>1. /\ m = MergeTwoNotes(l, r) /\ l \in Note /\ r \in Note /\ Aged(l) /\ Aged(r)
      /\ Replaced({l, r}, m)
      /\ \A e \in Writers \ {d} : copy'[e] = copy[e]
      /\ live' \in Note /\ copy' \in [Writers -> Note]
  BY SyncReplaces DEF NoteInv
<1>2. writes' = writes /\ imageWrites' = imageWrites /\ edits' = edits
  BY DEF Sync
<1>3. l \in Copies /\ r \in Copies
  BY DEF Copies
<1>4. NoteInv
  OBVIOUS
<1> HIDE DEF m, l
<1>5. Kinds'
  BY <1>1, <1>2, <1>4 DEF NoteInv, Kinds
<1>6. AgedCopies'
  BY <1>1, <1>4, AgedKept DEF NoteInv
<1>7. ValuesWritten' /\ WritesCovered'
  <2>1. ValuesStep({l, r}, m)
    BY <1>1, <1>2, <1>3, <1>4, ValuesSynced DEF NoteInv
  <2> QED
    BY <1>1, <1>4, <2>1, ValuesKept DEF NoteInv
<1>8. OneBase' /\ PhrasesHeld'
  <2>1. BodyStep({l, r}, m)
    BY <1>1, <1>2, BodySynced
  <2> QED
    BY <1>1, <1>4, <2>1, BodyKept DEF NoteInv
<1>9. ImagesHeld'
  <2>1. ASSUME NoPush' PROVE ImageStamps' /\ OwnSeen' /\ ListedKept' /\ RemovalSeen'
    <3>1. ImageStamps /\ OwnSeen /\ ListedKept /\ RemovalSeen /\ Kinds
      BY <1>2, <1>4, <2>1, NoPushBefore DEF NoteInv, ImagesHeld
    <3>2. ImagesStep({l, r}, m)
      BY <1>1, <3>1, ImagesSynced
    <3>3. ImageStamps' /\ ListedKept' /\ RemovalSeen'
      BY <1>1, <1>2, <3>1, <3>2, ImagesKeptOn
    <3>4. \A e \in Writers : ImageTime(copy'[e]) >= ImageTime(copy[e])
      <4>1. "images" \in NOTE_FIELDS
        BY DEF NOTE_FIELDS
      <4>2. /\ FieldTime(Picked(l, r, "images"), "images") >= FieldTime(l, "images")
            /\ Picked(l, r, "images") \in Note
        BY <1>1, <4>1, PickedIs
      <4>3. m \in Note
        BY <1>1 DEF Replaced
      <4>4. Stamp(m, "images") = Stamp(Picked(l, r, "images"), "images")
        BY <1>1, <4>1, MergedStamps
      <4>5. FieldTime(m, "images") = FieldTime(Picked(l, r, "images"), "images")
        BY <4>1, <4>2, <4>3, <4>4, StampParts
      <4>6. ImageTime(copy'[d]) >= ImageTime(copy[d])
        BY <4>2, <4>5 DEF ImageTime, m, l
      <4>7. \A e \in Writers : ImageTime(copy[e]) \in Nat
        BY <3>1, StampOf DEF ImageTime, NOTE_FIELDS, Kinds
      <4> QED
        BY <1>1, <4>6, <4>7
    <3>5. OwnSeen'
      BY <1>1, <1>2, <3>1, <3>4, OwnSeenKept
    <3> QED
      BY <3>3, <3>5
  <2> QED
    BY <2>1 DEF ImagesHeld
<1> QED
  BY <1>5, <1>6, <1>7, <1>8, <1>9 DEF NoteInv

LEMMA InitHolds ==
    ASSUME NoteInit
    PROVE  NoteInv
<1>1. PICK stamped \in BOOLEAN : live = FirstCopy(stamped)
  BY DEF NoteInit
<1>2. /\ live \in Note /\ live.doc = NoDoc /\ \A i \in Images : live.buried[i] = 0
      /\ \A f \in NOTE_FIELDS : /\ live.time[f] <= live.updatedAt
                                /\ live.time[f] = Unstamped =>
                                        live.updatedAt = 1 /\ live.writer[f] = NoWriter
      /\ Stamp(live, "body").time # 0
  BY <1>1, FirstCopyIs
<1>3. /\ copy = [d \in Writers |-> live] /\ edits = 0
      /\ writes = Written(live, WholeFields) /\ imageWrites = {ImageWrite(live, {}, 0)}
  BY DEF NoteInit
<1>4. Copies = {live}
  BY <1>3 DEF Copies
<1>5. /\ \A w \in writes : w.field \in WholeFields /\ w.stamp = Stamp(live, w.field)
      /\ \A f \in WholeFields :
            \E w \in writes : w.field = f /\ w.value = live.value[f] /\ w.stamp = Stamp(live, f)
  <2>1. \A w \in writes : w.field \in WholeFields /\ w.stamp = Stamp(live, w.field)
    BY <1>3 DEF Written
  <2>2. ASSUME NEW f \in WholeFields
        PROVE  \E w \in writes : w.field = f /\ w.value = live.value[f] /\ w.stamp = Stamp(live, f)
    <3> DEFINE w == [field |-> f, stamp |-> Stamp(live, f), value |-> live.value[f]]
    <3>1. w \in writes
      BY <1>3 DEF Written
    <3> QED
      BY <3>1
  <2> QED
    BY <2>1, <2>2
<1>6. \A w \in imageWrites : /\ w.stamp = Stamp(live, "images") /\ w.listed = Listed(live)
                             /\ w.removed = {} /\ w.at = 0
  BY <1>3 DEF ImageWrite
<1>7. \A f \in NOTE_FIELDS : Stamp(live, f) \in StampType /\ Stamp(live, f).time = FieldTime(live, f)
                             /\ FieldTime(live, f) \in Nat
  BY <1>2, StampOf
<1>8. {"body", "images"} \subseteq NOTE_FIELDS /\ WholeFields \subseteq NOTE_FIELDS
      /\ "body" \notin WholeFields
  BY DEF NOTE_FIELDS, WholeFields
<1>9. Kinds
  <2>1. \A w \in writes : w.stamp \in StampType
    BY <1>5, <1>7, <1>8
  <2>2. \A w \in imageWrites : /\ w.stamp \in StampType /\ w.at \in Nat
                               /\ w.removed # {} => w.at # 0
    BY <1>6, <1>7, <1>8
  <2> QED
    BY <1>2, <1>3, <2>1, <2>2 DEF Kinds
<1>10. AgedCopies
  BY <1>2, <1>4 DEF AgedCopies, Aged
<1>11. ValuesWritten
  BY <1>4, <1>5 DEF ValuesWritten
<1>12. WritesCovered
  <2>1. \A w \in writes : ~Later(w.stamp, Stamp(live, w.field))
    BY <1>5, <1>7, <1>8, StampsInOrder
  <2> QED
    BY <1>4, <2>1 DEF WritesCovered
<1>13. OneBase /\ PhrasesHeld
  <2>1. Based(live, Stamp(live, "body"))
    BY <1>2 DEF Based, NoDoc
  <2> QED
    BY <1>2, <1>4, <1>5, <1>7, <1>8, <2>1 DEF OneBase, PhrasesHeld
<1>14. ImageStamps
  BY <1>3, <1>4, <1>6 DEF ImageStamps
<1>15. OwnSeen
  <2>1. \A w \in imageWrites : w.stamp.time = ImageTime(live) /\ ImageTime(live) \in Nat
    BY <1>6, <1>7, <1>8 DEF ImageTime
  <2>2. \A d \in Writers : copy[d] = live
    BY <1>3
  <2> QED
    BY <2>1, <2>2 DEF OwnSeen
<1>16. ListedKept
  BY <1>2, <1>4, <1>6 DEF ListedKept, Listed
<1>17. RemovalSeen
  BY <1>6 DEF RemovalSeen
<1> QED
  BY <1>9, <1>10, <1>11, <1>12, <1>13, <1>14, <1>15, <1>16, <1>17 DEF NoteInv, ImagesHeld

LEMMA StepKeeps ==
    ASSUME NoteInv, NoteNext
    PROVE  NoteInv'
<1>1. PICK d \in Writers :
        \/ Sync(d)
        \/ \E at \in Times :
            \/ EditTitle(d, at) \/ ToggleSecret(d, at) \/ TypePhrase(d, at) \/ ForcePush(d, at)
            \/ \E i \in Images : PutImage(d, at, i) \/ RemoveImage(d, at, i) \/ CropImage(d, at, i)
  BY DEF NoteNext
<1>2. CASE Sync(d)
  BY <1>2, SyncKeeps
<1>3. ASSUME NEW at \in Times, EditTitle(d, at) PROVE NoteInv'
  <2> DEFINE x == edits + 1
  <2>1. "title" \in WholeFields /\ x \in Int
    BY DEF WholeFields, NoteInv, Kinds
  <2>2. /\ WriteNote(d, at, {"title"}, [copy[d] EXCEPT !.value["title"] = x])
        /\ writes' = writes \cup Written(copy'[d], {"title"}) /\ imageWrites' = imageWrites
    BY <1>3 DEF EditTitle
  <2> HIDE DEF x
  <2> QED
    BY <2>1, <2>2, WholeFieldKeeps
<1>4. ASSUME NEW at \in Times, ToggleSecret(d, at) PROVE NoteInv'
  <2> DEFINE x == 1 - copy[d].value["secret"]
  <2>1. "secret" \in WholeFields /\ x \in Int
    BY DEF WholeFields, NoteInv, Kinds, Note
  <2>2. /\ WriteNote(d, at, {"secret"}, [copy[d] EXCEPT !.value["secret"] = x])
        /\ writes' = writes \cup Written(copy'[d], {"secret"}) /\ imageWrites' = imageWrites
    BY <1>4 DEF ToggleSecret
  <2> HIDE DEF x
  <2> QED
    BY <2>1, <2>2, WholeFieldKeeps
<1>5. ASSUME NEW at \in Times, TypePhrase(d, at) PROVE NoteInv'
  BY <1>5, TypePhraseKeeps
<1>6. ASSUME NEW at \in Times, ForcePush(d, at) PROVE NoteInv'
  BY <1>6, ForcePushKeeps
<1>7. ASSUME NEW at \in Times, NEW i \in Images, PutImage(d, at, i) PROVE NoteInv'
  BY <1>7, PutImageKeeps
<1>8. ASSUME NEW at \in Times, NEW i \in Images, RemoveImage(d, at, i) PROVE NoteInv'
  BY <1>8, RemoveImageKeeps
<1>9. ASSUME NEW at \in Times, NEW i \in Images, CropImage(d, at, i) PROVE NoteInv'
  BY <1>9, CropImageKeeps
<1> QED
  BY <1>1, <1>2, <1>3, <1>4, <1>5, <1>6, <1>7, <1>8, <1>9

LEMMA NoStepKeeps ==
    ASSUME NoteInv, UNCHANGED noteVars
    PROVE  NoteInv'
<1>1. /\ copy' = copy /\ live' = live /\ edits' = edits
      /\ writes' = writes /\ imageWrites' = imageWrites
  BY DEF noteVars
<1>2. Copies' = Copies
  BY <1>1 DEF Copies
<1>3. Kinds'
  BY <1>1 DEF NoteInv, Kinds
<1>4. AgedCopies' /\ ValuesWritten' /\ WritesCovered'
  BY <1>1, <1>2 DEF NoteInv, AgedCopies, ValuesWritten, WritesCovered
<1>5. NoPush' <=> NoPush
  BY <1>1 DEF NoPush
<1>6. OneBase' /\ PhrasesHeld'
  BY <1>1, <1>2, <1>5 DEF NoteInv, OneBase, PhrasesHeld
<1>7. (ImageStamps => ImageStamps') /\ (ListedKept => ListedKept')
  BY <1>1, <1>2 DEF ImageStamps, ListedKept
<1>8. OwnSeen => OwnSeen'
  BY <1>1 DEF OwnSeen, ImageTime
<1>9. RemovalSeen => RemovalSeen'
  BY <1>1, <1>2 DEF RemovalSeen, Saw, ImageTime
<1> QED
  BY <1>3, <1>4, <1>5, <1>6, <1>7, <1>8, <1>9 DEF NoteInv, ImagesHeld

LEMMA NoteInvHolds == NoteSpec => []NoteInv
<1>1. NoteInit => NoteInv
  BY InitHolds
<1>2. NoteInv /\ [NoteNext]_noteVars => NoteInv'
  BY StepKeeps, NoStepKeeps
<1> QED
  BY <1>1, <1>2, PTL DEF NoteSpec

-----------------------------------------------------------------------------
(* What follows.                                                            *)

\* Any two copies that ever are there at once merge into the same note on
\* either device, and merging again changes nothing (mergeTwoNotes): devices
\* do not go on uploading each other's results.
THEOREM MergingSettles == NoteSpec => []MergesAgree
<1>1. ASSUME NoteInv PROVE MergesAgree
  <2>1. \A c \in Copies : c \in Note
    BY <1>1, CopiesAreNotes DEF NoteInv
  <2>2. ASSUME NEW m \in Copies, NEW n \in Copies
        PROVE  /\ MergeTwoNotes(m, n) = MergeTwoNotes(n, m)
               /\ MergeTwoNotes(m, n) = MergeTwoNotes(MergeTwoNotes(m, n), n)
    BY <2>1, MergeEitherWay, MergeAgain
  <2> QED
    BY <2>2 DEF MergesAgree
<1> QED
  BY <1>1, NoteInvHolds, PTL

\* When all devices hold one copy, each value is the last that was written,
\* every phrase typed is in the text, an image that nobody removed is there
\* and one that was removed after all other edits of the images is not (the
\* last three unless a device replaced the cloud's copy).
THEOREM EditsSurvive == NoteSpec => []NothingMergedAway
<1>1. ASSUME NoteInv, Quiet PROVE LastWriteWins
  <2>1. Copies = {live}
    BY <1>1 DEF Quiet, Copies
  <2>2. ASSUME NEW f \in WholeFields
        PROVE  \E w \in writes :
                 /\ w.field = f /\ w.value = live.value[f] /\ w.stamp.time = FieldTime(live, f)
                 /\ \A v \in writes : v.field = f => ~Later(v.stamp, w.stamp)
    <3>1. PICK w \in writes : /\ w.field = f /\ w.value = live.value[f]
                              /\ w.stamp = Stamp(live, f)
      BY <1>1, <2>1 DEF NoteInv, ValuesWritten
    <3>2. \A v \in writes : v.field = f => ~Later(v.stamp, Stamp(live, f))
      BY <1>1, <2>1 DEF NoteInv, WritesCovered
    <3>3. w.stamp.time = FieldTime(live, f)
      BY <3>1 DEF Stamp
    <3> QED
      BY <3>1, <3>2, <3>3
  <2> QED
    BY <2>2 DEF LastWriteWins
<1>2. ASSUME NoteInv, Quiet, NoPush PROVE PhrasesKept /\ ImagesKept
  <2>1. Copies = {live}
    BY <1>2 DEF Quiet, Copies
  <2>2. PhrasesKept
    <3>1. live.doc.removed = {}
      BY <1>2, <2>1 DEF NoteInv, OneBase, Based
    <3>2. \A w \in writes : w.field = "body" => \E x \in live.doc.added : x.phrase = w.value
      BY <1>2, <2>1 DEF NoteInv, PhrasesHeld
    <3> QED
      BY <3>1, <3>2 DEF PhrasesKept, Text
  <2>3. ListedKept /\ RemovalSeen
    BY <1>2 DEF NoteInv, ImagesHeld
  <2>4. ImagesKept
    BY <2>1, <2>3 DEF ImagesKept, ListedKept, RemovalSeen, Saw
  <2> QED
    BY <2>2, <2>4
<1>3. NoteInv => NothingMergedAway
  BY <1>1, <1>2 DEF NothingMergedAway, NoPush
<1> QED
  BY <1>3, NoteInvHolds, PTL

===============================================================================
