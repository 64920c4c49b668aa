-------------------------------- MODULE NoteMerge --------------------------------
(***************************************************************************)
(* The copies of one note: what an edit stamps (model/edit.ts), how two    *)
(* copies become one (model/merge.ts, bodyDoc.ts), and the replacement of  *)
(* the cloud's copy by a device's (syncForcePush.ts).  SyncDevices moves   *)
(* copies about and takes merging for a union; this module is about what   *)
(* the union is of.                                                        *)
(*                                                                         *)
(* A note has a title and a secret flag, which stand for the fields that   *)
(* are written as a whole, a body, and images.  A Yjs text is the items    *)
(* put into it and the items taken out; that merging two texts on one base *)
(* unites both sets is the library's promise.                              *)
(***************************************************************************)
EXTENDS Integers, FiniteSets, FiniteSetsExt

CONSTANTS
    Writers,        \* the devices, as numbers: their ids are compared
    Images,
    FirstImages,    \* the images the note has to begin with
    Times,          \* what a device's clock may show
    ClocksAgree,    \* whether it is past every time the device's copy holds
    Parts,          \* which parts of the note a behaviour is about
    MaxEdits        \* bound: edits and replacements

ASSUME WritersAssumption == Writers \subseteq Nat \ {0} /\ Writers # {}
ASSUME TimesAssumption == Times \subseteq Nat \ {0} /\ ClocksAgree \in BOOLEAN
ASSUME ImagesAssumption == FirstImages \subseteq Images
ASSUME PartsAssumption == Parts \subseteq SUBSET {"title", "secret", "body", "images", "push"}

VARIABLES
    copy,           \* each device's copy of the note
    live,           \* the copy in the relay's live version
    edits,          \* edits made so far
    part,           \* the parts this behaviour edits
    writes,         \* what was written to each field, with its stamp (of no effect),
    imageWrites,    \* what each edit of the images listed and removed (of no effect),
    unsynced,       \* devices that have not synced since their last edit (of no effect)
    pushed          \* what a replacement promised, if nothing came after (of no effect)

noteVars == <<copy, live, edits, part, writes, imageWrites, unsynced, pushed>>

-----------------------------------------------------------------------------
(* Stamps.                                                                 *)

WholeFields == {"title", "secret"}
NOTE_FIELDS == WholeFields \cup {"body", "images"}

NoWriter == 0
Unstamped == 0
NoDoc == [base |-> [time |-> 0, writer |-> NoWriter], added |-> {}, removed |-> {}]
NoImage == [time |-> 0, content |-> -1]

\* A field without a time of its own is as old as the note.
FieldTime(n, f) == IF n.time[f] # Unstamped THEN n.time[f] ELSE n.updatedAt

Stamp(n, f) == [time |-> FieldTime(n, f), writer |-> n.writer[f]]

\* Mutant of Later: equal times are left to the values, whoever wrote them.
LaterTime(a, b) == a.time > b.time

Later(a, b) == a.time > b.time \/ (a.time = b.time /\ a.writer > b.writer)

\* One of two values, whichever of them is asked about first.
Either(x, y) == CHOOSE z \in {x, y} : TRUE

\* Equal stamps leave it to the value.
FirstIsLatest(a, b, x, y) == Later(a, b) \/ (~Later(b, a) /\ Either(x, y) = x)

LargestTime(n) == Max({ n.time[f] : f \in NOTE_FIELDS } \cup {n.updatedAt})

\* Mutant of TouchNoteFields: only what is edited gets a time.
TouchNothingElse(n, fields, d, at) ==
    LET stamped ==
          [n EXCEPT !.time = [f \in NOTE_FIELDS |->
                        IF f \in fields THEN Max({at, FieldTime(n, f) + 1}) ELSE n.time[f]],
                    !.writer = [f \in NOTE_FIELDS |-> IF f \in fields THEN d ELSE n.writer[f]]] IN
    [stamped EXCEPT !.updatedAt = LargestTime(stamped)]

\* An edit is later than what it replaces; every other field keeps its time.
TouchNoteFields(n, fields, d, at) ==
    LET stamped ==
          [n EXCEPT !.time = [f \in NOTE_FIELDS |->
                        IF f \in fields THEN Max({at, FieldTime(n, f) + 1}) ELSE FieldTime(n, f)],
                    !.writer = [f \in NOTE_FIELDS |-> IF f \in fields THEN d ELSE n.writer[f]]] IN
    [stamped EXCEPT !.updatedAt = LargestTime(stamped)]

-----------------------------------------------------------------------------
(* Merging.                                                                *)

Text(n) == { item.phrase : item \in n.doc.added \ n.doc.removed }

\* A plain text becomes a document on a base named by its write.
Loaded(n) == IF n.doc # NoDoc THEN n.doc ELSE [NoDoc EXCEPT !.base = Stamp(n, "body")]

\* Across bases the body's write decides, and the snapshots' if both are one write.
LeftBodyWins(l, r) ==
    LET a == Stamp(l, "body")
        b == Stamp(r, "body") IN
    IF a = b /\ Text(l) = Text(r) THEN Later(l.doc.base, r.doc.base)
    ELSE FirstIsLatest(a, b, Text(l), Text(r))

\* A newer plain text starts a new base, unless the document has a later one.
OverPlain(documented, plain) ==
    LET a == Stamp(documented, "body")
        b == Stamp(plain, "body") IN
    IF a = b \/ FirstIsLatest(a, b, Text(documented), Text(plain)) \/ ~Later(b, documented.doc.base)
    THEN documented.doc
    ELSE [NoDoc EXCEPT !.base = b]

MergedDoc(l, r) ==
    IF l.doc = NoDoc /\ r.doc = NoDoc THEN NoDoc
    ELSE IF l.doc = NoDoc THEN OverPlain(r, l)
    ELSE IF r.doc = NoDoc THEN OverPlain(l, r)
    ELSE IF l.doc.base # r.doc.base THEN IF LeftBodyWins(l, r) THEN l.doc ELSE r.doc
    ELSE [l.doc EXCEPT !.added = @ \cup r.doc.added, !.removed = @ \cup r.doc.removed]

Buried(l, r, i) == Max({l.buried[i], r.buried[i]})

Restores(n, i, buriedAt) == n.images[i] # NoImage /\ FieldTime(n, "images") > buriedAt

\* An image stays unless it was buried after each copy that has it was last edited.
KeptImages(l, r) ==
    { i \in Images :
        /\ l.images[i] # NoImage \/ r.images[i] # NoImage
        /\ LET buriedAt == Buried(l, r, i) IN
           buriedAt = 0 \/ Restores(l, i, buriedAt) \/ Restores(r, i, buriedAt) }

\* Of two contents of one image the later edit's.
PickImage(x, y) ==
    IF x.time # y.time THEN IF x.time > y.time THEN x ELSE y
    ELSE IF x = NoImage THEN y ELSE IF y = NoImage THEN x ELSE Either(x, y)

\* What a field says: the body's text, the list of images, a value.
FieldOf(n, f) ==
    IF f = "body" THEN Text(n) ELSE IF f = "images" THEN n.images ELSE n.value[f]

\* The copy a field is taken from, with its stamp.
Picked(l, r, f) ==
    IF FirstIsLatest(Stamp(l, f), Stamp(r, f), FieldOf(l, f), FieldOf(r, f)) THEN l ELSE r

\* A flag that neither copy ever set stays without a stamp.
NeverSecret(l, r) ==
    \A n \in {l, r} : n.time["secret"] = Unstamped /\ n.value["secret"] = 0

MergeTwoNotes(l, r) ==
    LET stamped(f) == f # "secret" \/ ~NeverSecret(l, r)
        kept == KeptImages(l, r)
        merged ==
          [ value |-> [f \in WholeFields |-> Picked(l, r, f).value[f]],
            time |-> [f \in NOTE_FIELDS |->
                        IF stamped(f) THEN FieldTime(Picked(l, r, f), f) ELSE Unstamped],
            writer |-> [f \in NOTE_FIELDS |->
                        IF stamped(f) THEN Picked(l, r, f).writer[f] ELSE NoWriter],
            updatedAt |-> Max({l.updatedAt, r.updatedAt}),
            doc |-> MergedDoc(l, r),
            images |-> [i \in Images |->
                        IF i \in kept THEN PickImage(l.images[i], r.images[i]) ELSE NoImage],
            buried |-> [i \in Images |-> IF i \in kept THEN 0 ELSE Buried(l, r, i)] ] IN
    [merged EXCEPT !.updatedAt = LargestTime(merged)]

-----------------------------------------------------------------------------
(* A user's edits.                                                         *)

\* Writers agree on the time where none edits behind what it has.
MayWriteAt(n, at) == ClocksAgree => at > LargestTime(n)

\* What applyNoteEdit does around each kind of edit.
WriteNote(d, at, fields, next) ==
    /\ edits < MaxEdits /\ MayWriteAt(copy[d], at)
    /\ edits' = edits + 1
    /\ copy' = [copy EXCEPT ![d] = TouchNoteFields(next, fields, d, at)]
    /\ unsynced' = unsynced \cup {d}
    /\ pushed' = {}
    /\ UNCHANGED <<live, part>>

Written(n, fields) ==
    { [field |-> f, stamp |-> Stamp(n, f), value |-> n.value[f]] : f \in fields }

Listed(n) == { i \in Images : n.images[i] # NoImage }

ImageWrite(n, removed, at) ==
    [stamp |-> Stamp(n, "images"), listed |-> Listed(n), removed |-> removed, at |-> at]

EditTitle(d, at) ==
    /\ "title" \in part
    /\ WriteNote(d, at, {"title"}, [copy[d] EXCEPT !.value["title"] = edits + 1])
    /\ writes' = writes \cup Written(copy'[d], {"title"})
    /\ UNCHANGED imageWrites

ToggleSecret(d, at) ==
    /\ "secret" \in part
    /\ WriteNote(d, at, {"secret"}, [copy[d] EXCEPT !.value["secret"] = 1 - @])
    /\ writes' = writes \cup Written(copy'[d], {"secret"})
    /\ UNCHANGED imageWrites

\* BodyAuthor.edit: a phrase is put in, on the base the text already has.
TypePhrase(d, at) ==
    /\ "body" \in part
    /\ LET phrase == edits + 1 IN
       WriteNote(d, at, {"body"},
             [copy[d] EXCEPT !.doc =
                [Loaded(copy[d]) EXCEPT !.added = @ \cup {[phrase |-> phrase, put |-> phrase]}]])
    /\ writes' = writes \cup
            {[field |-> "body", stamp |-> Stamp(copy'[d], "body"), value |-> edits + 1]}
    /\ UNCHANGED imageWrites

\* Adding an image, or undoing its removal.
PutImage(d, at, i) ==
    /\ "images" \in part /\ copy[d].images[i] = NoImage
    /\ WriteNote(d, at, {"images"},
             [copy[d] EXCEPT !.images[i] = [time |-> 0, content |-> 0], !.buried[i] = 0])
    /\ imageWrites' = imageWrites \cup {ImageWrite(copy'[d], {}, 0)}
    /\ UNCHANGED writes

\* A removed image is remembered with the time on the device's clock.
RemoveImage(d, at, i) ==
    /\ "images" \in part /\ copy[d].images[i] # NoImage
    /\ WriteNote(d, at, {"images"}, [copy[d] EXCEPT !.images[i] = NoImage, !.buried[i] = at])
    /\ imageWrites' = imageWrites \cup {ImageWrite(copy'[d], {i}, at)}
    /\ UNCHANGED writes

\* So is the time of a change to an image's content.
CropImage(d, at, i) ==
    /\ "images" \in part /\ copy[d].images[i] # NoImage
    /\ WriteNote(d, at, {"images"},
             [copy[d] EXCEPT !.images[i] = [time |-> at, content |-> edits + 1]])
    /\ imageWrites' = imageWrites \cup {ImageWrite(copy'[d], {}, 0)}
    /\ UNCHANGED writes

-----------------------------------------------------------------------------
(* Replacing the cloud's copy by a device's.                               *)

\* The merged text is edited until it reads as the local one.
TextOver(local, cloud, put) ==
    LET merged == MergeTwoNotes(local, cloud).doc
        shown == merged.added \ merged.removed IN
    IF local.doc = NoDoc /\ cloud.doc = NoDoc THEN NoDoc
    ELSE [merged EXCEPT
            !.removed = @ \cup { item \in shown : item.phrase \notin Text(local) },
            !.added = @ \cup { [phrase |-> p, put |-> put] :
                            p \in Text(local) \ { item.phrase : item \in shown } }]

\* Mutant of BuriedOver: the images only the cloud has are not buried.
LeaveCloudImages(local, cloud, at) ==
    [i \in Images |-> IF local.buried[i] # 0 THEN local.buried[i] ELSE cloud.buried[i]]

\* Images only the cloud has are buried.
BuriedOver(local, cloud, at) ==
    [i \in Images |->
        IF cloud.images[i] # NoImage /\ local.images[i] = NoImage THEN at
        ELSE IF local.buried[i] # 0 THEN local.buried[i] ELSE cloud.buried[i]]

OverCloudCopy(local, cloud, at, put) ==
    [local EXCEPT !.doc = TextOver(local, cloud, put), !.buried = BuriedOver(local, cloud, at)]

Content(n) == [value |-> n.value, text |-> Text(n), images |-> Listed(n)]

\* The device has read the cloud's copy; its next sync uploads the result.
ForcePush(d, now) ==
    LET local == copy[d]
        at == Max({now, LargestTime(local) + 1, LargestTime(live) + 1}) IN
    /\ "push" \in part /\ edits < MaxEdits
    /\ edits' = edits + 1
    /\ copy' = [copy EXCEPT ![d] =
            TouchNoteFields(OverCloudCopy(local, live, at, edits + 1), NOTE_FIELDS, d, at)]
    /\ writes' = writes \cup Written(copy'[d], WholeFields)
            \cup {[field |-> "push", stamp |-> Stamp(copy'[d], "body"), value |-> 0]}
    /\ imageWrites' = imageWrites \cup
            {ImageWrite(copy'[d], Listed(live) \ Listed(local), at)}
    /\ unsynced' = unsynced \cup {d}
    /\ pushed' = IF unsynced \subseteq {d} THEN {Content(local)} ELSE {}
    /\ UNCHANGED <<live, part>>

-----------------------------------------------------------------------------
(* A sync: the device merges the relay's copy and uploads what comes out.  *)

Sync(d) ==
    LET merged == MergeTwoNotes(copy[d], live) IN
    /\ copy' = [copy EXCEPT ![d] = merged]
    /\ live' = merged
    /\ unsynced' = unsynced \ {d}
    /\ UNCHANGED <<edits, part, writes, imageWrites, pushed>>

\* A note as it was made, with every field stamped, or from before stamps.
FirstCopy(stamped) ==
    LET at == IF stamped THEN 1 ELSE Unstamped
        writer == IF stamped THEN Min(Writers) ELSE NoWriter IN
    [ value |-> [f \in WholeFields |-> 0],
      time |-> [f \in NOTE_FIELDS |-> at], writer |-> [f \in NOTE_FIELDS |-> writer],
      updatedAt |-> 1, doc |-> NoDoc,
      images |-> [i \in Images |-> IF i \in FirstImages THEN [time |-> 0, content |-> 0] ELSE NoImage],
      buried |-> [i \in Images |-> 0] ]

NoteInit ==
    /\ \E stamped \in BOOLEAN : live = FirstCopy(stamped)
    /\ copy = [d \in Writers |-> live]
    /\ edits = 0 /\ part \in Parts
    /\ writes = Written(live, WholeFields) /\ imageWrites = {ImageWrite(live, {}, 0)}
    /\ unsynced = {} /\ pushed = {}

NoteNext ==
    \E d \in Writers :
        \/ Sync(d)
        \/ \E at \in Times :
            \/ EditTitle(d, at) \/ ToggleSecret(d, at) \/ TypePhrase(d, at) \/ ForcePush(d, at)
            \/ \E i \in Images : PutImage(d, at, i) \/ RemoveImage(d, at, i) \/ CropImage(d, at, i)

NoteSpec == NoteInit /\ [][NoteNext]_noteVars

-----------------------------------------------------------------------------
(* Properties.                                                             *)

\* Whichever copy a device merges into which, the outcome is the same, and
\* merging it with either again changes nothing: devices do not go on
\* uploading each other's results.
Copies == {live} \cup { copy[d] : d \in Writers }
MergesAgree ==
    \A m, n \in Copies : m # n =>
        LET merged == MergeTwoNotes(m, n) IN
        /\ merged = MergeTwoNotes(n, m)
        /\ merged = MergeTwoNotes(merged, n)

Quiet == \A d \in Writers : copy[d] = live

LastWriteWins ==
    \A f \in WholeFields :
        \E w \in writes :
            /\ w.field = f /\ w.value = live.value[f] /\ w.stamp.time = FieldTime(live, f)
            /\ \A v \in writes : v.field = f => ~Later(v.stamp, w.stamp)

PhrasesKept == \A w \in writes : w.field = "body" => w.value \in Text(live)

ImagesKept ==
    \A w \in imageWrites, i \in Images :
        /\ i \in w.listed /\ (\A v \in imageWrites : i \notin v.removed)
           => live.images[i] # NoImage
        /\ i \in w.removed /\ (\A v \in imageWrites \ {w} : v.stamp.time <= w.at)
           => live.images[i] = NoImage

\* When all devices hold the same copy, wherever and in whatever order they
\* edited and synced: each field is the last that anyone wrote to it; and
\* unless a device replaced the cloud's copy, every phrase typed is in the
\* text, an image that nobody removed is there, and one whose removal came
\* after all other edits of the images is not.
NothingMergedAway ==
    Quiet => /\ LastWriteWins
             /\ (\A w \in writes : w.field # "push") => PhrasesKept /\ ImagesKept

\* After a device has replaced the cloud's copy, and nothing else is written,
\* every device comes to read what that device had.
PushWins == Quiet => \A content \in pushed : Content(live) = content

\* A removed image stays away unless a later edit of the images still lists it.
RemovalRemembered ==
    Quiet => \A w \in imageWrites, i \in Images :
        /\ i \in w.removed
        /\ \A v \in imageWrites : v.stamp.time > w.at => i \notin v.listed
        => live.images[i] = NoImage
===============================================================================
