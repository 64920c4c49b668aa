------------------------------ MODULE AccountLife ------------------------------
(***************************************************************************)
(* The life of one account on a self-hosted relay: registration, sign-in,  *)
(* the requests its sessions make, its deletion by its owner and by the    *)
(* retention sweep.                                                        *)
(*                                                                         *)
(* The account is a row of the relay database; its challenges, sessions,   *)
(* wakes and browsers are rows of the ops database.  No transaction spans  *)
(* the two, so every handler below is a chain of steps between which the   *)
(* others run, the store fails or the process dies.                        *)
(***************************************************************************)
EXTENDS Integers, FiniteSets

CONSTANTS
    Requests,           \* requests a client may have under way
    Cron,               \* the maintenance tick
    ChallengeTtl,       \* CHALLENGE_TTL_MS
    SessionTtl,         \* SESSION_TTL_MS
    Inactive,           \* retentionInactiveDays, a sweep's cutoff
    DropsDuringDrain,   \* whether an account may be dropped while a drain is past its read
    MaxClock, MaxRequests, MaxChallenges, MaxFailures    \* bounds

ASSUME ProcessesAssumption == Cron \notin Requests
ASSUME TimesAssumption ==
    /\ {ChallengeTtl, SessionTtl, Inactive} \subseteq Nat \ {0}
    /\ ChallengeTtl =< SessionTtl /\ SessionTtl =< Inactive
    /\ DropsDuringDrain \in BOOLEAN
ASSUME BoundsAssumption ==
    {MaxClock, MaxRequests, MaxChallenges, MaxFailures} \subseteq Nat /\ MaxChallenges # 0

Processes == Requests \cup {Cron}
Tables == {"wakes", "devices"}
Challenges == 1 .. MaxChallenges

VARIABLES
    relay,      \* the relay database: the account, its retirement, the queue of ops deletions
    rows,       \* the ops database: per table the lives of the account its rows were written for
    auth,       \* the ops database: challenges and sessions
    doing,      \* what each process does next
    now,
    history     \* what is remembered for the properties and the bounds only

vars == <<relay, rows, auth, doing, now, history>>

\* A session names the challenge it was granted for.
Session == [challenge : Challenges, until : Int, late : BOOLEAN]
Row == [life : Nat, late : BOOLEAN]

Steps == {"issue", "exchange", "grant", "lookup", "wakes", "devices", "round", "touch",
          "retire", "delete", "sweep", "drain", "purge", "clear", "revoke", "prune"}

\* What a process holds between two awaits: its next step, the challenge it was asked
\* with, and the life of the account it began in (0: it is not about this account alone).
Idle == [at |-> "idle"]
Held == [at : Steps, challenge : Challenges \cup {0}, life : Nat]

DoingOK ==
    /\ doing \in [Processes -> {Idle} \cup Held]
    /\ doing[Cron].at \in {"idle", "sweep", "drain", "purge", "clear", "prune"}
    /\ \A p \in Processes : doing[p].at \in {"exchange", "grant"} => doing[p].challenge \in Challenges

History ==
    [life : Nat, issued : 0 .. MaxChallenges, granted : [Challenges -> Nat], wiped : BOOLEAN,
     revoked : BOOLEAN, begun : 0 .. MaxRequests, failures : 0 .. MaxFailures]

TypeOK ==
    /\ relay \in [exists : BOOLEAN, seen : Int, retired : BOOLEAN, queued : BOOLEAN]
    /\ rows \in [Tables -> SUBSET Row]
    /\ auth \in [challenges : SUBSET [id : Challenges, until : Int], sessions : SUBSET Session]
    /\ DoingOK
    /\ now \in 0 .. MaxClock
    /\ history \in History

(***************************************************************************)
(* A registered account with one session, none of its tables written.      *)
(***************************************************************************)
Init ==
    /\ relay = [exists |-> TRUE, seen |-> 0, retired |-> FALSE, queued |-> FALSE]
    /\ rows = [t \in Tables |-> {}]
    /\ auth = [challenges |-> {}, sessions |-> {[challenge |-> 1, until |-> SessionTtl, late |-> FALSE]}]
    /\ doing = [p \in Processes |-> Idle]
    /\ now = 0
    /\ history = [life |-> 1, issued |-> 1, granted |-> [c \in Challenges |-> IF c = 1 THEN 1 ELSE 0],
                  wiped |-> FALSE, revoked |-> FALSE, begun |-> 0, failures |-> 0]

-----------------------------------------------------------------------------
(***************************************************************************)
(* Steps of a handler.                                                     *)
(***************************************************************************)
At(p, step) == doing[p].at = step
Done(p) == doing' = [doing EXCEPT ![p] = Idle]
Goto(p, step) == IF step = "done" THEN Done(p) ELSE doing' = [doing EXCEPT ![p].at = step]

Begin(r, step, challenge, life) ==
    /\ At(r, "idle") /\ history.begun < MaxRequests
    /\ doing' = [doing EXCEPT ![r] = [at |-> step, challenge |-> challenge, life |-> life]]
    /\ history' = [history EXCEPT !.begun = @ + 1]

\* A request that comes too late: the account it looked for is gone, or is another by now.
Late(r) == ~relay.exists \/ history.life # doing[r].life

\* authenticateSyncToken: the session's row, if it has not expired.  Reads only: that an
\* expired row is deleted on the way changes no later answer.
Authenticated(r, step) ==
    \E s \in auth.sessions : s.until > now /\ Begin(r, step, 0, history.life)

(***************************************************************************)
(* Registration: one statement, refused to an account that exists or is    *)
(* retired.                                                                *)
(***************************************************************************)
MayRegisterRetired == ~relay.exists
MayRegister == ~relay.exists /\ ~relay.retired

Register ==
    /\ MayRegister /\ history.begun < MaxRequests
    /\ relay' = [relay EXCEPT !.exists = TRUE, !.seen = now]
    /\ history' = [history EXCEPT !.begun = @ + 1, !.life = @ + 1]
    /\ UNCHANGED <<rows, auth, doing, now>>

(***************************************************************************)
(* Sign-in.  Each handler reads the credential in the relay database       *)
(* first and works in the ops database after.                              *)
(***************************************************************************)
AskChallenge(r) ==
    /\ relay.exists
    /\ Begin(r, "issue", 0, history.life)
    /\ UNCHANGED <<relay, rows, auth, now>>

IssueChallenge(r) ==
    /\ At(r, "issue") /\ history.issued < MaxChallenges
    /\ LET unexpired == { c \in auth.challenges : c.until > now }
           new == [id |-> history.issued + 1, until |-> now + ChallengeTtl]
       IN auth' = [auth EXCEPT !.challenges = unexpired \cup {new}]
    /\ history' = [history EXCEPT !.issued = @ + 1]
    /\ Done(r)
    /\ UNCHANGED <<relay, rows, now>>

AskSession(r) ==
    /\ relay.exists
    /\ \E c \in 1 .. history.issued : Begin(r, "exchange", c, history.life)
    /\ UNCHANGED <<relay, rows, auth, now>>

\* The DELETE ... RETURNING of exchangeSyncChallenge: the challenges left when it is used up.
StillOpen(challenges, c) == challenges
Consumed(challenges, c) == challenges \ c

Exchange(r) ==
    /\ At(r, "exchange")
    /\ LET asked == { c \in auth.challenges : c.id = doing[r].challenge /\ c.until > now }
       IN  /\ auth' = [auth EXCEPT !.challenges = Consumed(@, asked)]
           /\ IF asked = {} THEN Done(r) ELSE Goto(r, "grant")
    /\ UNCHANGED <<relay, rows, now, history>>

Grant(r) ==
    /\ At(r, "grant")
    /\ LET c == doing[r].challenge
           new == [challenge |-> c, until |-> now + SessionTtl, late |-> Late(r)]
       IN  /\ auth' = [auth EXCEPT !.sessions = @ \cup {new}]
           /\ history' = [history EXCEPT !.granted[c] = @ + 1]
    /\ Done(r)
    /\ UNCHANGED <<relay, rows, now>>

(***************************************************************************)
(* Requests of a session.  A publish looks the account up before it writes *)
(* the wakes; a browser is registered without; a round is one transaction  *)
(* on the relay database.  All three end by touching the account.          *)
(***************************************************************************)
AskPublish(r) == Authenticated(r, "lookup") /\ UNCHANGED <<relay, rows, auth, now>>
AskDevice(r) == Authenticated(r, "devices") /\ UNCHANGED <<relay, rows, auth, now>>
AskRound(r) == Authenticated(r, "round") /\ UNCHANGED <<relay, rows, auth, now>>

LookUp(r) ==
    /\ At(r, "lookup")
    /\ doing' = [doing EXCEPT ![r] =
                    IF relay.exists THEN [at |-> "wakes", challenge |-> 0, life |-> history.life]
                    ELSE Idle]
    /\ UNCHANGED <<relay, rows, auth, now, history>>

WriteRows(r) ==
    \E t \in Tables :
        /\ At(r, t)
        /\ rows' = [rows EXCEPT ![t] = @ \cup {[life |-> doing[r].life, late |-> Late(r)]}]
        /\ Goto(r, "touch")
        /\ UNCHANGED <<relay, auth, now, history>>

\* `sync` finds the account in its transaction or answers that it is gone.
Touch(r) ==
    /\ At(r, "touch") \/ At(r, "round")
    /\ relay' = IF relay.exists THEN [relay EXCEPT !.seen = now] ELSE relay
    /\ Done(r)
    /\ UNCHANGED <<rows, auth, now, history>>

(***************************************************************************)
(* Deletion by the owner: retire, delete, drain the queue, revoke.         *)
(***************************************************************************)
\* What each step of the handler is followed by.
RevokeFirst ==
    [asked |-> "retire", retire |-> "revoke", revoke |-> "delete", delete |-> "drain", drain |-> "done"]

DeletionStep ==
    [asked |-> "retire", retire |-> "delete", delete |-> "drain", drain |-> "revoke", revoke |-> "done"]

AskDeletion(r) ==
    Authenticated(r, DeletionStep.asked) /\ UNCHANGED <<relay, rows, auth, now>>

Retire(r) ==
    /\ At(r, "retire")
    /\ relay' = [relay EXCEPT !.retired = TRUE]
    /\ Goto(r, DeletionStep.retire)
    /\ UNCHANGED <<rows, auth, now, history>>

MayDrop == (\E p \in Processes : At(p, "purge") \/ At(p, "clear")) => DropsDuringDrain

\* The transaction of deleteAccount and deleteInactiveAccounts.
Dropped == [relay EXCEPT !.exists = FALSE, !.queued = TRUE]

DeleteAccount(r) ==
    /\ At(r, "delete") /\ MayDrop
    /\ relay' = IF relay.exists THEN Dropped ELSE relay
    /\ history' = [history EXCEPT !.wiped = TRUE]
    /\ Goto(r, DeletionStep.delete)
    /\ UNCHANGED <<rows, auth, now>>

Revoke(r) ==
    /\ At(r, "revoke")
    /\ auth' = [auth EXCEPT !.sessions = {}]
    /\ history' = [history EXCEPT !.revoked = TRUE]
    /\ Goto(r, DeletionStep.revoke)
    /\ UNCHANGED <<relay, rows, now>>

(***************************************************************************)
(* The queue of ops deletions, drained by every deletion of any account    *)
(* and by every sweep.  A purge is one batch; clearing the queue is in the *)
(* other database again.                                                   *)
(***************************************************************************)
ClearFirst == [drain |-> "clear", clear |-> "purge", purge |-> "end"]
DrainStep == [drain |-> "purge", purge |-> "clear", clear |-> "end"]

\* What a drain is followed by: in a tick, in a deletion of another account, in this one's.
RevokeAnyway(p) == DeletionStep.drain
EndOfDrain(p) ==
    IF p = Cron THEN "prune" ELSE IF doing[p].life = 0 THEN "done" ELSE DeletionStep.drain

Drained(p, step) == Goto(p, IF step = "end" THEN EndOfDrain(p) ELSE step)

AskOtherDeletion(r) == Begin(r, "drain", 0, 0) /\ UNCHANGED <<relay, rows, auth, now>>

Drain(p) ==
    /\ At(p, "drain")
    /\ Drained(p, IF relay.queued THEN DrainStep.drain ELSE "end")
    /\ UNCHANGED <<relay, rows, auth, now, history>>

Purge(p) ==
    /\ At(p, "purge")
    /\ rows' = [t \in Tables |-> {}]
    /\ Drained(p, DrainStep.purge)
    /\ UNCHANGED <<relay, auth, now, history>>

Clear(p) ==
    /\ At(p, "clear")
    /\ relay' = [relay EXCEPT !.queued = FALSE]
    /\ Drained(p, DrainStep.clear)
    /\ UNCHANGED <<rows, auth, now, history>>

(***************************************************************************)
(* The cron tick: the sweep, then what has expired is pruned.              *)
(***************************************************************************)
StartTick ==
    /\ At(Cron, "idle")
    /\ doing' = [doing EXCEPT ![Cron] = [at |-> "sweep", challenge |-> 0, life |-> 0]]
    /\ UNCHANGED <<relay, rows, auth, now, history>>

IsInactive == relay.exists /\ relay.seen < now - Inactive

SweepAndDrainOwn ==
    /\ At(Cron, "sweep") /\ (IsInactive => MayDrop)
    /\ relay' = IF IsInactive THEN Dropped ELSE relay
    /\ Goto(Cron, IF IsInactive THEN "drain" ELSE "prune")
    /\ UNCHANGED <<rows, auth, now, history>>

Sweep ==
    /\ At(Cron, "sweep") /\ (IsInactive => MayDrop)
    /\ relay' = IF IsInactive THEN Dropped ELSE relay
    /\ Goto(Cron, "drain")
    /\ UNCHANGED <<rows, auth, now, history>>

Prune ==
    /\ At(Cron, "prune")
    /\ auth' = [challenges |-> { c \in auth.challenges : c.until > now },
                sessions |-> { s \in auth.sessions : s.until > now }]
    /\ Done(Cron)
    /\ UNCHANGED <<relay, rows, now, history>>

(***************************************************************************)
(* Time, failures of either database, and the death of the process.        *)
(***************************************************************************)
Tick ==
    /\ now < MaxClock
    /\ now' = now + 1
    /\ UNCHANGED <<relay, rows, auth, doing, history>>

Failing(p) == ~At(p, "idle") /\ history.failures < MaxFailures

Fail(p) ==
    /\ Failing(p)
    /\ history' = [history EXCEPT !.failures = @ + 1]
    /\ Done(p)
    /\ UNCHANGED <<relay, rows, auth, now>>

Restart ==
    /\ \E p \in Processes : Failing(p)
    /\ history' = [history EXCEPT !.failures = @ + 1]
    /\ doing' = [p \in Processes |-> Idle]
    /\ UNCHANGED <<relay, rows, auth, now>>

-----------------------------------------------------------------------------
Ask(r) ==
    \/ AskChallenge(r) \/ AskSession(r) \/ AskPublish(r) \/ AskDevice(r) \/ AskRound(r)
    \/ AskDeletion(r) \/ AskOtherDeletion(r)

Step(r) ==
    \/ IssueChallenge(r) \/ Exchange(r) \/ Grant(r)
    \/ LookUp(r) \/ WriteRows(r) \/ Touch(r)
    \/ Retire(r) \/ DeleteAccount(r) \/ Revoke(r)

QueueStep(p) == Drain(p) \/ Purge(p) \/ Clear(p)
TickStep == StartTick \/ Sweep \/ QueueStep(Cron) \/ Prune

Next ==
    \/ Register \/ TickStep \/ Tick \/ Restart
    \/ \E r \in Requests : Ask(r) \/ Step(r) \/ QueueStep(r)
    \/ \E p \in Processes : Fail(p)

Spec == Init /\ [][Next]_vars

\* The tick comes again and again, and a database call it makes returns.  Nothing is
\* assumed of what clients ask.
FairSpec ==
    /\ Spec /\ WF_vars(TickStep)
    /\ \A r \in Requests : WF_vars(Step(r) \/ QueueStep(r))

-----------------------------------------------------------------------------
(***************************************************************************)
(* Properties.                                                             *)
(***************************************************************************)

\* RetiredForGood: an account its owner deleted is never registered again, however a
\* registration, a second deletion or a failure falls between the steps of the deletion
\* ("no registration can slip in between the two", syncStore.ts).
RetiredForGood == history.wiped => ~relay.exists

\* PurgedOrQueued: what the ops database holds of an account that is gone, or of an
\* earlier life of it, is queued for deletion, whatever failed or died between the two
\* databases - except what a request wrote that had seen the account before it went.
PurgedOrQueued ==
    \A t \in Tables : \A row \in rows[t] :
        ~relay.exists \/ row.life # history.life => relay.queued \/ row.late

\* OneSessionPerChallenge: a challenge signs its owner in once, though the same answer
\* is posted again while the first is being verified.
OneSessionPerChallenge == \A c \in Challenges : history.granted[c] =< 1

\* RevokedForGood: once a deletion has revoked the account's sessions, the only ones there
\* are were granted to a sign-in that had read the credential before it was deleted.
RevokedForGood == history.revoked => \A s \in auth.sessions : s.late

\* QueueDrains: with the sweep enabled a queued deletion is carried out, by whatever was
\* interrupted.
QueueDrains == relay.queued ~> ~relay.queued
=============================================================================
