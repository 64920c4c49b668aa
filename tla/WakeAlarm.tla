------------------------------- MODULE WakeAlarm -------------------------------
(***************************************************************************)
(* Reminder wakes of one account on Workers.  In place of a timer there is *)
(* an alarm, in the account's ReminderScheduler; when it fires the account *)
(* goes through a queue to the app, which delivers what is due and sets    *)
(* the next alarm.  Several deliveries of one account may be under way: a  *)
(* queue delivers at least once, and an alarm may fire during a delivery.  *)
(* Of the scheduler's generation only comparisons are read, so a delivery  *)
(* carries whether it still holds the current one.                         *)
(*                                                                         *)
(* One browser; Wakes models several, and a delivery's rounds and shares.  *)
(***************************************************************************)
EXTENDS Integers, FiniteSets

CONSTANTS
    WakeIds,
    FireAt,         \* FireAt[w]: when wake w is due
    Snapshots,      \* sets of wakes that devices publish
    Never,          \* null
    Clients,        \* bound: requests in progress at a time
    Messages,       \* bound: queue messages at a time
    Lease,          \* WAKE_CLAIM_LEASE_MS
    Backoff,        \* a failed push is put off by a lease at least and by this at most
    RetryAfter,     \* RETRY_AFTER_MS
    MaxTries,       \* max_retries of the queue's consumer
    Overlap,        \* whether publishes may overlap between their read and their write
    RegistrationsDie, \* whether a registration may end before it has armed the alarm
    MaxRevision, MaxEvents, MaxNow, FaultyUntil     \* bounds, as in Wakes

ASSUME WakeAssumption == FireAt \in [WakeIds -> Nat] /\ Snapshots \subseteq SUBSET WakeIds
ASSUME NeverAssumption == Never \notin Int
ASSUME DelayAssumption ==
    {Lease, Backoff} \subseteq Nat \ {0} /\ Lease <= Backoff /\ {RetryAfter, MaxTries} \subseteq Nat
ASSUME AlarmBoundAssumption ==
    {MaxRevision, MaxEvents, MaxNow, FaultyUntil} \subseteq Nat

VARIABLES
    now,
    wakes, revision, unscheduled,   \* reminder_wakes, _revisions, _unscheduled
    registered,     \* reminder_push_devices: the browser is there
    rows,           \* reminder_wake_deliveries
    clients,        \* requests of devices past their first transaction
    alarm,          \* the scheduler's alarm
    handing,        \* alarm() has set the retry and not yet sent the message
    messages,       \* the queue and the deliveries that its messages are in
    events,
    reached,        \* history: wakes whose delivery was written
    putOff,         \* history: until when the last failed push has put a wake off
    gaveUpAt        \* history: when a hand-over last failed for good

wakeStore == <<wakes, revision, unscheduled, registered, rows>>
alarmVars == <<now, wakeStore, clients, alarm, handing, messages, events, reached, putOff, gaveUpAt>>

NoClient == [step |-> "none", revision |-> Never, snapshot |-> {}, changed |-> FALSE, owing |-> FALSE]
NoMessage == [stage |-> "none", tries |-> 0, current |-> FALSE, due |-> {}, next |-> Never]

\* No wakes yet; the browser has registered before.
AlarmInit ==
    /\ now = 0
    /\ wakes = {} /\ revision = Never /\ unscheduled = Never /\ registered = TRUE
    /\ rows = [w \in WakeIds |-> [claimed |-> Never, delivered |-> FALSE]]
    /\ clients = [c \in Clients |-> NoClient]
    /\ alarm = Never /\ handing = FALSE
    /\ messages = [m \in Messages |-> NoMessage]
    /\ events = 0 /\ reached = {} /\ gaveUpAt = Never
    /\ putOff = [w \in WakeIds |-> 0]

-----------------------------------------------------------------------------
LaterTime(a, b) == IF a >= b THEN a ELSE b
SoonerTime(a, b) == IF a <= b THEN a ELSE b

Owing(w) == registered /\ w \in wakes /\ ~rows[w].delivered

ClaimableAt(w) ==
    IF rows[w].claimed = Never THEN FireAt[w] ELSE LaterTime(FireAt[w], rows[w].claimed + Lease)

Happens == events < MaxEvents /\ events' = events + 1

Set(c, request) == clients' = [clients EXCEPT ![c] = request]
Put(m, message) == messages' = [messages EXCEPT ![m] = message]
InStage(m, stage) == messages[m].stage = stage

-----------------------------------------------------------------------------
(* Requests of devices.                                                    *)

\* replaceReminderWakes reads: an older revision is refused; an equal one changes
\* nothing and only arms an alarm still owed.
ReadSnapshot(c, snapshot, rev) ==
    LET owing == unscheduled # Never IN
    /\ clients[c].step = "none" /\ (revision # Never => revision <= rev)
    /\ Overlap \/ \A d \in Clients : clients[d].step # "write"
    /\ IF rev = revision
       THEN owing /\ Set(c, [NoClient EXCEPT !.step = "arm", !.revision = rev])
       ELSE Set(c, [step |-> "write", revision |-> rev, snapshot |-> snapshot,
                    changed |-> snapshot # wakes, owing |-> owing])
    /\ Happens
    /\ UNCHANGED <<now, wakeStore, alarm, handing, messages, reached, putOff, gaveUpAt>>

\* Its batch writes while no newer revision has been stored.
WriteSnapshot(c) ==
    LET r == clients[c]
        owned == revision = Never \/ revision <= r.revision
        written == owned /\ wakes # r.snapshot IN
    /\ r.step = "write"
    /\ revision' = IF owned THEN r.revision ELSE revision
    /\ wakes' = IF owned THEN r.snapshot ELSE wakes
    /\ unscheduled' = IF owned /\ r.changed THEN r.revision ELSE unscheduled
    /\ Set(c, IF r.changed \/ written \/ r.owing
              THEN [NoClient EXCEPT !.step = "arm", !.revision = r.revision] ELSE NoClient)
    /\ UNCHANGED <<now, registered, rows, alarm, handing, messages, events, reached, putOff, gaveUpAt>>

\* savePushDevice, which the route follows by arming.
RegisterBrowser(c) ==
    /\ clients[c].step = "none"
    /\ registered' = TRUE
    /\ Set(c, [NoClient EXCEPT !.step = "arm"])
    /\ Happens
    /\ UNCHANGED <<now, wakes, revision, unscheduled, rows, alarm, handing, messages, reached, putOff, gaveUpAt>>

UnregisterBrowser ==
    /\ registered /\ registered' = FALSE
    /\ Happens
    /\ UNCHANGED <<now, wakes, revision, unscheduled, rows, clients, alarm, handing, messages,
                   reached, putOff, gaveUpAt>>

\* /arm, for the present moment: no delivery begun before may set the alarm any more.
ArmAlarm(c) ==
    /\ clients[c].step = "arm"
    /\ alarm' = IF alarm # Never /\ alarm <= now THEN alarm ELSE now
    /\ messages' = [m \in Messages |-> [messages[m] EXCEPT !.current = FALSE]]
    /\ Set(c, IF clients[c].revision = Never THEN NoClient ELSE [clients[c] EXCEPT !.step = "mark"])
    /\ UNCHANGED <<now, wakeStore, handing, events, reached, putOff, gaveUpAt>>

\* markReminderWakesScheduled
MarkArmed(c) ==
    /\ clients[c].step = "mark"
    /\ unscheduled' =
         IF unscheduled # Never /\ unscheduled <= clients[c].revision THEN Never ELSE unscheduled
    /\ Set(c, NoClient)
    /\ UNCHANGED <<now, wakes, revision, registered, rows, alarm, handing, messages, events, reached, putOff, gaveUpAt>>

\* A request ends at an error, or with its isolate.
RequestDies(c) ==
    /\ clients[c].step # "none" /\ now <= FaultyUntil
    /\ clients[c].revision = Never => RegistrationsDie
    /\ Set(c, NoClient)
    /\ Happens
    /\ UNCHANGED <<now, wakeStore, alarm, handing, messages, reached, putOff, gaveUpAt>>

-----------------------------------------------------------------------------
(* The scheduler's alarm and the queue.                                    *)

\* Mutant of FireAlarm: no retry is set.
FireWithoutRetry ==
    /\ ~handing /\ alarm # Never /\ alarm <= now
    /\ alarm' = Never
    /\ handing' = TRUE
    /\ UNCHANGED <<now, wakeStore, clients, messages, events, reached, putOff, gaveUpAt>>

\* alarm(): the retry comes first, as the app may set the next alarm before the send
\* returns.
FireAlarm ==
    /\ ~handing /\ alarm # Never /\ alarm <= now
    /\ alarm' = now + RetryAfter
    /\ handing' = TRUE
    /\ UNCHANGED <<now, wakeStore, clients, messages, events, reached, putOff, gaveUpAt>>

Queued == [NoMessage EXCEPT !.stage = "queued"]

Enqueue(m) == InStage(m, "none") /\ Put(m, Queued)

\* The message is in the queue, and later the send returns: a delivery may be in between.
HandOver ==
    /\ handing /\ handing' = FALSE
    /\ \E m \in Messages : Enqueue(m)
    /\ UNCHANGED <<now, wakeStore, clients, alarm, events, reached, putOff, gaveUpAt>>

HandOverFails ==
    /\ handing /\ handing' = FALSE
    /\ now <= FaultyUntil /\ gaveUpAt' = now
    /\ Happens
    /\ UNCHANGED <<now, wakeStore, clients, alarm, messages, reached, putOff>>

\* A message is delivered a second time, beside the first.
Redeliver ==
    /\ \E m \in Messages : ~InStage(m, "none")
    /\ \E m \in Messages : Enqueue(m)
    /\ Happens
    /\ UNCHANGED <<now, wakeStore, clients, alarm, handing, reached, putOff, gaveUpAt>>

-----------------------------------------------------------------------------
(* A delivery: POST /api/cron/wakes, for one message.                      *)

\* /begin: this delivery is the current one.
BeginDelivery(m) ==
    /\ InStage(m, "queued")
    /\ messages' = [ n \in Messages |->
         IF n = m THEN [messages[m] EXCEPT !.stage = "select", !.current = TRUE]
                  ELSE [messages[n] EXCEPT !.current = FALSE] ]
    /\ UNCHANGED <<now, wakeStore, clients, alarm, handing, events, reached, putOff, gaveUpAt>>

\* claimDueWakes reads what is due,
SelectDue(m) ==
    /\ InStage(m, "select")
    /\ Put(m, [messages[m] EXCEPT !.stage = "claim",
                                  !.due = { w \in WakeIds : Owing(w) /\ ClaimableAt(w) <= now }])
    /\ UNCHANGED <<now, wakeStore, clients, alarm, handing, events, reached, putOff, gaveUpAt>>

\* and then claims it, whatever has become of it since.
ClaimDue(m) ==
    /\ InStage(m, "claim")
    /\ rows' = [ w \in WakeIds |-> IF w \in messages[m].due
                                   THEN [claimed |-> now, delivered |-> FALSE] ELSE rows[w] ]
    /\ Put(m, [messages[m] EXCEPT !.stage = "push"])
    /\ UNCHANGED <<now, wakes, revision, unscheduled, registered, clients, alarm, handing, events,
                   reached, putOff, gaveUpAt>>

Settle(m, w) ==
    /\ InStage(m, "push") /\ w \in messages[m].due
    /\ Put(m, [messages[m] EXCEPT !.due = @ \ {w}])
    /\ UNCHANGED <<now, wakes, revision, unscheduled, clients, alarm, handing, events, gaveUpAt>>

\* The push service answers, and the answer is written: markWakeDelivered,
PushSent(m, w) ==
    /\ Settle(m, w)
    /\ rows' = [rows EXCEPT ![w].delivered = TRUE]
    /\ reached' = reached \cup {w}
    /\ UNCHANGED <<registered, putOff>>

DeferTime(w) == now + SoonerTime(LaterTime(now - FireAt[w], Lease), Backoff)

\* deferWakeRetry,
PushFailed(m, w) ==
    /\ Settle(m, w) /\ now <= FaultyUntil
    /\ rows' = [rows EXCEPT ![w].claimed = IF rows[w].delivered THEN @ ELSE DeferTime(w) - Lease]
    /\ putOff' = [putOff EXCEPT ![w] = DeferTime(w)]
    /\ UNCHANGED <<reached, registered>>

\* deletePushDevice.
PushGone(m, w) ==
    /\ Settle(m, w) /\ now <= FaultyUntil
    /\ registered' = FALSE
    /\ UNCHANGED <<reached, rows, putOff>>

\* nextWakeAt
NextDeliveryAt ==
    LET times == { LaterTime(ClaimableAt(w), now) : w \in { v \in WakeIds : Owing(v) } } IN
    IF times = {} THEN Never ELSE CHOOSE t \in times : \A u \in times : t <= u

LookAhead(m) ==
    /\ InStage(m, "push") /\ messages[m].due = {}
    /\ Put(m, [messages[m] EXCEPT !.stage = "set", !.next = NextDeliveryAt])
    /\ UNCHANGED <<now, wakeStore, clients, alarm, handing, events, reached, putOff, gaveUpAt>>

\* Mutant of SetAlarm: a late completion replaces the alarm that a newer request set.
SetAnyAlarm(m) ==
    /\ InStage(m, "set")
    /\ alarm' = messages[m].next
    /\ Put(m, [messages[m] EXCEPT !.stage = "ack", !.next = Never])
    /\ UNCHANGED <<now, wakeStore, clients, handing, events, reached, putOff, gaveUpAt>>

\* /set: only the current delivery has its way.
SetAlarm(m) ==
    /\ InStage(m, "set")
    /\ alarm' = IF messages[m].current THEN messages[m].next ELSE alarm
    /\ Put(m, [messages[m] EXCEPT !.stage = "ack", !.next = Never])
    /\ UNCHANGED <<now, wakeStore, clients, handing, events, reached, putOff, gaveUpAt>>

Acknowledge(m) ==
    /\ InStage(m, "ack")
    /\ Put(m, NoMessage)
    /\ UNCHANGED <<now, wakeStore, clients, alarm, handing, events, reached, putOff, gaveUpAt>>

\* Anything fails: the message comes again, until the queue gives it up.
DeliveryFails(m) ==
    LET tries == messages[m].tries + 1 IN
    /\ ~InStage(m, "none") /\ now <= FaultyUntil
    /\ IF tries > MaxTries
       THEN Put(m, NoMessage) /\ gaveUpAt' = now
       ELSE Put(m, [Queued EXCEPT !.tries = tries]) /\ UNCHANGED gaveUpAt
    /\ Happens
    /\ UNCHANGED <<now, wakeStore, clients, alarm, handing, reached, putOff>>

Later ==
    /\ now < MaxNow /\ now' = now + 1
    /\ UNCHANGED <<wakeStore, clients, alarm, handing, messages, events, reached, putOff, gaveUpAt>>

-----------------------------------------------------------------------------
ClientStep(c) ==
    \/ \E snapshot \in Snapshots, rev \in 0 .. MaxRevision : ReadSnapshot(c, snapshot, rev)
    \/ WriteSnapshot(c) \/ RegisterBrowser(c) \/ ArmAlarm(c) \/ MarkArmed(c) \/ RequestDies(c)

DeliveryStep(m) ==
    \/ BeginDelivery(m) \/ SelectDue(m) \/ ClaimDue(m) \/ LookAhead(m) \/ SetAlarm(m)
    \/ Acknowledge(m) \/ DeliveryFails(m)
    \/ \E w \in WakeIds : PushSent(m, w) \/ PushFailed(m, w) \/ PushGone(m, w)

AlarmNext ==
    \/ \E c \in Clients : ClientStep(c)
    \/ UnregisterBrowser
    \/ FireAlarm \/ HandOver \/ HandOverFails \/ Redeliver
    \/ \E m \in Messages : DeliveryStep(m)
    \/ Later

AlarmSpec == AlarmInit /\ [][AlarmNext]_alarmVars

-----------------------------------------------------------------------------
(* Properties.                                                             *)

\* Every variable holds a value of its kind.
AlarmTypeOK ==
    /\ now \in Nat /\ events \in Nat /\ gaveUpAt \in Nat \cup {Never}
    /\ wakes \subseteq WakeIds /\ reached \subseteq WakeIds
    /\ revision \in Nat \cup {Never} /\ unscheduled \in Nat \cup {Never}
    /\ putOff \in [WakeIds -> Nat]
    /\ registered \in BOOLEAN /\ handing \in BOOLEAN
    /\ rows \in [WakeIds -> [claimed : Nat \cup {Never}, delivered : BOOLEAN]]
    /\ clients \in [Clients -> [ step : {"none", "write", "arm", "mark"}, revision : Nat \cup {Never},
                                 snapshot : SUBSET WakeIds, changed : BOOLEAN, owing : BOOLEAN ]]
    /\ alarm \in Nat \cup {Never}
    /\ messages \in [Messages -> [ stage : {"none", "queued", "select", "claim", "push", "set", "ack"},
                                   tries : Nat, current : BOOLEAN, due : SUBSET WakeIds,
                                   next : Nat \cup {Never} ]]

\* When a wake's next delivery is due: when it may be claimed, or when its last failed push
\* has put it off to, if another delivery's late claim has made it claimable before that.
DueAgain(w) == LaterTime(ClaimableAt(w), putOff[w])

\* An alarm at t serves a wake: it comes when the wake is due, or at once.
Serves(t, w) == t # Never /\ t <= LaterTime(DueAgain(w), now)

\* A request is about to arm, or the store remembers that one has to.
ArmOwed == unscheduled # Never \/ \E c \in Clients : clients[c].step = "arm"

\* A message waits, or the current delivery has yet to look ahead, or it has seen this wake.
InDelivery(w) ==
    \/ handing
    \/ \E m \in Messages :
        \/ messages[m].stage = "queued"
        \/ messages[m].current /\ messages[m].stage \in {"select", "claim", "push"}
        \/ messages[m].current /\ messages[m].stage = "set" /\ Serves(messages[m].next, w)

\* After a hand-over that failed for good, the alarm waits for no longer than the retry.
Retried == alarm # Never /\ gaveUpAt # Never /\ alarm <= gaveUpAt + RetryAfter

\* A wake that the browser has still to be told of.
Pending(w) == Owing(w) /\ w \notin reached

\* The alarm is set for each in time, or its account is being delivered.
LookedFor == \A w \in WakeIds : Pending(w) => ArmOwed \/ Serves(alarm, w) \/ InDelivery(w) \/ Retried

\* And whatever fails, an alarm stands: none is more than the retry late in being looked at.
AlarmStands ==
    \A w \in WakeIds : Pending(w) =>
        ArmOwed \/ (alarm # Never /\ alarm <= LaterTime(DueAgain(w), now + RetryAfter))

\* No wake is forgotten, however late, often and out of order the deliveries of one
\* account end, and wherever a request, a hand-over or a delivery is cut short.
NoWakeLost == LookedFor /\ AlarmStands
===============================================================================
