--------------------------------- MODULE Wakes ---------------------------------
(***************************************************************************)
(* Reminder wakes of one account on a self-hosted relay: the snapshot of   *)
(* wakes its devices publish, the browsers registered for pushes, and the  *)
(* one timer that delivers each wake to each browser at its time.          *)
(*                                                                         *)
(* Every store call is one step: it is one transaction or one statement.   *)
(* Between two of them the server awaits, and anything else may happen:    *)
(* time passes, requests arrive, the process dies.  A wake's id is a hash  *)
(* of its note and its time, so FireAt is a constant of the id.            *)
(***************************************************************************)
EXTENDS Integers, FiniteSets, FiniteSetsExt

CONSTANTS
    WakeIds,
    FireAt,         \* FireAt[w]: when wake w is due
    Snapshots,      \* sets of wakes that devices publish
    Devices,        \* device ids, one per browser
    Endpoints,      \* push endpoints the push services hand out
    Accounts,       \* what the account may have when the server starts
    Never,          \* null, where a time or a revision may stand
    MaxDevices,     \* MAX_PUSH_DEVICES
    Share,          \* WAKE_CLAIM_ACCOUNT_LIMIT; below CLAIM_LIMIT, so it is the one that counts here
    MaxRounds,      \* MAX_ROUNDS
    Lease,          \* WAKE_CLAIM_LEASE_MS
    Retain,         \* WAKE_RETAIN_MS
    MaxRetryDelay,  \* MAX_RETRY_DELAY_MS
    StoreRetry,     \* the timer's delay after a store error
    MaxRevision,    \* bound: sync revisions published
    DiscardsBeside, \* whether a snapshot may be discarded while a publish is under way
    MaxEvents,      \* bound: requests of devices, and resets
    MaxFaults,      \* bound: store errors and restarts
    MaxTime,        \* bound: the clock
    FaultsUntil     \* bound: until when pushes and store calls fail and the server dies

ASSUME WakeAssumption == FireAt \in [WakeIds -> Nat] /\ Snapshots \subseteq SUBSET WakeIds
ASSUME AccountAssumption ==
    \A account \in Accounts :
        /\ account.wakes \subseteq WakeIds /\ account.revision \in Nat \cup {Never}
        /\ account.devices \subseteq [device : Devices, endpoint : Endpoints, updated : {0}]
        /\ IsFiniteSet(account.devices) /\ Cardinality(account.devices) <= MaxDevices
        /\ \A x, y \in account.devices : x.device = y.device \/ x.endpoint = y.endpoint => x = y
ASSUME NeverAssumption == Never \notin Int
ASSUME LimitAssumption == MaxDevices \in Nat \ {0} /\ Share \in Nat \ {0} /\ MaxRounds \in Nat \ {0}
ASSUME DelayAssumption ==
    /\ Lease \in Nat \ {0} /\ Retain \in Nat /\ StoreRetry \in Nat
    /\ MaxRetryDelay \in Nat /\ Lease <= MaxRetryDelay
ASSUME WakeBoundAssumption ==
    {MaxRevision, MaxEvents, MaxFaults, MaxTime, FaultsUntil} \subseteq Nat

VARIABLES
    now,            \* the server's clock
    wakes,          \* reminder_wakes
    revision,       \* reminder_wake_revisions
    unscheduled,    \* reminder_wakes_unscheduled
    devices,        \* reminder_push_devices
    deliveries,     \* reminder_wake_deliveries, by device and wake
    requests,       \* requests of devices past their first transaction
    republish,      \* a device whose publish was answered with an error has yet to repeat it
    reregister,     \* devices that have yet to repeat a registration
    timer,          \* armedFor
    rerun,          \* the timer asked for while a delivery runs
    dispatch,       \* the delivery in progress (dispatchDueWakes)
    events, faults, \* how many of them so far
    told,           \* history: deliveries whose success was written
    failedAt        \* history: the last store error of a delivery

store == <<wakes, revision, unscheduled, devices, deliveries>>
retries == <<republish, reregister>>
vars == <<now, store, requests, retries, timer, rerun, dispatch, events, faults, told, failedAt>>

NoDelivery == [claimed |-> Never, delivered |-> Never]
Idle == [pc |-> "off", round |-> 0, due |-> {}, more |-> FALSE, next |-> Never]

\* The server has just started and looks for wakes at once.
Init ==
    /\ now = 0
    /\ \E account \in Accounts :
        wakes = account.wakes /\ revision = account.revision /\ devices = account.devices
    /\ unscheduled = Never
    /\ deliveries = [p \in Devices \X WakeIds |-> NoDelivery]
    /\ requests = {} /\ republish = FALSE /\ reregister = {}
    /\ timer = now /\ rerun = Never /\ dispatch = Idle
    /\ events = 0 /\ faults = 0 /\ told = {} /\ failedAt = Never

-----------------------------------------------------------------------------
LaterOf(a, b) == IF a >= b THEN a ELSE b
SmallerOf(a, b) == IF a <= b THEN a ELSE b

Earliest(times) ==
    LET known == times \ {Never} IN IF known = {} THEN Never ELSE Min(known)

\* The sets ORDER BY key LIMIT n may select: ties are broken by random ids.
Foremost(S, n, key) ==
    { T \in SUBSET S :
        /\ Cardinality(T) = SmallerOf(n, Cardinality(S))
        /\ \A p \in T, q \in S \ T : key[p] <= key[q] }

Registered == { x.device : x \in devices }

Undelivered(d, w) == deliveries[<<d, w>>].delivered = Never

\* A browser still has to be told of a wake.
Owed(d, w) == w \in wakes /\ d \in Registered /\ Undelivered(d, w)

\* When it may next be claimed: at its time, but not while a claim is held.
ReadyAt(d, w) ==
    LET claimed == deliveries[<<d, w>>].claimed IN
    IF claimed = Never THEN FireAt[w] ELSE LaterOf(FireAt[w], claimed + Lease)

Running == dispatch.pc # "off"

\* Mutant of ArmNow: a timer asked for during a delivery is forgotten.
ArmUnlessRunning ==
    /\ timer' = IF Running THEN timer ELSE Earliest({timer, now})
    /\ UNCHANGED rerun

\* arm(now): the earliest time asked for wins; a delivery in progress takes it up at its end.
ArmNow ==
    IF Running
    THEN rerun' = Earliest({rerun, now}) /\ UNCHANGED timer
    ELSE timer' = Earliest({timer, now}) /\ UNCHANGED rerun

Event == events < MaxEvents /\ events' = events + 1
Fault == now <= FaultsUntil /\ faults < MaxFaults /\ faults' = faults + 1

\* A publish has a revision, a registration a device.
PublishAt(step, rev) == [step |-> step, revision |-> rev, device |-> Never]
RegistrationOf(d) == [step |-> "arm", revision |-> Never, device |-> d]
Publishes(r) == r.revision # Never

-----------------------------------------------------------------------------
(* What devices ask: PUT, POST and DELETE /api/sync/push/wakes.             *)

\* Mutant of Schedules: a change that was never armed is forgotten.
SchedulesChange(changed) == changed

\* Delivery is armed for a change, and for an earlier change that was never armed.
Schedules(changed) == changed \/ unscheduled # Never

\* parseReminderWakes and replaceReminderWakes.  An older revision is refused, an equal
\* one changes nothing.
Replace(snapshot, rev) ==
    LET next == { w \in snapshot : FireAt[w] > now - Retain }
        repeated == revision = rev
        changed == ~repeated /\ next # wakes IN
    /\ revision # Never => revision <= rev
    /\ wakes' = IF repeated THEN wakes ELSE next
    /\ revision' = rev
    /\ unscheduled' = IF changed THEN rev ELSE unscheduled
    /\ requests' = IF Schedules(changed) THEN requests \cup {PublishAt("arm", rev)} ELSE requests
    /\ UNCHANGED <<now, devices, deliveries, reregister, timer, rerun, dispatch, faults, told, failedAt>>

Publish(snapshot, rev) == Replace(snapshot, rev) /\ Event /\ UNCHANGED republish

\* publishReminderWakes does not hold for published what was answered with an error.
PublishAgain(snapshot, rev) ==
    /\ republish /\ republish' = FALSE
    /\ Replace(snapshot, rev)
    /\ UNCHANGED events

\* Mutant of WithRoomFor: the device that is about to be added is not counted.
WithRoomForNone(rest, d) ==
    { rest \ gone : gone \in Foremost(rest, LaterOf(0, Cardinality(rest) - MaxDevices),
                                      [x \in rest |-> x.updated]) }

\* Which rows stay when device d is added to the rest: the least recently
\* registered make room for it.
WithRoomFor(rest, d) ==
    { rest \ gone : gone \in Foremost(rest, LaterOf(0, Cardinality(rest) + 1 - MaxDevices),
                                      [x \in rest |-> x.updated]) }

\* savePushDevice: an endpoint belongs to the device that registered it last.
Save(d, e) ==
    LET others == { x \in devices : x.endpoint # e \/ x.device = d }
        added == [device |-> d, endpoint |-> e, updated |-> now] IN
    /\ IF d \in Registered
       THEN devices' = { x \in others : x.device # d } \cup {added}
       ELSE \E rest \in WithRoomFor(others, d) : devices' = rest \cup {added}
    /\ requests' = requests \cup {RegistrationOf(d)}
    /\ UNCHANGED <<now, wakes, revision, unscheduled, deliveries, republish, timer, rerun, dispatch,
                   faults, told, failedAt>>

Register(d, e) == Save(d, e) /\ Event /\ UNCHANGED reregister

\* registerReminderDevice, of a device that it does not hold for registered.
RegisterAgain(d, e) ==
    /\ d \in reregister /\ reregister' = reregister \ {d}
    /\ Save(d, e)
    /\ UNCHANGED events

\* deletePushDevice: what the browser was told is remembered.
Unregister(d) ==
    /\ d \in Registered
    /\ devices' = { x \in devices : x.device # d }
    /\ reregister' = reregister \ {d}
    /\ Event
    /\ UNCHANGED <<now, wakes, revision, unscheduled, deliveries, requests, republish, timer, rerun,
                   dispatch, faults, told, failedAt>>

\* touchAccount, once the request's transaction is done, and then scheduleDelivery.
Arm(r) ==
    /\ r.step = "arm"
    /\ ArmNow
    /\ requests' = (requests \ {r}) \cup
         (IF Publishes(r) THEN {PublishAt("mark", r.revision)} ELSE {})
    /\ UNCHANGED <<now, store, retries, dispatch, events, faults, told, failedAt>>

\* markReminderWakesScheduled: only for the changes this request armed.
MarkScheduled(r) ==
    /\ r.step = "mark"
    /\ unscheduled' = IF unscheduled # Never /\ unscheduled <= r.revision THEN Never ELSE unscheduled
    /\ requests' = requests \ {r}
    /\ UNCHANGED <<now, wakes, revision, devices, deliveries, retries, timer, rerun, dispatch, events,
                   faults, told, failedAt>>

\* The devices of requests that end without an answer of success ask again.
AskAgain(ended) ==
    /\ republish' = (republish \/ \E r \in ended : Publishes(r))
    /\ reregister' = reregister \cup { r.device : r \in { q \in ended : ~Publishes(q) } }

\* touchAccount fails before the arming, or markReminderWakesScheduled after it: what the
\* transaction wrote stays, and the route answers with an error.
RequestFails(r) ==
    /\ Fault
    /\ requests' = requests \ {r}
    /\ AskAgain({r})
    /\ UNCHANGED <<now, store, timer, rerun, dispatch, events, told, failedAt>>

\* discardWakeSnapshotAfter: a device was told to reset, the account counts anew.
Discard(ceiling) ==
    /\ revision # Never /\ revision > ceiling
    /\ DiscardsBeside \/ \A r \in requests : ~Publishes(r)
    /\ wakes' = {} /\ revision' = Never
    /\ Event
    /\ UNCHANGED <<now, unscheduled, devices, deliveries, requests, retries, timer, rerun, dispatch,
                   faults, told, failedAt>>

\* Mutant of Outlived: the moment of the cutoff counts for deliveries, not for wakes.
OutlivedAtCutoff(x, cutoff) ==
    \/ x.delivered # Never /\ x.delivered <= cutoff
    \/ x.delivered = Never /\ x.claimed # Never /\ x.claimed <= cutoff

\* COALESCE(delivered_at, claimed_at) < cutoff
Outlived(x, cutoff) ==
    \/ x.delivered # Never /\ x.delivered < cutoff
    \/ x.delivered = Never /\ x.claimed # Never /\ x.claimed < cutoff

\* pruneStaleWakes, by the hourly upkeep.
Prune ==
    LET cutoff == now - Retain IN
    /\ wakes' = { w \in wakes : FireAt[w] >= cutoff }
    /\ deliveries' = [ p \in DOMAIN deliveries |->
         IF Outlived(deliveries[p], cutoff) THEN NoDelivery ELSE deliveries[p] ]
    /\ UNCHANGED <<now, revision, unscheduled, devices, requests, retries, timer, rerun, dispatch,
                   events, faults, told, failedAt>>

-----------------------------------------------------------------------------
(* The timer and the delivery it runs.                                      *)

\* fire: setTimeout is due, never before its time (an early one arms again).
Fire ==
    /\ ~Running /\ timer # Never /\ timer <= now
    /\ timer' = Never
    /\ dispatch' = [Idle EXCEPT !.pc = "claim"]
    /\ UNCHANGED <<now, store, requests, retries, rerun, events, faults, told, failedAt>>

Open == { x \in devices \X wakes : Owed(x[1].device, x[2]) }

Due == { x \in Open : ReadyAt(x[1].device, x[2]) <= now }

\* claimDueWakes: the account's share of what is due, earliest first.  The
\* endpoint a push will go to is read here.
Claim ==
    /\ dispatch.pc = "claim"
    /\ \E taken \in Foremost(Due, Share, [x \in Due |-> FireAt[x[2]]]) :
        /\ deliveries' = [ p \in DOMAIN deliveries |->
             IF \E x \in taken : p = <<x[1].device, x[2]>>
             THEN [claimed |-> now, delivered |-> Never] ELSE deliveries[p] ]
        /\ dispatch' = [dispatch EXCEPT
             !.pc = "send",
             !.due = { [ device |-> x[1].device, endpoint |-> x[1].endpoint, wake |-> x[2],
                         answer |-> "none" ] : x \in taken },
             !.more = Cardinality(taken) = Share]
    /\ UNCHANGED <<now, wakes, revision, unscheduled, devices, requests, retries, timer, rerun, events,
                   faults, told, failedAt>>

\* The push service answers, or the send times out ("failed").
Answer(x, answer) ==
    /\ x.answer = "none"
    /\ answer # "sent" => now <= FaultsUntil
    /\ dispatch' = [dispatch EXCEPT !.due = (@ \ {x}) \cup {[x EXCEPT !.answer = answer]}]
    /\ UNCHANGED <<now, store, requests, retries, timer, rerun, events, faults, told, failedAt>>

SettledSend(x) == dispatch' = [dispatch EXCEPT !.due = @ \ {x}]

\* markWakeDelivered: nothing when the row has been pruned.
MarkDelivered(x) ==
    /\ x.answer = "sent"
    /\ deliveries' = [deliveries EXCEPT ![<<x.device, x.wake>>] =
                        IF @.claimed = Never THEN @ ELSE [@ EXCEPT !.delivered = now]]
    /\ told' = told \cup {<<x.device, x.wake>>}
    /\ SettledSend(x)
    /\ UNCHANGED <<now, wakes, revision, unscheduled, devices, requests, retries, timer, rerun, events,
                   faults, failedAt>>

\* wakeRetryAt
RetryAt(w) == now + SmallerOf(LaterOf(now - FireAt[w], Lease), MaxRetryDelay)

\* deferWakeRetry: the claim is held until the retry.
Defer(x) ==
    /\ x.answer = "failed"
    /\ deliveries' = [deliveries EXCEPT ![<<x.device, x.wake>>] =
                        IF @.claimed = Never \/ @.delivered # Never THEN @
                        ELSE [@ EXCEPT !.claimed = RetryAt(x.wake) - Lease]]
    /\ SettledSend(x)
    /\ UNCHANGED <<now, wakes, revision, unscheduled, devices, requests, retries, timer, rerun, events,
                   faults, told, failedAt>>

\* deletePushDevice, for whatever endpoint the device has by now.
DropGone(x) ==
    /\ x.answer = "gone"
    /\ devices' = { y \in devices : y.device # x.device }
    /\ SettledSend(x)
    /\ UNCHANGED <<now, wakes, revision, unscheduled, deliveries, requests, retries, timer, rerun, events,
                   faults, told, failedAt>>

RoundDone ==
    /\ dispatch.pc = "send" /\ dispatch.due = {}
    /\ dispatch' = [dispatch EXCEPT
         !.round = @ + 1,
         !.pc = IF dispatch.more /\ dispatch.round + 1 < MaxRounds THEN "claim" ELSE "look"]
    /\ UNCHANGED <<now, store, requests, retries, timer, rerun, events, faults, told, failedAt>>

\* Mutant of NextWakeAt: a wake whose claim is held is not looked for.
NextUnclaimedAt ==
    LET unclaimed == { x \in Open : deliveries[<<x[1].device, x[2]>>].claimed = Never } IN
    Earliest({ LaterOf(ReadyAt(x[1].device, x[2]), now) : x \in unclaimed })

NextWakeAt == Earliest({ LaterOf(ReadyAt(x[1].device, x[2]), now) : x \in Open })

\* What the dispatch returns: at once while more is due, else the next wake's time.
Look ==
    /\ dispatch.pc = "look"
    /\ dispatch' = [dispatch EXCEPT
         !.pc = "end",
         !.next = Earliest({NextWakeAt, IF dispatch.more THEN now ELSE Never})]
    /\ UNCHANGED <<now, store, requests, retries, timer, rerun, events, faults, told, failedAt>>

\* The timer follows on to what the dispatch returned and to what was asked meanwhile.
FollowOn(next) ==
    /\ timer' = Earliest({timer, next, rerun})
    /\ rerun' = Never
    /\ dispatch' = Idle

Finish ==
    /\ dispatch.pc = "end"
    /\ FollowOn(dispatch.next)
    /\ UNCHANGED <<now, store, requests, retries, events, faults, told, failedAt>>

\* A store call fails: the delivery ends with it and its other sends are
\* interrupted.  Writes of theirs that still land have landed before.
StoreFails ==
    /\ dispatch.pc \in {"claim", "send", "look"}
    /\ FollowOn(now + StoreRetry)
    /\ failedAt' = now
    /\ Fault
    /\ UNCHANGED <<now, store, requests, retries, events, told>>

\* The process dies and starts again: startWakeTimer arms for at once.
Restart ==
    /\ requests' = {} /\ AskAgain(requests)
    /\ timer' = now /\ rerun' = Never /\ dispatch' = Idle
    /\ Fault
    /\ UNCHANGED <<now, store, events, told, failedAt>>

\* Past the time of faults a failed send is put off before time goes on.
Tick ==
    /\ now < MaxTime
    /\ now < FaultsUntil \/ \A x \in dispatch.due : x.answer # "failed"
    /\ now' = now + 1
    /\ UNCHANGED <<store, requests, retries, timer, rerun, dispatch, events, faults, told, failedAt>>

-----------------------------------------------------------------------------
Deliver ==
    \/ Fire \/ Claim \/ RoundDone \/ Look \/ Finish
    \/ \E x \in dispatch.due : MarkDelivered(x) \/ Defer(x) \/ DropGone(x)

Served == \E r \in requests : Arm(r) \/ MarkScheduled(r)

Retried ==
    \/ \E snapshot \in Snapshots, rev \in 0 .. MaxRevision : PublishAgain(snapshot, rev)
    \/ \E d \in Devices, e \in Endpoints : RegisterAgain(d, e)

Answered == \E x \in dispatch.due, answer \in {"sent", "failed", "gone"} : Answer(x, answer)

Next ==
    \/ \E snapshot \in Snapshots, rev \in 0 .. MaxRevision : Publish(snapshot, rev)
    \/ \E d \in Devices, e \in Endpoints : Register(d, e)
    \/ \E d \in Devices : Unregister(d)
    \/ \E ceiling \in 0 .. MaxRevision : Discard(ceiling)
    \/ \E r \in requests : RequestFails(r)
    \/ Prune \/ Deliver \/ Served \/ Retried \/ Answered \/ StoreFails \/ Restart \/ Tick

Spec == Init /\ [][Next]_vars

\* The clock moves; a request goes on unless it fails, and a delivery once begun; a set
\* timeout fires; a push is answered or times out after ten seconds; and a device asks again
\* when its user comes back or it has synced.
Fairness ==
    WF_vars(Tick) /\ WF_vars(Deliver) /\ WF_vars(Served) /\ WF_vars(Answered) /\ WF_vars(Retried)

FairSpec == Spec /\ Fairness

-----------------------------------------------------------------------------
(* Properties.                                                              *)

\* Every variable holds a value of its kind, the browsers stay within their
\* limit, and each endpoint belongs to one of them.
TypeOK ==
    /\ now \in Nat
    /\ wakes \subseteq WakeIds
    /\ revision \in Nat \cup {Never} /\ unscheduled \in Nat \cup {Never}
    /\ devices \subseteq [device : Devices, endpoint : Endpoints, updated : Nat]
    /\ Cardinality(devices) <= MaxDevices
    /\ \A x, y \in devices : x.device = y.device \/ x.endpoint = y.endpoint => x = y
    /\ deliveries \in [ Devices \X WakeIds ->
                        [claimed : Nat \cup {Never}, delivered : Nat \cup {Never}] ]
    /\ requests \subseteq
         [step : {"arm", "mark"}, revision : Nat, device : {Never}]
         \cup [step : {"arm"}, revision : {Never}, device : Devices]
    /\ republish \in BOOLEAN /\ reregister \subseteq Devices
    /\ timer \in Nat \cup {Never} /\ rerun \in Nat \cup {Never}
    /\ dispatch \in
         [ pc : {"off", "claim", "send", "look", "end"}, round : Nat,
           due : SUBSET [ device : Devices, endpoint : Endpoints, wake : WakeIds,
                          answer : {"none", "sent", "failed", "gone"} ],
           more : BOOLEAN, next : Nat \cup {Never} ]
    /\ {events, faults} \subseteq Nat /\ told \subseteq Devices \X WakeIds
    /\ failedAt \in Nat \cup {Never}

\* A timer set for t serves a delivery that is ready at its time, or overdue.
InTime(t, d, w) == t # Never /\ t <= LaterOf(ReadyAt(d, w), now)

\* The timer is set for it in time, or a delivery is under way that will look for it or
\* was asked to run again; or the browser's registration is about to set the timer, or will
\* be repeated.  The one delay the code accepts is the minute it waits after a store error.
LookedAfter(d, w) ==
    \/ InTime(timer, d, w)
    \/ timer # Never /\ failedAt # Never /\ timer <= failedAt + StoreRetry
    \/ dispatch.pc \in {"claim", "send", "look"}
    \/ dispatch.pc = "end" /\ (InTime(dispatch.next, d, w) \/ InTime(rerun, d, w))
    \/ RegistrationOf(d) \in requests \/ d \in reregister

\* A publish is about to set the timer, or will be repeated.
PublishComes == republish \/ \E r \in requests : Publishes(r) /\ r.step = "arm"

\* No wake is forgotten: while a browser has to be told of one, something is about to look
\* for it; or a publish is, and the store still says that it has to, so that it does when it
\* is a repetition.  However requests, deliveries and failures interleave.
NothingForgotten ==
    \A d \in Devices, w \in WakeIds :
        Owed(d, w) => LookedAfter(d, w) \/ (unscheduled # Never /\ PublishComes)

\* A browser is not told twice of a wake whose delivery was written down:
\* registering anew, a snapshot that drops the wake and brings it back, the
\* hourly pruning and a restart between them do not make it due again.
ToldOnce == \A x \in dispatch.due : <<x.device, x.wake>> \notin told

\* Pruned, or due to be: no snapshot brings such a wake back.
Expired(w) == w \notin wakes /\ FireAt[w] < now - Retain

\* A claim or a delivery is never dated before its wake.
RowsDated ==
    \A d \in Devices, w \in WakeIds :
        LET x == deliveries[<<d, w>>] IN
        /\ x.claimed # Never => FireAt[w] <= x.claimed
        /\ x.delivered # Never => FireAt[w] <= x.delivered

\* A push under way is of a due wake, has its row, and is the only one of its
\* wake to its browser.
PushesClaimed ==
    \A x \in dispatch.due :
        /\ FireAt[x.wake] <= now
        /\ deliveries[<<x.device, x.wake>>].claimed # Never \/ Expired(x.wake)
        /\ \A y \in dispatch.due : y.device = x.device /\ y.wake = x.wake => x = y

\* A delivery that was written is not lost while its wake can come back.
WrittenKept == \A p \in told : deliveries[p].delivered # Never \/ Expired(p[2])

\* The delivery rows say what was claimed and delivered for as long as the wake
\* can come back, whatever snapshots, registrations and pruning do to the rows
\* they refer to.
DeliveriesSound ==
    /\ RowsDated
    /\ dispatch.due # {} => dispatch.pc = "send"
    /\ PushesClaimed
    /\ WrittenKept

\* Every registered browser is told of every due wake, unless the wake is withdrawn or the
\* browser gone: a push or a request that fails, a store error and a restart only delay it.
Delivered ==
    \A d \in Devices, w \in WakeIds :
        (Owed(d, w) /\ FireAt[w] <= now) ~> ~Owed(d, w)

\* wakeDispatch.ts:61: "a push endpoint the push service no longer knows is
\* dropped" - that endpoint, and not one its browser has since replaced it by.
OnlyGoneIsDropped ==
    [][ \A x \in dispatch.due :
          DropGone(x) => \A y \in devices \ devices' : y.endpoint = x.endpoint ]_vars
===============================================================================
