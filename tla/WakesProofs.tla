------------------------------ MODULE WakesProofs ------------------------------
(***************************************************************************)
(* The wake timer for every number of browsers, wakes, limits and delays.  *)
(* No wake is sent again once its delivery was written: with the types and *)
(* with what the delivery rows say of claims, that is inductive.  And no   *)
(* wake is forgotten: that needs, besides, that the requests which are to  *)
(* clear the store's mark are those that armed.                            *)
(***************************************************************************)
EXTENDS Wakes, SetFacts, TLAPS

\* The inductive invariant of the deliveries.
WakeInv ==
    /\ TypeOK /\ IsFiniteSet(devices)
    /\ DeliveriesSound
    /\ ToldOnce

\* Every wake that is owed is looked after, with no publish under way.
AllLooked ==
    \A d \in Devices, w \in WakeIds : Owed(d, w) => LookedAfter(d, w)

\* The publishes under way wrote revisions up to the account's.
RevisionsCurrent ==
    \A r \in requests : Publishes(r) => revision # Never /\ r.revision <= revision

\* A request that can clear the store's mark is one whose arming serves what was marked.
MarkSound ==
    \A r \in requests :
        r.step = "mark" /\ unscheduled # Never /\ unscheduled <= r.revision => AllLooked

-----------------------------------------------------------------------------
(* Times.                                                                   *)

\* Min finds the least of a set of naturals.
LEMMA MinIsLeast ==
    ASSUME NEW T \in SUBSET Nat, T # {}
    PROVE  Min(T) \in T /\ \A y \in T : Min(T) <= y
BY LeastNatural DEF Min

Times == Nat \cup {Never}

\* The earliest of some times is a time, and no later than any that is known.
LEMMA EarliestSound ==
    ASSUME NEW S \in SUBSET Times
    PROVE  /\ Earliest(S) \in Times
           /\ \A t \in S : t # Never => Earliest(S) \in Nat /\ Earliest(S) <= t
<1> DEFINE known == S \ {Never}
<1>1. known \in SUBSET Nat
  BY DEF Times
<1>2. CASE known = {}
  BY <1>2 DEF Earliest, Times
<1>3. CASE known # {}
  <2>1. Earliest(S) = Min(known)
    BY <1>3 DEF Earliest
  <2>2. Min(known) \in known /\ \A y \in known : Min(known) <= y
    BY <1>1, <1>3, MinIsLeast
  <2> QED
    BY <1>1, <2>1, <2>2 DEF Times
<1> QED
  BY <1>2, <1>3

\* A delivery becomes ready at a time of its own.
LEMMA ReadyAtTime ==
    ASSUME TypeOK, NEW d \in Devices, NEW w \in WakeIds
    PROVE  ReadyAt(d, w) \in Nat /\ LaterOf(ReadyAt(d, w), now) \in Nat
<1>1. FireAt[w] \in Nat /\ now \in Nat /\ Lease \in Nat /\ Never \notin Int
  BY WakeAssumption, DelayAssumption, NeverAssumption DEF TypeOK
<1>2. deliveries[<<d, w>>].claimed \in Nat \cup {Never}
  BY DEF TypeOK
<1> QED
  BY <1>1, <1>2 DEF ReadyAt, LaterOf

\* A retry comes a lease or more after the failure, so that the claim it moves
\* is not dated before now.
LEMMA RetryHoldsLease ==
    ASSUME now \in Nat, NEW w \in WakeIds
    PROVE  RetryAt(w) - Lease \in Nat /\ RetryAt(w) - Lease >= now
<1>1. FireAt[w] \in Nat /\ Lease \in Nat /\ MaxRetryDelay \in Nat /\ Lease <= MaxRetryDelay
  BY WakeAssumption, DelayAssumption
<1> QED
  BY <1>1 DEF RetryAt, SmallerOf, LaterOf

-----------------------------------------------------------------------------
(* Types: every variable holds a value of its kind after each step.         *)

\* The device table after a registration: within its limit, one row for a
\* device and for an endpoint.
LEMMA RegisterKeepsLimit ==
    ASSUME TypeOK, IsFiniteSet(devices), NEW d \in Devices, NEW e \in Endpoints, Save(d, e)
    PROVE  /\ devices' \subseteq [device : Devices, endpoint : Endpoints, updated : Nat]
           /\ IsFiniteSet(devices') /\ Cardinality(devices') <= MaxDevices
           /\ \A x, y \in devices' : x.device = y.device \/ x.endpoint = y.endpoint => x = y
<1> DEFINE others == { x \in devices : x.endpoint # e \/ x.device = d }
           added == [device |-> d, endpoint |-> e, updated |-> now]
           Row == [device : Devices, endpoint : Endpoints, updated : Nat]
<1>1. MaxDevices \in Nat \ {0} /\ devices \subseteq Row /\ added \in Row
  BY LimitAssumption DEF TypeOK
<1>2. PICK rest \in SUBSET { x \in others : x.device # d } :
         /\ devices' = rest \cup {added}
         /\ Cardinality(rest) + 1 <= MaxDevices
  <2>1. CASE d \in Registered
    <3> DEFINE rest == { x \in others : x.device # d }
    <3>1. PICK x \in devices : x.device = d
      BY <2>1 DEF Registered
    <3>2. Cardinality(devices) \in Nat /\ Cardinality(devices \ {x}) = Cardinality(devices) - 1
      BY <3>1, FS_RemoveElement, FS_CardinalityType
    <3>3. IsFiniteSet(devices \ {x}) /\ rest \in SUBSET (devices \ {x})
      BY <3>1, FS_RemoveElement
    <3>4. Cardinality(rest) <= Cardinality(devices \ {x}) /\ Cardinality(rest) \in Nat
      BY <3>3, FS_Subset, FS_CardinalityType
    <3>5. Cardinality(rest) + 1 <= MaxDevices
      BY <1>1, <3>2, <3>4 DEF TypeOK
    <3>6. devices' = rest \cup {added}
      BY <2>1 DEF Save
    <3> QED
      BY <3>5, <3>6
  <2>2. CASE d \notin Registered
    <3> DEFINE n == LaterOf(0, Cardinality(others) + 1 - MaxDevices)
    <3>1. \E r \in WithRoomFor(others, d) : devices' = r \cup {added}
      BY <2>2 DEF Save
    <3>2. PICK gone \in SUBSET others :
             /\ Cardinality(gone) = SmallerOf(n, Cardinality(others))
             /\ devices' = (others \ gone) \cup {added}
      BY <3>1 DEF WithRoomFor, Foremost
    <3>3. IsFiniteSet(others) /\ Cardinality(others) \in Nat
      BY FS_Subset, FS_CardinalityType
    <3>4. others \cap gone = gone
      OBVIOUS
    <3>5. Cardinality(others \ gone) = Cardinality(others) - Cardinality(gone)
      BY <3>3, <3>4, FS_Difference
    <3>6. Cardinality(others \ gone) + 1 <= MaxDevices
      <4> HIDE DEF others
      <4> QED
        BY <1>1, <3>2, <3>3, <3>5 DEF SmallerOf, LaterOf
    <3>7. others \ gone \in SUBSET { x \in others : x.device # d }
      BY <2>2 DEF Registered
    <3> QED
      BY <3>2, <3>6, <3>7
  <2> QED
    BY <2>1, <2>2
<1>3. IsFiniteSet(rest) /\ rest \subseteq devices
  BY <1>2, FS_Subset
<1>4. Cardinality(rest) \in Nat
  BY <1>3, FS_CardinalityType
<1>5. IsFiniteSet(devices') /\ Cardinality(devices') <= MaxDevices
  <2> HIDE DEF added
  <2>1. /\ IsFiniteSet(rest \cup {added})
        /\ Cardinality(rest \cup {added}) <= Cardinality(rest) + 1
    <3>1. IsFiniteSet(rest)
      BY <1>3
    <3> QED
      BY <1>4, <3>1, FS_AddElement
  <2>2. Cardinality(rest \cup {added}) \in Nat
    BY <2>1, FS_CardinalityType
  <2> QED
    BY <1>1, <1>2, <1>4, <2>1, <2>2
<1>6. \A x, y \in devices' : x.device = y.device \/ x.endpoint = y.endpoint => x = y
  BY <1>2, <1>3 DEF TypeOK
<1>7. devices' \subseteq Row
  BY <1>1, <1>2, <1>3
<1> QED
  BY <1>5, <1>6, <1>7

\* Fewer devices are within the limit too.
LEMMA FewerDevices ==
    ASSUME TypeOK, IsFiniteSet(devices), NEW D \in SUBSET devices, devices' = D
    PROVE  /\ devices' \subseteq [device : Devices, endpoint : Endpoints, updated : Nat]
           /\ IsFiniteSet(devices') /\ Cardinality(devices') <= MaxDevices
           /\ \A x, y \in devices' : x.device = y.device \/ x.endpoint = y.endpoint => x = y
<1>1. MaxDevices \in Nat /\ Cardinality(devices) \in Nat
  BY LimitAssumption, FS_CardinalityType
<1>2. IsFiniteSet(D) /\ Cardinality(D) <= Cardinality(devices) /\ Cardinality(D) \in Nat
  BY FS_Subset, FS_CardinalityType
<1> QED
  BY <1>1, <1>2 DEF TypeOK

\* Claimed deliveries are dated now, the others stay as they are.
LEMMA ClaimTyped ==
    ASSUME TypeOK, Claim
    PROVE  TypeOK'
<1>1. PICK taken \in Foremost(Due, Share, [x \in Due |-> FireAt[x[2]]]) :
         /\ deliveries' = [ p \in DOMAIN deliveries |->
              IF \E x \in taken : p = <<x[1].device, x[2]>>
              THEN [claimed |-> now, delivered |-> Never] ELSE deliveries[p] ]
         /\ dispatch' = [dispatch EXCEPT
              !.pc = "send",
              !.due = { [ device |-> x[1].device, endpoint |-> x[1].endpoint, wake |-> x[2],
                          answer |-> "none" ] : x \in taken },
              !.more = Cardinality(taken) = Share]
  BY DEF Claim
<1>2. taken \subseteq devices \X wakes
  BY DEF Foremost, Due, Open
<1>3. deliveries' \in [ Devices \X WakeIds ->
                        [claimed : Nat \cup {Never}, delivered : Nat \cup {Never}] ]
  <2>1. [claimed |-> now, delivered |-> Never] \in
          [claimed : Nat \cup {Never}, delivered : Nat \cup {Never}]
    BY DEF TypeOK
  <2> QED
    BY <1>1, <2>1 DEF TypeOK
<1>4. { [ device |-> x[1].device, endpoint |-> x[1].endpoint, wake |-> x[2],
          answer |-> "none" ] : x \in taken } \subseteq
        [ device : Devices, endpoint : Endpoints, wake : WakeIds,
          answer : {"none", "sent", "failed", "gone"} ]
  BY <1>2 DEF TypeOK
<1>5. dispatch' \in [ pc : {"off", "claim", "send", "look", "end"}, round : Nat,
                      due : SUBSET [ device : Devices, endpoint : Endpoints, wake : WakeIds,
                                     answer : {"none", "sent", "failed", "gone"} ],
                      more : BOOLEAN, next : Nat \cup {Never} ]
  BY <1>1, <1>4 DEF TypeOK
<1> QED
  BY <1>3, <1>5 DEF Claim, retries, TypeOK

LEMMA IdleTyped ==
    Idle \in [ pc : {"off", "claim", "send", "look", "end"}, round : Nat,
               due : SUBSET [ device : Devices, endpoint : Endpoints, wake : WakeIds,
                              answer : {"none", "sent", "failed", "gone"} ],
               more : BOOLEAN, next : Nat \cup {Never} ]
BY DEF Idle

\* The timer that follows a delivery is a time.
LEMMA FollowOnTyped ==
    ASSUME TypeOK, NEW next \in Times, FollowOn(next)
    PROVE  timer' \in Times /\ rerun' \in Times /\ dispatch' = Idle
<1>1. {timer, next, rerun} \in SUBSET Times
  BY DEF TypeOK, Times
<1> QED
  BY <1>1, EarliestSound DEF FollowOn, Times

\* What the dispatch returns is a time.
LEMMA NextWakeTyped ==
    ASSUME TypeOK
    PROVE  /\ { LaterOf(ReadyAt(x[1].device, x[2]), now) : x \in Open } \in SUBSET Nat
           /\ NextWakeAt \in Times
<1>1. \A x \in Open : LaterOf(ReadyAt(x[1].device, x[2]), now) \in Nat
  <2> TAKE x \in Open
  <2>1. x[1].device \in Devices /\ x[2] \in WakeIds
    BY DEF Open, TypeOK
  <2> QED
    BY <2>1, ReadyAtTime
<1> QED
  BY <1>1, EarliestSound DEF NextWakeAt, Times

RequestType ==
    [step : {"arm", "mark"}, revision : Nat, device : {Never}]
    \cup [step : {"arm"}, revision : {Never}, device : Devices]

\* A publish has a revision, a registration has none.
LEMMA RequestKinds ==
    ASSUME TypeOK
    PROVE  /\ \A r \in requests :
                /\ Publishes(r) => r.revision \in Nat /\ r = PublishAt(r.step, r.revision)
                /\ ~ Publishes(r) => r.device \in Devices /\ r.step = "arm"
           /\ \A rev \in Nat : /\ PublishAt("arm", rev) \in RequestType
                              /\ PublishAt("mark", rev) \in RequestType
                              /\ Publishes(PublishAt("arm", rev))
           /\ \A d \in Devices : /\ RegistrationOf(d) \in RequestType
                                 /\ ~ Publishes(RegistrationOf(d))
<1>1. Never \notin Nat
  BY NeverAssumption
<1>2. \A r \in requests : r \in RequestType
  BY DEF TypeOK, RequestType
<1>3. ASSUME NEW r \in RequestType
      PROVE  /\ Publishes(r) => r.revision \in Nat /\ r = PublishAt(r.step, r.revision)
             /\ ~ Publishes(r) => r.device \in Devices /\ r.step = "arm"
  BY <1>1 DEF RequestType, Publishes, PublishAt
<1> QED
  BY <1>1, <1>2, <1>3 DEF RequestType, Publishes, PublishAt, RegistrationOf

\* The devices that ask again are devices.
LEMMA AskAgainTyped ==
    ASSUME TypeOK, NEW ended \in SUBSET requests, AskAgain(ended)
    PROVE  republish' \in BOOLEAN /\ reregister' \subseteq Devices
<1>1. \A r \in ended : ~ Publishes(r) => r.device \in Devices
  BY RequestKinds
<1>2. reregister' = reregister \cup { r.device : r \in { q \in ended : ~ Publishes(q) } }
  BY DEF AskAgain
<1>3. republish' \in BOOLEAN
  BY DEF AskAgain, TypeOK
<1> QED
  BY <1>1, <1>2, <1>3 DEF TypeOK

LEMMA TypeInit == Init => TypeOK /\ IsFiniteSet(devices)
<1> SUFFICES ASSUME Init PROVE TypeOK /\ IsFiniteSet(devices)
  OBVIOUS
<1>1. PICK account \in Accounts :
         wakes = account.wakes /\ revision = account.revision /\ devices = account.devices
  BY DEF Init
<1>2. /\ wakes \subseteq WakeIds /\ revision \in Nat \cup {Never}
      /\ devices \subseteq [device : Devices, endpoint : Endpoints, updated : Nat]
      /\ IsFiniteSet(devices) /\ Cardinality(devices) <= MaxDevices
      /\ \A x, y \in devices : x.device = y.device \/ x.endpoint = y.endpoint => x = y
  BY <1>1, AccountAssumption
<1>3. deliveries \in [ Devices \X WakeIds ->
                       [claimed : Nat \cup {Never}, delivered : Nat \cup {Never}] ]
  BY DEF Init, NoDelivery
<1>4. /\ now = 0 /\ unscheduled = Never /\ requests = {} /\ reregister = {} /\ timer = now
      /\ rerun = Never /\ dispatch = Idle /\ events = 0 /\ faults = 0 /\ told = {} /\ failedAt = Never
  BY DEF Init
<1>5. republish \in BOOLEAN
  BY DEF Init
<1> QED
  BY <1>2, <1>3, <1>4, <1>5, IdleTyped DEF TypeOK

\* Types survive every step.
LEMMA TypeNext ==
    ASSUME TypeOK, IsFiniteSet(devices), [Next]_vars
    PROVE  TypeOK' /\ IsFiniteSet(devices')
<1>1. ASSUME NEW snapshot \in Snapshots, NEW rev \in 0 .. MaxRevision, Replace(snapshot, rev),
             events' \in Nat, republish' \in BOOLEAN
      PROVE  TypeOK' /\ IsFiniteSet(devices')
  <2>1. rev \in Nat /\ snapshot \subseteq WakeIds
    BY <1>1, WakeBoundAssumption, WakeAssumption
  <2>2. requests' \subseteq RequestType
    BY <1>1, <2>1, RequestKinds DEF Replace, RequestType, TypeOK
  <2>3. wakes' \subseteq WakeIds /\ revision' \in Nat /\ unscheduled' \in Nat \cup {Never}
    BY <1>1, <2>1 DEF Replace, TypeOK
  <2> QED
    BY <1>1, <2>2, <2>3 DEF Replace, RequestType, TypeOK
<1>2. ASSUME NEW d \in Devices, NEW e \in Endpoints, Save(d, e),
             events' \in Nat, reregister' \subseteq Devices
      PROVE  TypeOK' /\ IsFiniteSet(devices')
  <2>1. requests' \subseteq RequestType
    BY <1>2, RequestKinds DEF Save, RequestType, TypeOK
  <2>2. /\ devices' \subseteq [device : Devices, endpoint : Endpoints, updated : Nat]
        /\ IsFiniteSet(devices') /\ Cardinality(devices') <= MaxDevices
        /\ \A x, y \in devices' : x.device = y.device \/ x.endpoint = y.endpoint => x = y
    BY <1>2, RegisterKeepsLimit
  <2> QED
    BY <1>2, <2>1, <2>2 DEF Save, RequestType, TypeOK
<1>3. ASSUME NEW d \in Devices, Unregister(d)
      PROVE  TypeOK' /\ IsFiniteSet(devices')
  <2>1. devices' \in SUBSET devices
    BY <1>3 DEF Unregister
  <2>2. /\ devices' \subseteq [device : Devices, endpoint : Endpoints, updated : Nat]
        /\ IsFiniteSet(devices') /\ Cardinality(devices') <= MaxDevices
        /\ \A x, y \in devices' : x.device = y.device \/ x.endpoint = y.endpoint => x = y
    BY <2>1, FewerDevices
  <2> QED
    BY <1>3, <2>2 DEF Unregister, Event, TypeOK
<1>4. ASSUME NEW ceiling \in 0 .. MaxRevision, Discard(ceiling)
      PROVE  TypeOK' /\ IsFiniteSet(devices')
  BY <1>4 DEF Discard, Event, retries, TypeOK
<1>5. ASSUME Prune
      PROVE  TypeOK' /\ IsFiniteSet(devices')
  <2>1. deliveries' \in [ Devices \X WakeIds ->
                          [claimed : Nat \cup {Never}, delivered : Nat \cup {Never}] ]
    BY <1>5 DEF Prune, NoDelivery, TypeOK
  <2> QED
    BY <1>5, <2>1 DEF Prune, retries, TypeOK
<1>6. ASSUME Fire
      PROVE  TypeOK' /\ IsFiniteSet(devices')
  BY <1>6, IdleTyped DEF Fire, store, retries, TypeOK
<1>7. ASSUME Claim
      PROVE  TypeOK' /\ IsFiniteSet(devices')
  BY <1>7, ClaimTyped DEF Claim
<1>8. ASSUME RoundDone
      PROVE  TypeOK' /\ IsFiniteSet(devices')
  <2>1. \E pc \in {"claim", "look"} :
           dispatch' = [dispatch EXCEPT !.round = dispatch.round + 1, !.pc = pc]
    BY <1>8 DEF RoundDone
  <2>2. dispatch.round + 1 \in Nat
    BY DEF TypeOK
  <2>3. dispatch' \in [ pc : {"off", "claim", "send", "look", "end"}, round : Nat,
                        due : SUBSET [ device : Devices, endpoint : Endpoints, wake : WakeIds,
                                       answer : {"none", "sent", "failed", "gone"} ],
                        more : BOOLEAN, next : Nat \cup {Never} ]
    BY <2>1, <2>2 DEF TypeOK
  <2> QED
    BY <1>8, <2>3 DEF RoundDone, store, retries, TypeOK
<1>9. ASSUME Look
      PROVE  TypeOK' /\ IsFiniteSet(devices')
  <2>1. {NextWakeAt, IF dispatch.more THEN now ELSE Never} \in SUBSET Times
    BY NextWakeTyped DEF TypeOK, Times
  <2>2. dispatch'.next \in Times
    BY <1>9, <2>1, EarliestSound DEF Look, TypeOK
  <2> QED
    BY <1>9, <2>2 DEF Look, store, retries, TypeOK, Times
<1>10. ASSUME Finish
       PROVE  TypeOK' /\ IsFiniteSet(devices')
  <2>1. dispatch.next \in Times
    BY DEF TypeOK, Times
  <2>2. timer' \in Times /\ rerun' \in Times /\ dispatch' = Idle
    BY <1>10, <2>1, FollowOnTyped DEF Finish
  <2> QED
    BY <1>10, <2>2, IdleTyped DEF Finish, store, retries, TypeOK, Times
<1>11. ASSUME StoreFails
       PROVE  TypeOK' /\ IsFiniteSet(devices')
  <2>1. now + StoreRetry \in Times
    BY DelayAssumption DEF TypeOK, Times
  <2>2. timer' \in Times /\ rerun' \in Times /\ dispatch' = Idle
    BY <1>11, <2>1, FollowOnTyped DEF StoreFails
  <2> QED
    BY <1>11, <2>2, IdleTyped DEF StoreFails, Fault, store, retries, TypeOK, Times
<1>12. ASSUME Restart
       PROVE  TypeOK' /\ IsFiniteSet(devices')
  <2>1. republish' \in BOOLEAN /\ reregister' \subseteq Devices
    BY <1>12, AskAgainTyped DEF Restart
  <2> QED
    BY <1>12, <2>1, IdleTyped DEF Restart, Fault, store, retries, TypeOK
<1>13. ASSUME Tick
       PROVE  TypeOK' /\ IsFiniteSet(devices')
  BY <1>13 DEF Tick, store, retries, TypeOK
<1>14. ASSUME NEW r \in requests, Arm(r)
       PROVE  TypeOK' /\ IsFiniteSet(devices')
  <2>1. {timer, now} \in SUBSET Times /\ {rerun, now} \in SUBSET Times
    BY DEF TypeOK, Times
  <2>2. timer' \in Times /\ rerun' \in Times
    BY <1>14, <2>1, EarliestSound DEF Arm, ArmNow
  <2>3. Publishes(r) => PublishAt("mark", r.revision) \in RequestType
    BY <1>14, RequestKinds
  <2>4. requests' \subseteq RequestType
    BY <1>14, <2>3 DEF Arm, RequestType, TypeOK
  <2> QED
    BY <1>14, <2>2, <2>4 DEF Arm, store, retries, RequestType, TypeOK, Times
<1>15. ASSUME NEW r \in requests, MarkScheduled(r)
       PROVE  TypeOK' /\ IsFiniteSet(devices')
  BY <1>15 DEF MarkScheduled, retries, TypeOK
<1>16. ASSUME NEW x \in dispatch.due, NEW answer \in {"sent", "failed", "gone"}, Answer(x, answer)
       PROVE  TypeOK' /\ IsFiniteSet(devices')
  BY <1>16 DEF Answer, store, retries, TypeOK
<1>17. ASSUME NEW x \in dispatch.due, MarkDelivered(x)
       PROVE  TypeOK' /\ IsFiniteSet(devices')
  <2>1. <<x.device, x.wake>> \in Devices \X WakeIds
    BY DEF TypeOK
  <2>2. deliveries' \in [ Devices \X WakeIds ->
                          [claimed : Nat \cup {Never}, delivered : Nat \cup {Never}] ]
    BY <1>17, <2>1 DEF MarkDelivered, TypeOK
  <2> QED
    BY <1>17, <2>1, <2>2 DEF MarkDelivered, SettledSend, retries, TypeOK
<1>18. ASSUME NEW x \in dispatch.due, Defer(x)
       PROVE  TypeOK' /\ IsFiniteSet(devices')
  <2>1. x.wake \in WakeIds
    BY DEF TypeOK
  <2>2. RetryAt(x.wake) - Lease \in Nat
    BY <2>1, RetryHoldsLease DEF TypeOK
  <2>3. deliveries' \in [ Devices \X WakeIds ->
                          [claimed : Nat \cup {Never}, delivered : Nat \cup {Never}] ]
    BY <1>18, <2>2 DEF Defer, TypeOK
  <2> QED
    BY <1>18, <2>3 DEF Defer, SettledSend, retries, TypeOK
<1>19. ASSUME NEW x \in dispatch.due, DropGone(x)
       PROVE  TypeOK' /\ IsFiniteSet(devices')
  <2>1. devices' \in SUBSET devices
    BY <1>19 DEF DropGone
  <2> QED
    BY <1>19, <2>1, FewerDevices DEF DropGone, SettledSend, retries, TypeOK
<1>20. ASSUME NEW r \in requests, RequestFails(r)
       PROVE  TypeOK' /\ IsFiniteSet(devices')
  <2>1. {r} \in SUBSET requests
    BY <1>20
  <2>2. republish' \in BOOLEAN /\ reregister' \subseteq Devices
    BY <1>20, <2>1, AskAgainTyped DEF RequestFails
  <2> QED
    BY <1>20, <2>2 DEF RequestFails, Fault, store, retries, TypeOK
<1>21. ASSUME UNCHANGED vars
       PROVE  TypeOK' /\ IsFiniteSet(devices')
  BY <1>21 DEF vars, store, retries, TypeOK
<1>22. ASSUME NEW snapshot \in Snapshots, NEW rev \in 0 .. MaxRevision,
              Publish(snapshot, rev) \/ PublishAgain(snapshot, rev)
       PROVE  TypeOK' /\ IsFiniteSet(devices')
  <2>1. events \in Nat /\ events + 1 \in Nat /\ republish \in BOOLEAN
    BY DEF TypeOK
  <2>2. Replace(snapshot, rev) /\ events' \in Nat /\ republish' \in BOOLEAN
    BY <1>22, <2>1 DEF Publish, PublishAgain, Event
  <2> QED
    BY <1>1, <2>2
<1>23. ASSUME NEW d \in Devices, NEW e \in Endpoints, Register(d, e) \/ RegisterAgain(d, e)
       PROVE  TypeOK' /\ IsFiniteSet(devices')
  <2>1. events \in Nat /\ events + 1 \in Nat /\ reregister \subseteq Devices
    BY DEF TypeOK
  <2>2. Save(d, e) /\ events' \in Nat /\ reregister' \subseteq Devices
    BY <1>23, <2>1 DEF Register, RegisterAgain, Event
  <2> QED
    BY <1>2, <2>2
<1> QED
  BY <1>3, <1>4, <1>5, <1>6, <1>7, <1>8, <1>9, <1>10, <1>11, <1>12, <1>13, <1>14,
     <1>15, <1>16, <1>17, <1>18, <1>19, <1>20, <1>21, <1>22, <1>23
     DEF Next, Deliver, Served, Retried, Answered

-----------------------------------------------------------------------------
(* Deliveries: what was claimed and written is not forgotten.               *)

\* A wake that can no longer come back stays so: a snapshot adds younger ones.
LEMMA ExpiredStays ==
    ASSUME now \in Nat, now' \in Nat, now <= now',
           \A w \in wakes' : w \in wakes \/ FireAt[w] > now - Retain,
           NEW w \in WakeIds, Expired(w)
    PROVE  Expired(w)'
<1>1. FireAt[w] \in Nat /\ Retain \in Nat
  BY WakeAssumption, DelayAssumption
<1> QED
  BY <1>1 DEF Expired

\* A step that writes no row and starts no push keeps what the rows say.
LEMMA RowsUntouched ==
    ASSUME TypeOK, DeliveriesSound, ToldOnce,
           UNCHANGED <<deliveries, told>>, now' \in Nat, now <= now',
           \A w \in wakes' : w \in wakes \/ FireAt[w] > now - Retain,
           dispatch'.due \subseteq dispatch.due,
           dispatch'.due # {} => dispatch'.pc = "send"
    PROVE  DeliveriesSound' /\ ToldOnce'
<1>1. now \in Nat /\ told \subseteq Devices \X WakeIds
  BY DEF TypeOK
<1>2. \A x \in dispatch.due : x.wake \in WakeIds /\ FireAt[x.wake] \in Nat
  BY WakeAssumption DEF TypeOK
<1>3. RowsDated'
  BY DEF DeliveriesSound, RowsDated
<1>4. \A w \in WakeIds : Expired(w) => Expired(w)'
  BY <1>1, ExpiredStays
<1>5. PushesClaimed'
  <2> SUFFICES ASSUME NEW x \in dispatch'.due
               PROVE  /\ FireAt[x.wake] <= now'
                      /\ deliveries[<<x.device, x.wake>>].claimed # Never \/ Expired(x.wake)'
                      /\ \A y \in dispatch'.due : y.device = x.device /\ y.wake = x.wake => x = y
    BY DEF PushesClaimed
  <2>1. x \in dispatch.due
    OBVIOUS
  <2>2. /\ FireAt[x.wake] <= now
        /\ deliveries[<<x.device, x.wake>>].claimed # Never \/ Expired(x.wake)
        /\ \A y \in dispatch.due : y.device = x.device /\ y.wake = x.wake => x = y
    BY <2>1 DEF DeliveriesSound, PushesClaimed
  <2>3. Expired(x.wake) => Expired(x.wake)'
    BY <1>2, <1>4, <2>1
  <2>4. FireAt[x.wake] <= now'
    BY <1>1, <1>2, <2>1, <2>2
  <2> QED
    BY <2>2, <2>3, <2>4
<1>6. WrittenKept'
  BY <1>1, <1>4 DEF DeliveriesSound, WrittenKept
<1>7. ToldOnce'
  BY DEF ToldOnce
<1> QED
  BY <1>3, <1>5, <1>6, <1>7 DEF DeliveriesSound

\* Pruning takes the rows of wakes that are past their time by the retention,
\* and these wakes with them.
LEMMA PruneSound ==
    ASSUME TypeOK, DeliveriesSound, ToldOnce, Prune
    PROVE  DeliveriesSound' /\ ToldOnce'
<1>1. now \in Nat /\ Retain \in Nat /\ told \subseteq Devices \X WakeIds /\ Never \notin Int
  BY DelayAssumption, NeverAssumption DEF TypeOK
<1>2. \A x \in dispatch.due : x.wake \in WakeIds /\ x.device \in Devices
  BY DEF TypeOK
<1>3. \A w \in WakeIds : Expired(w) => Expired(w)'
  BY DEF Prune, Expired
<1>4. ASSUME NEW d \in Devices, NEW w \in WakeIds
      PROVE  \/ deliveries'[<<d, w>>] = deliveries[<<d, w>>]
             \/ deliveries'[<<d, w>>] = NoDelivery /\ Expired(w)'
  <2> DEFINE x == deliveries[<<d, w>>]
  <2>1. FireAt[w] \in Nat /\ x.claimed \in Nat \cup {Never} /\ x.delivered \in Nat \cup {Never}
    BY WakeAssumption DEF TypeOK
  <2>2. /\ x.claimed # Never => FireAt[w] <= x.claimed
        /\ x.delivered # Never => FireAt[w] <= x.delivered
    BY DEF DeliveriesSound, RowsDated
  <2>3. deliveries'[<<d, w>>] = IF Outlived(x, now - Retain) THEN NoDelivery ELSE x
    BY DEF Prune, TypeOK
  <2>4. ASSUME Outlived(x, now - Retain)
        PROVE  Expired(w)'
    <3>1. FireAt[w] < now - Retain
      BY <1>1, <2>1, <2>2, <2>4 DEF Outlived
    <3> QED
      BY <1>1, <2>1, <3>1 DEF Prune, Expired
  <2> QED
    BY <2>3, <2>4
<1>5. RowsDated'
  <2> SUFFICES ASSUME NEW d \in Devices, NEW w \in WakeIds
               PROVE  LET x == deliveries'[<<d, w>>] IN
                      /\ x.claimed # Never => FireAt[w] <= x.claimed
                      /\ x.delivered # Never => FireAt[w] <= x.delivered
    BY DEF RowsDated
  <2>1. CASE deliveries'[<<d, w>>] = deliveries[<<d, w>>]
    BY <2>1 DEF DeliveriesSound, RowsDated
  <2>2. CASE deliveries'[<<d, w>>] = NoDelivery
    BY <2>2 DEF NoDelivery
  <2> QED
    BY <1>4, <2>1, <2>2
<1>6. PushesClaimed'
  <2>1. UNCHANGED <<now, dispatch>>
    BY DEF Prune
  <2> QED
    BY <1>2, <1>3, <1>4, <2>1 DEF DeliveriesSound, PushesClaimed
<1>7. WrittenKept'
  <2>1. UNCHANGED told
    BY DEF Prune
  <2>2. \A p \in told : p = <<p[1], p[2]>> /\ p[1] \in Devices /\ p[2] \in WakeIds
    BY <1>1
  <2>3. \A p \in told : \/ deliveries'[p] = deliveries[p]
                        \/ Expired(p[2])'
    BY <1>4, <2>2
  <2> QED
    BY <1>3, <2>1, <2>2, <2>3 DEF DeliveriesSound, WrittenKept
<1>8. ToldOnce' /\ UNCHANGED dispatch
  BY DEF ToldOnce, Prune
<1> QED
  BY <1>5, <1>6, <1>7, <1>8 DEF DeliveriesSound

\* A claim takes what no browser was told of.
LEMMA ClaimSound ==
    ASSUME TypeOK, DeliveriesSound, ToldOnce, Claim
    PROVE  DeliveriesSound' /\ ToldOnce'
<1> DEFINE Push(x) == [device |-> x[1].device, endpoint |-> x[1].endpoint, wake |-> x[2],
                       answer |-> "none"]
<1>1. PICK taken \in SUBSET Due :
         /\ deliveries' = [ p \in DOMAIN deliveries |->
              IF \E x \in taken : p = <<x[1].device, x[2]>>
              THEN [claimed |-> now, delivered |-> Never] ELSE deliveries[p] ]
         /\ dispatch'.due = { Push(x) : x \in taken } /\ dispatch'.pc = "send"
  BY DEF Claim, Foremost, TypeOK
<1>2. UNCHANGED <<now, wakes, told>>
  BY DEF Claim
<1>3. now \in Nat /\ told \subseteq Devices \X WakeIds /\ Never \notin Int
  BY NeverAssumption DEF TypeOK
<1>4. ASSUME NEW x \in taken
      PROVE  /\ x \in devices \X wakes
             /\ x[1].device \in Devices /\ x[2] \in WakeIds
             /\ FireAt[x[2]] \in Nat /\ FireAt[x[2]] <= now
             /\ <<x[1].device, x[2]>> \notin told
  <2>1. /\ x \in devices \X wakes /\ Owed(x[1].device, x[2])
        /\ ReadyAt(x[1].device, x[2]) <= now
    BY DEF Due, Open
  <2>2. x[1].device \in Devices /\ x[2] \in WakeIds
    BY <2>1 DEF TypeOK
  <2>3. FireAt[x[2]] \in Nat /\ Lease \in Nat
    BY <2>2, WakeAssumption, DelayAssumption
  <2>4. deliveries[<<x[1].device, x[2]>>].claimed \in Nat \cup {Never}
    BY <2>2 DEF TypeOK
  <2>5. FireAt[x[2]] <= now
    BY <1>3, <2>1, <2>3, <2>4 DEF ReadyAt, LaterOf
  <2>6. <<x[1].device, x[2]>> \notin told
    BY <2>1 DEF Owed, Undelivered, DeliveriesSound, WrittenKept, Expired
  <2> QED
    BY <2>1, <2>2, <2>3, <2>5, <2>6
<1>5. ASSUME NEW d \in Devices, NEW w \in WakeIds
      PROVE  deliveries'[<<d, w>>] = IF \E x \in taken : <<d, w>> = <<x[1].device, x[2]>>
                                     THEN [claimed |-> now, delivered |-> Never]
                                     ELSE deliveries[<<d, w>>]
  BY <1>1 DEF TypeOK
<1>6. RowsDated'
  <2> SUFFICES ASSUME NEW d \in Devices, NEW w \in WakeIds
               PROVE  LET x == deliveries'[<<d, w>>] IN
                      /\ x.claimed # Never => FireAt[w] <= x.claimed
                      /\ x.delivered # Never => FireAt[w] <= x.delivered
    BY DEF RowsDated
  <2>1. CASE \E x \in taken : <<d, w>> = <<x[1].device, x[2]>>
    BY <1>4, <1>5, <2>1
  <2>2. CASE ~ \E x \in taken : <<d, w>> = <<x[1].device, x[2]>>
    BY <1>5, <2>2 DEF DeliveriesSound, RowsDated
  <2> QED
    BY <2>1, <2>2
<1>7. PushesClaimed'
  <2> SUFFICES ASSUME NEW a \in dispatch'.due
               PROVE  /\ FireAt[a.wake] <= now
                      /\ deliveries'[<<a.device, a.wake>>].claimed # Never
                      /\ \A b \in dispatch'.due :
                           b.device = a.device /\ b.wake = a.wake => a = b
    BY <1>2 DEF PushesClaimed
  <2>1. PICK x \in taken : a = Push(x)
    BY <1>1
  <2>2. a.device = x[1].device /\ a.endpoint = x[1].endpoint /\ a.wake = x[2]
    BY <2>1
  <2>3. deliveries'[<<a.device, a.wake>>] = [claimed |-> now, delivered |-> Never]
    BY <1>4, <1>5, <2>2
  <2>4. ASSUME NEW b \in dispatch'.due, b.device = a.device, b.wake = a.wake
        PROVE  a = b
    <3>1. PICK y \in taken : b = Push(y)
      BY <1>1
    <3>2. x[1] \in devices /\ y[1] \in devices /\ x[1].device = y[1].device
      BY <1>4, <2>2, <2>4, <3>1
    <3>3. x[1] = y[1]
      BY <3>2 DEF TypeOK
    <3> QED
      BY <2>1, <2>2, <2>4, <3>1, <3>3
  <2> QED
    BY <1>3, <1>4, <2>2, <2>3, <2>4
<1>8. WrittenKept'
  <2> SUFFICES ASSUME NEW p \in told
               PROVE  deliveries'[p].delivered # Never \/ Expired(p[2])'
    BY <1>2 DEF WrittenKept
  <2>1. p = <<p[1], p[2]>> /\ p[1] \in Devices /\ p[2] \in WakeIds
    BY <1>3
  <2>2. ~ \E x \in taken : p = <<x[1].device, x[2]>>
    BY <1>4
  <2>3. deliveries'[p] = deliveries[p]
    BY <1>5, <2>1, <2>2
  <2> QED
    BY <1>2, <2>3 DEF DeliveriesSound, WrittenKept, Expired
<1>9. ToldOnce'
  <2> SUFFICES ASSUME NEW a \in dispatch'.due
               PROVE  <<a.device, a.wake>> \notin told
    BY <1>2 DEF ToldOnce
  <2>1. PICK x \in taken : a = Push(x)
    BY <1>1
  <2> QED
    BY <1>4, <2>1
<1> QED
  BY <1>1, <1>6, <1>7, <1>8, <1>9 DEF DeliveriesSound

\* An answer changes nothing but what is known of its push.
LEMMA AnswerSound ==
    ASSUME TypeOK, DeliveriesSound, ToldOnce,
           NEW x \in dispatch.due, NEW answer, Answer(x, answer)
    PROVE  DeliveriesSound' /\ ToldOnce'
<1> DEFINE z == [x EXCEPT !.answer = answer]
<1>1. /\ UNCHANGED <<now, wakes, deliveries, told>>
      /\ dispatch'.due = (dispatch.due \ {x}) \cup {z} /\ dispatch'.pc = dispatch.pc
  BY DEF Answer, store, TypeOK
<1>2. z.device = x.device /\ z.wake = x.wake
  BY DEF TypeOK
<1> HIDE DEF z
<1>3. \A a \in dispatch'.due : \E b \in dispatch.due :
         /\ a.device = b.device /\ a.wake = b.wake
         /\ a # z => a = b /\ b # x
         /\ a = z => b = x
  BY <1>1, <1>2
<1>4. RowsDated' /\ WrittenKept'
  BY <1>1 DEF DeliveriesSound, RowsDated, WrittenKept, Expired
<1>5. PushesClaimed'
  <2> SUFFICES ASSUME NEW a \in dispatch'.due
               PROVE  /\ FireAt[a.wake] <= now
                      /\ deliveries[<<a.device, a.wake>>].claimed # Never \/ Expired(a.wake)
                      /\ \A c \in dispatch'.due :
                           c.device = a.device /\ c.wake = a.wake => a = c
    BY <1>1 DEF PushesClaimed, Expired
  <2>1. PICK b \in dispatch.due : /\ a.device = b.device /\ a.wake = b.wake
                                  /\ a # z => a = b /\ b # x
                                  /\ a = z => b = x
    BY <1>3
  <2>2. /\ FireAt[b.wake] <= now
        /\ deliveries[<<b.device, b.wake>>].claimed # Never \/ Expired(b.wake)
        /\ \A c \in dispatch.due : c.device = b.device /\ c.wake = b.wake => b = c
    BY DEF DeliveriesSound, PushesClaimed
  <2>3. ASSUME NEW c \in dispatch'.due, c.device = a.device, c.wake = a.wake
        PROVE  a = c
    <3>1. PICK e \in dispatch.due : /\ c.device = e.device /\ c.wake = e.wake
                                    /\ c # z => c = e /\ e # x
                                    /\ c = z => e = x
      BY <1>3
    <3>2. e.device = b.device /\ e.wake = b.wake
      BY <2>1, <2>3, <3>1
    <3>3. b = e
      BY <2>2, <3>2
    <3> QED
      BY <2>1, <3>1, <3>3
  <2>4. /\ FireAt[a.wake] <= now
        /\ deliveries[<<a.device, a.wake>>].claimed # Never \/ Expired(a.wake)
    BY <2>1, <2>2
  <2> QED
    BY <2>3, <2>4
<1>6. ToldOnce'
  <2> SUFFICES ASSUME NEW a \in dispatch'.due
               PROVE  <<a.device, a.wake>> \notin told
    BY <1>1 DEF ToldOnce
  <2>1. PICK b \in dispatch.due : a.device = b.device /\ a.wake = b.wake
    BY <1>3
  <2> QED
    BY <2>1 DEF ToldOnce
<1>7. dispatch'.due # {} => dispatch'.pc = "send"
  BY <1>1 DEF DeliveriesSound
<1> QED
  BY <1>4, <1>5, <1>6, <1>7 DEF DeliveriesSound

\* A step that settles a push and changes its row to another that is held and
\* dated after the wake.
LEMMA SettledSound ==
    ASSUME TypeOK, DeliveriesSound, ToldOnce, NEW x \in dispatch.due,
           UNCHANGED <<now, wakes>>,
           dispatch'.due = dispatch.due \ {x}, dispatch'.pc = dispatch.pc,
           \A p \in Devices \X WakeIds : p # <<x.device, x.wake>> => deliveries'[p] = deliveries[p],
           \/ told' = told
           \/ /\ told' = told \cup {<<x.device, x.wake>>}
              /\ deliveries'[<<x.device, x.wake>>].delivered # Never \/ Expired(x.wake),
           LET old == deliveries[<<x.device, x.wake>>]
               row == deliveries'[<<x.device, x.wake>>] IN
           /\ row.claimed # Never => row.claimed >= FireAt[x.wake]
           /\ row.delivered # Never => row.delivered >= FireAt[x.wake]
           /\ old.claimed # Never => row.claimed # Never
           /\ old.delivered # Never => row.delivered # Never
    PROVE  DeliveriesSound' /\ ToldOnce'
<1> DEFINE own == <<x.device, x.wake>>
<1>1. x.device \in Devices /\ x.wake \in WakeIds /\ FireAt[x.wake] \in Nat
  BY WakeAssumption DEF TypeOK
<1>2. RowsDated'
  <2> SUFFICES ASSUME NEW d \in Devices, NEW w \in WakeIds
               PROVE  LET r == deliveries'[<<d, w>>] IN
                      /\ r.claimed # Never => FireAt[w] <= r.claimed
                      /\ r.delivered # Never => FireAt[w] <= r.delivered
    BY DEF RowsDated
  <2>1. CASE <<d, w>> = own
    <3>1. d = x.device /\ w = x.wake
      BY <2>1
    <3> QED
      BY <3>1
  <2>2. CASE <<d, w>> # own
    BY <2>2 DEF DeliveriesSound, RowsDated
  <2> QED
    BY <2>1, <2>2
<1>3. \A p \in Devices \X WakeIds :
         /\ deliveries[p].claimed # Never => deliveries'[p].claimed # Never
         /\ deliveries[p].delivered # Never => deliveries'[p].delivered # Never
  <2> TAKE p \in Devices \X WakeIds
  <2>1. CASE p = own
    BY <2>1
  <2>2. CASE p # own
    BY <2>2
  <2> QED
    BY <2>1, <2>2
<1>4. PushesClaimed'
  <2> SUFFICES ASSUME NEW a \in dispatch'.due
               PROVE  /\ FireAt[a.wake] <= now
                      /\ deliveries'[<<a.device, a.wake>>].claimed # Never \/ Expired(a.wake)
                      /\ \A c \in dispatch'.due :
                           c.device = a.device /\ c.wake = a.wake => a = c
    BY DEF PushesClaimed, Expired
  <2>1. a \in dispatch.due /\ <<a.device, a.wake>> \in Devices \X WakeIds
    BY DEF TypeOK
  <2> QED
    BY <1>3, <2>1 DEF DeliveriesSound, PushesClaimed
<1>5. WrittenKept'
  <2> SUFFICES ASSUME NEW p \in told'
               PROVE  deliveries'[p].delivered # Never \/ Expired(p[2])
    BY DEF WrittenKept, Expired
  <2>1. CASE p = own /\ told' # told
    BY <2>1
  <2>2. CASE p \in told
    <3>1. p \in Devices \X WakeIds
      BY <2>2 DEF TypeOK
    <3> QED
      BY <1>3, <2>2, <3>1 DEF DeliveriesSound, WrittenKept
  <2> QED
    BY <2>1, <2>2
<1>6. ToldOnce'
  <2> SUFFICES ASSUME NEW a \in dispatch'.due
               PROVE  <<a.device, a.wake>> \notin told'
    BY DEF ToldOnce
  <2>1. a \in dispatch.due /\ a # x
    OBVIOUS
  <2>2. <<a.device, a.wake>> \notin told
    BY <2>1 DEF ToldOnce
  <2>3. <<a.device, a.wake>> # own
    <3>1. ~ (a.device = x.device /\ a.wake = x.wake)
      BY <2>1 DEF DeliveriesSound, PushesClaimed
    <3> QED
      BY <3>1
  <2> QED
    BY <2>2, <2>3
<1>7. dispatch'.due # {} => dispatch'.pc = "send"
  BY DEF DeliveriesSound
<1> QED
  BY <1>2, <1>4, <1>5, <1>6, <1>7 DEF DeliveriesSound

\* Claims and deliveries stay sound in every step.
LEMMA SoundNext ==
    ASSUME TypeOK, DeliveriesSound, ToldOnce, [Next]_vars
    PROVE  DeliveriesSound' /\ ToldOnce'
<1>1. ASSUME NEW snapshot \in Snapshots, NEW rev \in 0 .. MaxRevision, Replace(snapshot, rev)
      PROVE  DeliveriesSound' /\ ToldOnce'
  <2>1. /\ UNCHANGED <<deliveries, told>> /\ now' \in Nat /\ now <= now'
        /\ \A w \in wakes' : w \in wakes \/ FireAt[w] > now - Retain
        /\ dispatch'.due \subseteq dispatch.due
        /\ dispatch'.due # {} => dispatch'.pc = "send"
    BY <1>1 DEF Replace, TypeOK, DeliveriesSound
  <2> QED
    BY <2>1, RowsUntouched
<1>2. ASSUME NEW d \in Devices, NEW e \in Endpoints, Save(d, e)
      PROVE  DeliveriesSound' /\ ToldOnce'
  <2>1. /\ UNCHANGED <<deliveries, told>> /\ now' \in Nat /\ now <= now'
        /\ \A w \in wakes' : w \in wakes \/ FireAt[w] > now - Retain
        /\ dispatch'.due \subseteq dispatch.due
        /\ dispatch'.due # {} => dispatch'.pc = "send"
    BY <1>2 DEF Save, TypeOK, DeliveriesSound
  <2> QED
    BY <2>1, RowsUntouched
<1>3. ASSUME NEW d \in Devices, Unregister(d)
      PROVE  DeliveriesSound' /\ ToldOnce'
  <2>1. /\ UNCHANGED <<deliveries, told>> /\ now' \in Nat /\ now <= now'
        /\ \A w \in wakes' : w \in wakes \/ FireAt[w] > now - Retain
        /\ dispatch'.due \subseteq dispatch.due
        /\ dispatch'.due # {} => dispatch'.pc = "send"
    BY <1>3 DEF Unregister, TypeOK, DeliveriesSound
  <2> QED
    BY <2>1, RowsUntouched
<1>4. ASSUME NEW ceiling \in 0 .. MaxRevision, Discard(ceiling)
      PROVE  DeliveriesSound' /\ ToldOnce'
  <2>1. /\ UNCHANGED <<deliveries, told>> /\ now' \in Nat /\ now <= now'
        /\ \A w \in wakes' : w \in wakes \/ FireAt[w] > now - Retain
        /\ dispatch'.due \subseteq dispatch.due
        /\ dispatch'.due # {} => dispatch'.pc = "send"
    BY <1>4 DEF Discard, TypeOK, DeliveriesSound
  <2> QED
    BY <2>1, RowsUntouched
<1>5. ASSUME Prune
      PROVE  DeliveriesSound' /\ ToldOnce'
  BY <1>5, PruneSound
<1>6. ASSUME Fire
      PROVE  DeliveriesSound' /\ ToldOnce'
  <2>1. /\ UNCHANGED <<deliveries, told>> /\ now' \in Nat /\ now <= now'
        /\ \A w \in wakes' : w \in wakes \/ FireAt[w] > now - Retain
        /\ dispatch'.due \subseteq dispatch.due
        /\ dispatch'.due # {} => dispatch'.pc = "send"
    BY <1>6 DEF Fire, Idle, store, TypeOK, DeliveriesSound
  <2> QED
    BY <2>1, RowsUntouched
<1>7. ASSUME Claim
      PROVE  DeliveriesSound' /\ ToldOnce'
  BY <1>7, ClaimSound
<1>8. ASSUME RoundDone
      PROVE  DeliveriesSound' /\ ToldOnce'
  <2>1. /\ UNCHANGED <<deliveries, told>> /\ now' \in Nat /\ now <= now'
        /\ \A w \in wakes' : w \in wakes \/ FireAt[w] > now - Retain
        /\ dispatch'.due \subseteq dispatch.due
        /\ dispatch'.due # {} => dispatch'.pc = "send"
    BY <1>8 DEF RoundDone, store, TypeOK, DeliveriesSound
  <2> QED
    BY <2>1, RowsUntouched
<1>9. ASSUME Look
      PROVE  DeliveriesSound' /\ ToldOnce'
  <2>1. /\ UNCHANGED <<deliveries, told>> /\ now' \in Nat /\ now <= now'
        /\ \A w \in wakes' : w \in wakes \/ FireAt[w] > now - Retain
        /\ dispatch'.due \subseteq dispatch.due
        /\ dispatch'.due # {} => dispatch'.pc = "send"
    BY <1>9 DEF Look, store, TypeOK, DeliveriesSound
  <2> QED
    BY <2>1, RowsUntouched
<1>10. ASSUME Finish
       PROVE  DeliveriesSound' /\ ToldOnce'
  <2>1. /\ UNCHANGED <<deliveries, told>> /\ now' \in Nat /\ now <= now'
        /\ \A w \in wakes' : w \in wakes \/ FireAt[w] > now - Retain
        /\ dispatch'.due \subseteq dispatch.due
        /\ dispatch'.due # {} => dispatch'.pc = "send"
    BY <1>10 DEF Finish, FollowOn, Idle, store, TypeOK, DeliveriesSound
  <2> QED
    BY <2>1, RowsUntouched
<1>11. ASSUME StoreFails
       PROVE  DeliveriesSound' /\ ToldOnce'
  <2>1. /\ UNCHANGED <<deliveries, told>> /\ now' \in Nat /\ now <= now'
        /\ \A w \in wakes' : w \in wakes \/ FireAt[w] > now - Retain
        /\ dispatch'.due \subseteq dispatch.due
        /\ dispatch'.due # {} => dispatch'.pc = "send"
    BY <1>11 DEF StoreFails, FollowOn, Idle, store, TypeOK, DeliveriesSound
  <2> QED
    BY <2>1, RowsUntouched
<1>12. ASSUME Restart
       PROVE  DeliveriesSound' /\ ToldOnce'
  <2>1. /\ UNCHANGED <<deliveries, told>> /\ now' \in Nat /\ now <= now'
        /\ \A w \in wakes' : w \in wakes \/ FireAt[w] > now - Retain
        /\ dispatch'.due \subseteq dispatch.due
        /\ dispatch'.due # {} => dispatch'.pc = "send"
    BY <1>12 DEF Restart, Idle, store, TypeOK, DeliveriesSound
  <2> QED
    BY <2>1, RowsUntouched
<1>13. ASSUME Tick
       PROVE  DeliveriesSound' /\ ToldOnce'
  <2>1. /\ UNCHANGED <<deliveries, told>> /\ now' \in Nat /\ now <= now'
        /\ \A w \in wakes' : w \in wakes \/ FireAt[w] > now - Retain
        /\ dispatch'.due \subseteq dispatch.due
        /\ dispatch'.due # {} => dispatch'.pc = "send"
    BY <1>13 DEF Tick, store, TypeOK, DeliveriesSound
  <2> QED
    BY <2>1, RowsUntouched
<1>14. ASSUME NEW r \in requests, Arm(r)
       PROVE  DeliveriesSound' /\ ToldOnce'
  <2>1. /\ UNCHANGED <<deliveries, told>> /\ now' \in Nat /\ now <= now'
        /\ \A w \in wakes' : w \in wakes \/ FireAt[w] > now - Retain
        /\ dispatch'.due \subseteq dispatch.due
        /\ dispatch'.due # {} => dispatch'.pc = "send"
    BY <1>14 DEF Arm, store, TypeOK, DeliveriesSound
  <2> QED
    BY <2>1, RowsUntouched
<1>15. ASSUME NEW r \in requests, MarkScheduled(r)
       PROVE  DeliveriesSound' /\ ToldOnce'
  <2>1. /\ UNCHANGED <<deliveries, told>> /\ now' \in Nat /\ now <= now'
        /\ \A w \in wakes' : w \in wakes \/ FireAt[w] > now - Retain
        /\ dispatch'.due \subseteq dispatch.due
        /\ dispatch'.due # {} => dispatch'.pc = "send"
    BY <1>15 DEF MarkScheduled, TypeOK, DeliveriesSound
  <2> QED
    BY <2>1, RowsUntouched
<1>16. ASSUME NEW x \in dispatch.due, NEW answer \in {"sent", "failed", "gone"}, Answer(x, answer)
       PROVE  DeliveriesSound' /\ ToldOnce'
  BY <1>16, AnswerSound
<1>17. ASSUME NEW x \in dispatch.due, MarkDelivered(x)
       PROVE  DeliveriesSound' /\ ToldOnce'
  <2>1. /\ x.device \in Devices /\ x.wake \in WakeIds
        /\ FireAt[x.wake] \in Nat /\ FireAt[x.wake] <= now /\ now \in Nat /\ Never \notin Int
    BY WakeAssumption, NeverAssumption DEF TypeOK, DeliveriesSound, PushesClaimed
  <2> DEFINE own == <<x.device, x.wake>>
             old == deliveries[own]
             row == deliveries'[own]
  <2>2. /\ old \in [claimed : Nat \cup {Never}, delivered : Nat \cup {Never}]
        /\ old.claimed # Never => old.claimed >= FireAt[x.wake]
        /\ old.delivered # Never => old.delivered >= FireAt[x.wake]
        /\ old.claimed # Never \/ Expired(x.wake)
    BY <2>1 DEF TypeOK, DeliveriesSound, RowsDated, PushesClaimed
  <2>3. row = IF old.claimed = Never THEN old ELSE [old EXCEPT !.delivered = now]
    BY <1>17, <2>1 DEF MarkDelivered, TypeOK
  <2>4. /\ row.delivered # Never \/ Expired(x.wake)
        /\ row.claimed # Never => row.claimed >= FireAt[x.wake]
        /\ row.delivered # Never => row.delivered >= FireAt[x.wake]
        /\ old.claimed # Never => row.claimed # Never
        /\ old.delivered # Never => row.delivered # Never
    BY <2>1, <2>2, <2>3
  <2>5. /\ UNCHANGED <<now, wakes>> /\ told' = told \cup {own}
        /\ dispatch'.due = dispatch.due \ {x} /\ dispatch'.pc = dispatch.pc
        /\ \A p \in Devices \X WakeIds : p # own => deliveries'[p] = deliveries[p]
    BY <1>17, <2>1 DEF MarkDelivered, SettledSend, TypeOK
  <2> QED
    BY <2>4, <2>5, SettledSound
<1>18. ASSUME NEW x \in dispatch.due, Defer(x)
       PROVE  DeliveriesSound' /\ ToldOnce'
  <2>1. /\ x.device \in Devices /\ x.wake \in WakeIds
        /\ FireAt[x.wake] \in Nat /\ FireAt[x.wake] <= now /\ now \in Nat /\ Never \notin Int
    BY WakeAssumption, NeverAssumption DEF TypeOK, DeliveriesSound, PushesClaimed
  <2> DEFINE own == <<x.device, x.wake>>
             old == deliveries[own]
             row == deliveries'[own]
  <2>2. /\ old \in [claimed : Nat \cup {Never}, delivered : Nat \cup {Never}]
        /\ old.claimed # Never => old.claimed >= FireAt[x.wake]
        /\ old.delivered # Never => old.delivered >= FireAt[x.wake]
        /\ old.claimed # Never \/ Expired(x.wake)
    BY <2>1 DEF TypeOK, DeliveriesSound, RowsDated, PushesClaimed
  <2>3. row = IF old.claimed = Never \/ old.delivered # Never THEN old
              ELSE [old EXCEPT !.claimed = RetryAt(x.wake) - Lease]
    BY <1>18, <2>1 DEF Defer, TypeOK
  <2>4. RetryAt(x.wake) - Lease \in Nat /\ RetryAt(x.wake) - Lease >= now
    BY <2>1, RetryHoldsLease
  <2>5. /\ row.claimed # Never => row.claimed >= FireAt[x.wake]
        /\ row.delivered # Never => row.delivered >= FireAt[x.wake]
        /\ old.claimed # Never => row.claimed # Never
        /\ old.delivered # Never => row.delivered # Never
    BY <2>1, <2>2, <2>3, <2>4
  <2>6. /\ UNCHANGED <<now, wakes>> /\ told' = told
        /\ dispatch'.due = dispatch.due \ {x} /\ dispatch'.pc = dispatch.pc
        /\ \A p \in Devices \X WakeIds : p # own => deliveries'[p] = deliveries[p]
    BY <1>18, <2>1 DEF Defer, SettledSend, TypeOK
  <2> QED
    BY <2>5, <2>6, SettledSound
<1>19. ASSUME NEW x \in dispatch.due, DropGone(x)
       PROVE  DeliveriesSound' /\ ToldOnce'
  <2>1. /\ UNCHANGED <<deliveries, told>> /\ now' \in Nat /\ now <= now'
        /\ \A w \in wakes' : w \in wakes \/ FireAt[w] > now - Retain
        /\ dispatch'.due \subseteq dispatch.due
        /\ dispatch'.due # {} => dispatch'.pc = "send"
    BY <1>19 DEF DropGone, SettledSend, TypeOK, DeliveriesSound
  <2> QED
    BY <2>1, RowsUntouched
<1>20. ASSUME NEW r \in requests, RequestFails(r)
       PROVE  DeliveriesSound' /\ ToldOnce'
  <2>1. /\ UNCHANGED <<deliveries, told>> /\ now' \in Nat /\ now <= now'
        /\ \A w \in wakes' : w \in wakes \/ FireAt[w] > now - Retain
        /\ dispatch'.due \subseteq dispatch.due
        /\ dispatch'.due # {} => dispatch'.pc = "send"
    BY <1>20 DEF RequestFails, store, TypeOK, DeliveriesSound
  <2> QED
    BY <2>1, RowsUntouched
<1>21. ASSUME UNCHANGED vars
       PROVE  DeliveriesSound' /\ ToldOnce'
  <2>1. /\ UNCHANGED <<deliveries, told>> /\ now' \in Nat /\ now <= now'
        /\ \A w \in wakes' : w \in wakes \/ FireAt[w] > now - Retain
        /\ dispatch'.due \subseteq dispatch.due
        /\ dispatch'.due # {} => dispatch'.pc = "send"
    BY <1>21 DEF vars, store, TypeOK, DeliveriesSound
  <2> QED
    BY <2>1, RowsUntouched
<1> QED
  BY <1>1, <1>2, <1>3, <1>4, <1>5, <1>6, <1>7, <1>8, <1>9, <1>10, <1>11, <1>12, <1>13, <1>14,
     <1>15, <1>16, <1>17, <1>18, <1>19, <1>20, <1>21
     DEF Next, Publish, PublishAgain, Register, RegisterAgain, Deliver, Served, Retried, Answered

-----------------------------------------------------------------------------
(* The timer: no wake is forgotten.                                         *)

\* A browser's registration is about to arm, or will be repeated.
Asked(d) == RegistrationOf(d) \in requests \/ d \in reregister

\* Whoever looks after a wake still does when the clock has moved, the timer and
\* the delivery stand where they stood and the browser's registration is not lost.
LEMMA StillLooked ==
    ASSUME TypeOK, NEW d \in Devices, NEW w \in WakeIds, LookedAfter(d, w),
           UNCHANGED <<deliveries, timer, rerun, failedAt>>, now' \in Nat, now <= now',
           dispatch'.pc = dispatch.pc, dispatch'.next = dispatch.next,
           Asked(d) => Asked(d)'
    PROVE  LookedAfter(d, w)'
<1>1. /\ ReadyAt(d, w)' = ReadyAt(d, w) /\ ReadyAt(d, w) \in Nat /\ now \in Nat
      /\ timer \in Times /\ rerun \in Times /\ dispatch.next \in Times
  BY ReadyAtTime DEF ReadyAt, TypeOK, Times
<1>2. LaterOf(ReadyAt(d, w), now) <= LaterOf(ReadyAt(d, w), now')
  BY <1>1 DEF LaterOf
<1>3. LaterOf(ReadyAt(d, w), now) \in Nat /\ LaterOf(ReadyAt(d, w), now') \in Nat
  BY <1>1 DEF LaterOf
<1>4. \A t \in Times : InTime(t, d, w) => t # Never /\ t <= LaterOf(ReadyAt(d, w), now')
  BY <1>2, <1>3 DEF InTime, Times
<1>5. /\ InTime(timer, d, w) => InTime(timer, d, w)'
      /\ InTime(rerun, d, w) => InTime(rerun, d, w)'
      /\ InTime(dispatch.next, d, w) => InTime(dispatch.next, d, w)'
  BY <1>1, <1>4 DEF InTime
<1> QED
  BY <1>5 DEF LookedAfter, Asked

\* A step that makes no wake owed or ready sooner, and changes neither timer
\* nor delivery nor loses a registration, leaves every wake looked after.
LEMMA TimerUntouched ==
    ASSUME TypeOK, AllLooked,
           UNCHANGED <<deliveries, timer, rerun, failedAt>>, now' \in Nat, now <= now',
           wakes' \subseteq wakes, Registered' \subseteq Registered,
           dispatch'.pc = dispatch.pc, dispatch'.next = dispatch.next,
           \A d \in Registered' : Asked(d) => Asked(d)'
    PROVE  AllLooked'
<1> SUFFICES ASSUME NEW d \in Devices, NEW w \in WakeIds, Owed(d, w)'
             PROVE  LookedAfter(d, w)'
  BY DEF AllLooked
<1>1. Owed(d, w) /\ d \in Registered'
  BY DEF Owed, Undelivered
<1>2. LookedAfter(d, w)
  BY <1>1 DEF AllLooked
<1> QED
  BY <1>1, <1>2, StillLooked

\* A timer that is due serves every wake.
LEMMA DueInTime ==
    ASSUME TypeOK, NEW d \in Devices, NEW w \in WakeIds, NEW t \in Nat, t <= now
    PROVE  InTime(t, d, w)
<1>1. ReadyAt(d, w) \in Nat /\ now \in Nat /\ t # Never
  BY ReadyAtTime, NeverAssumption DEF TypeOK
<1> QED
  BY <1>1 DEF InTime, LaterOf

\* What the dispatch returns is in time for every wake that is left.
LEMMA NextWakeInTime ==
    ASSUME TypeOK, NEW d \in Devices, NEW w \in WakeIds, Owed(d, w), NEW more,
           more \in {now, Never}
    PROVE  InTime(Earliest({NextWakeAt, more}), d, w)
<1> DEFINE ready == { LaterOf(ReadyAt(x[1].device, x[2]), now) : x \in Open }
           t == LaterOf(ReadyAt(d, w), now)
<1>1. ready \in SUBSET Nat /\ NextWakeAt \in Times /\ Never \notin Int /\ now \in Nat
  BY NextWakeTyped, NeverAssumption DEF TypeOK
<1>2. t \in ready /\ t \in Nat
  <2>1. PICK x \in devices : x.device = d
    BY DEF Owed, Registered
  <2>2. <<x, w>> \in Open
    BY <2>1 DEF Open, Owed
  <2>3. t = LaterOf(ReadyAt(<<x, w>>[1].device, <<x, w>>[2]), now)
    BY <2>1
  <2>4. t \in ready
    BY <2>2, <2>3
  <2> QED
    BY <1>1, <2>4
<1> HIDE DEF ready, t
<1>3. NextWakeAt = Earliest(ready)
  BY DEF NextWakeAt, ready
<1>4. ready \in SUBSET Times /\ t # Never
  BY <1>1, <1>2 DEF Times
<1>5. NextWakeAt \in Nat /\ NextWakeAt <= t
  BY <1>2, <1>3, <1>4, EarliestSound
<1>6. {NextWakeAt, more} \in SUBSET Times /\ NextWakeAt # Never
  BY <1>1, <1>5 DEF Times
<1>7. Earliest({NextWakeAt, more}) \in Nat /\ Earliest({NextWakeAt, more}) <= NextWakeAt
  BY <1>6, EarliestSound
<1>8. Earliest({NextWakeAt, more}) <= t
  BY <1>2, <1>5, <1>7
<1>9. Earliest({NextWakeAt, more}) # Never
  BY <1>1, <1>7
<1> QED
  BY <1>8, <1>9 DEF InTime, t

\* The timer that follows a delivery is no later than each of the times it follows.
LEMMA FollowOnEarliest ==
    ASSUME TypeOK, NEW next \in Times, FollowOn(next), NEW t \in {timer, next, rerun}, t # Never
    PROVE  timer' \in Nat /\ timer' <= t /\ timer' # Never
<1>1. {timer, next, rerun} \in SUBSET Times /\ Never \notin Int
  BY NeverAssumption DEF TypeOK, Times
<1>2. timer' = Earliest({timer, next, rerun})
  BY DEF FollowOn
<1> QED
  BY <1>1, <1>2, EarliestSound

\* Arming serves every wake.
LEMMA ArmLooks ==
    ASSUME TypeOK, NEW r \in requests, Arm(r)
    PROVE  AllLooked'
<1> SUFFICES ASSUME NEW d \in Devices, NEW w \in WakeIds, Owed(d, w)'
             PROVE  LookedAfter(d, w)'
  BY DEF AllLooked
<1>1. /\ Owed(d, w) /\ ReadyAt(d, w)' = ReadyAt(d, w)
      /\ UNCHANGED <<now, dispatch, failedAt, deliveries>> /\ ArmNow
  BY DEF Arm, store, Owed, Registered, Undelivered, ReadyAt
<1>2. /\ {timer, now} \in SUBSET Times /\ {rerun, now} \in SUBSET Times
      /\ now \in Nat /\ now # Never
  BY NeverAssumption DEF TypeOK, Times
<1>3. \A t \in Nat : t <= now => InTime(t, d, w)
  BY DueInTime
<1>4. CASE Running
  <2>1. rerun' \in Nat /\ rerun' <= now
    BY <1>1, <1>2, <1>4, EarliestSound DEF ArmNow
  <2>2. InTime(rerun, d, w)'
    BY <1>1, <1>3, <2>1 DEF InTime
  <2>3. dispatch.pc \in {"claim", "send", "look", "end"}
    BY <1>4 DEF Running, TypeOK
  <2> QED
    BY <1>1, <2>2, <2>3 DEF LookedAfter
<1>5. CASE ~ Running
  <2>1. timer' \in Nat /\ timer' <= now
    BY <1>1, <1>2, <1>5, EarliestSound DEF ArmNow
  <2>2. InTime(timer, d, w)'
    BY <1>1, <1>3, <2>1 DEF InTime
  <2> QED
    BY <2>2 DEF LookedAfter
<1> QED
  BY <1>4, <1>5

\* So does a start.
LEMMA RestartLooks ==
    ASSUME TypeOK, Restart
    PROVE  AllLooked'
<1>1. timer' = now /\ now' = now /\ now' \in Nat
  BY DEF Restart, store, TypeOK
<1>2. \A d \in Devices, w \in WakeIds : InTime(timer, d, w)'
  <2> TAKE d \in Devices, w \in WakeIds
  <2>1. InTime(now, d, w)
    BY <1>1, DueInTime
  <2>2. UNCHANGED deliveries
    BY DEF Restart, store
  <2> QED
    BY <1>1, <2>1, <2>2 DEF InTime, ReadyAt
<1> QED
  BY <1>2 DEF AllLooked, LookedAfter

\* A registration looks after the wakes of its browser, and the others stay looked after.
LEMMA SaveLooks ==
    ASSUME TypeOK, AllLooked, NEW e \in Devices, NEW endpoint \in Endpoints, Save(e, endpoint),
           \A d \in reregister : d # e => d \in reregister'
    PROVE  AllLooked'
<1> SUFFICES ASSUME NEW d \in Devices, NEW w \in WakeIds, Owed(d, w)'
             PROVE  LookedAfter(d, w)'
  BY DEF AllLooked
<1>1. RegistrationOf(e) \in requests' /\ requests \subseteq requests'
  BY DEF Save
<1>2. CASE d = e
  BY <1>1, <1>2 DEF LookedAfter
<1>3. CASE d # e
  <2>1. Registered' \subseteq Registered \cup {e}
    <3> DEFINE others == { x \in devices : x.endpoint # endpoint \/ x.device = e }
               added == [device |-> e, endpoint |-> endpoint, updated |-> now]
    <3>1. \A rest \in WithRoomFor(others, e) : rest \subseteq devices
      BY DEF WithRoomFor
    <3>2. devices' \subseteq devices \cup {added}
      BY <3>1 DEF Save
    <3> QED
      BY <3>2 DEF Registered
  <2>2. /\ UNCHANGED <<deliveries, timer, rerun, failedAt, now, wakes, dispatch>>
        /\ now \in Nat /\ now <= now'
    BY DEF Save, TypeOK
  <2>3. Owed(d, w)
    BY <1>3, <2>1, <2>2 DEF Owed, Undelivered
  <2>4. LookedAfter(d, w) /\ (Asked(d) => Asked(d)')
    BY <1>1, <1>3, <2>3 DEF AllLooked, Asked
  <2> QED
    BY <2>2, <2>4, StillLooked
<1> QED
  BY <1>2, <1>3

\* A step that brings no wake leaves every wake looked after.
LEMMA LookedNext ==
    ASSUME TypeOK, TypeOK', DeliveriesSound, AllLooked, [Next]_vars, wakes' \subseteq wakes
    PROVE  AllLooked'
<1>1. ASSUME NEW snapshot \in Snapshots, NEW rev \in 0 .. MaxRevision, Replace(snapshot, rev)
      PROVE  AllLooked'
  <2>1. /\ UNCHANGED <<deliveries, timer, rerun, failedAt>> /\ now' \in Nat /\ now <= now'
        /\ wakes' \subseteq wakes /\ Registered' \subseteq Registered
        /\ dispatch'.pc = dispatch.pc /\ dispatch'.next = dispatch.next
        /\ \A d \in Registered' : Asked(d) => Asked(d)'
    BY <1>1 DEF Replace, Registered, Asked, TypeOK
  <2> QED
    BY <2>1, TimerUntouched
<1>2. ASSUME NEW d \in Devices, NEW e \in Endpoints, Register(d, e) \/ RegisterAgain(d, e)
      PROVE  AllLooked'
  <2>1. Save(d, e) /\ \A x \in reregister : x # d => x \in reregister'
    BY <1>2 DEF Register, RegisterAgain
  <2> QED
    BY <2>1, SaveLooks
<1>3. ASSUME NEW d \in Devices, Unregister(d)
      PROVE  AllLooked'
  <2>1. /\ UNCHANGED <<deliveries, timer, rerun, failedAt>> /\ now' \in Nat /\ now <= now'
        /\ wakes' \subseteq wakes /\ Registered' \subseteq Registered
        /\ dispatch'.pc = dispatch.pc /\ dispatch'.next = dispatch.next
        /\ \A e \in Registered' : Asked(e) => Asked(e)'
    BY <1>3 DEF Unregister, retries, Registered, Asked, TypeOK
  <2> QED
    BY <2>1, TimerUntouched
<1>4. ASSUME NEW ceiling \in 0 .. MaxRevision, Discard(ceiling)
      PROVE  AllLooked'
  <2>1. /\ UNCHANGED <<deliveries, timer, rerun, failedAt>> /\ now' \in Nat /\ now <= now'
        /\ wakes' \subseteq wakes /\ Registered' \subseteq Registered
        /\ dispatch'.pc = dispatch.pc /\ dispatch'.next = dispatch.next
        /\ \A e \in Registered' : Asked(e) => Asked(e)'
    BY <1>4 DEF Discard, retries, Registered, Asked, TypeOK
  <2> QED
    BY <2>1, TimerUntouched
<1>5. ASSUME Prune
      PROVE  AllLooked'
  <2> SUFFICES ASSUME NEW d \in Devices, NEW w \in WakeIds, Owed(d, w)'
               PROVE  LookedAfter(d, w)'
    BY DEF AllLooked
  <2>1. /\ w \in wakes /\ FireAt[w] >= now - Retain /\ now \in Nat /\ Retain \in Nat
        /\ FireAt[w] \in Nat /\ d \in Registered /\ Never \notin Int
    BY <1>5, WakeAssumption, DelayAssumption, NeverAssumption DEF Prune, Owed, Registered, TypeOK
  <2>2. deliveries[<<d, w>>] \in [claimed : Nat \cup {Never}, delivered : Nat \cup {Never}]
    BY DEF TypeOK
  <2>3. /\ deliveries[<<d, w>>].claimed # Never => FireAt[w] <= deliveries[<<d, w>>].claimed
        /\ deliveries[<<d, w>>].delivered # Never => FireAt[w] <= deliveries[<<d, w>>].delivered
    BY DEF DeliveriesSound, RowsDated
  <2>4. ~ Outlived(deliveries[<<d, w>>], now - Retain)
    BY <2>1, <2>2, <2>3 DEF Outlived
  <2>5. deliveries'[<<d, w>>] = deliveries[<<d, w>>]
    BY <1>5, <2>4 DEF Prune, TypeOK
  <2>6. LookedAfter(d, w)
    BY <2>1, <2>5 DEF AllLooked, Owed, Undelivered
  <2>7. /\ ReadyAt(d, w)' = ReadyAt(d, w)
        /\ UNCHANGED <<now, timer, rerun, failedAt, dispatch, requests, reregister>>
    BY <1>5, <2>5 DEF Prune, retries, ReadyAt
  <2> QED
    BY <2>6, <2>7 DEF LookedAfter, InTime
<1>6. ASSUME Fire
      PROVE  AllLooked'
  <2>1. dispatch'.pc \in {"claim", "send", "look"}
    BY <1>6 DEF Fire, Idle, TypeOK
  <2> QED
    BY <2>1 DEF AllLooked, LookedAfter
<1>7. ASSUME Claim
      PROVE  AllLooked'
  <2>1. dispatch'.pc \in {"claim", "send", "look"}
    BY <1>7 DEF Claim, Idle, TypeOK
  <2> QED
    BY <2>1 DEF AllLooked, LookedAfter
<1>8. ASSUME RoundDone
      PROVE  AllLooked'
  <2>1. dispatch'.pc \in {"claim", "send", "look"}
    BY <1>8 DEF RoundDone, Idle, TypeOK
  <2> QED
    BY <2>1 DEF AllLooked, LookedAfter
<1>9. ASSUME Look
      PROVE  AllLooked'
  <2> SUFFICES ASSUME NEW d \in Devices, NEW w \in WakeIds, Owed(d, w)'
               PROVE  LookedAfter(d, w)'
    BY DEF AllLooked
  <2> DEFINE more == IF dispatch.more THEN now ELSE Never
  <2>1. Owed(d, w) /\ UNCHANGED <<now, deliveries>>
    BY <1>9 DEF Look, store, Owed, Registered, Undelivered
  <2>2. more \in {now, Never}
    OBVIOUS
  <2>3. dispatch'.pc = "end" /\ dispatch'.next = Earliest({NextWakeAt, more})
    BY <1>9 DEF Look, TypeOK
  <2> HIDE DEF more
  <2>4. InTime(dispatch'.next, d, w)
    BY <2>1, <2>2, <2>3, NextWakeInTime
  <2>5. InTime(dispatch.next, d, w)'
    BY <2>1, <2>4 DEF InTime, ReadyAt
  <2> QED
    BY <2>3, <2>5 DEF LookedAfter
<1>10. ASSUME Finish
       PROVE  AllLooked'
  <2> SUFFICES ASSUME NEW d \in Devices, NEW w \in WakeIds, Owed(d, w)'
               PROVE  LookedAfter(d, w)'
    BY DEF AllLooked
  <2>1. /\ Owed(d, w) /\ ReadyAt(d, w)' = ReadyAt(d, w) /\ UNCHANGED <<now, failedAt, requests, reregister>>
        /\ dispatch.pc = "end" /\ FollowOn(dispatch.next)
    BY <1>10 DEF Finish, store, retries, Owed, Registered, Undelivered, ReadyAt
  <2>2. /\ timer \in Times /\ rerun \in Times /\ dispatch.next \in Times /\ Never \notin Int
        /\ LaterOf(ReadyAt(d, w), now) \in Nat /\ failedAt \in Times /\ StoreRetry \in Nat
    BY ReadyAtTime, NeverAssumption, DelayAssumption DEF TypeOK, Times
  <2>3. LookedAfter(d, w)
    BY <2>1 DEF AllLooked
  <2>4. \A t \in {timer, dispatch.next, rerun} : t # Never => timer' \in Nat /\ timer' <= t
    BY <2>1, <2>2, FollowOnEarliest
  <2>5. ASSUME NEW t \in {timer, dispatch.next, rerun}, InTime(t, d, w)
        PROVE  LookedAfter(d, w)'
    <3>1. timer' \in Nat /\ timer' <= LaterOf(ReadyAt(d, w), now)
      BY <2>2, <2>4, <2>5 DEF InTime, Times
    <3> QED
      BY <2>1, <2>2, <3>1 DEF LookedAfter, InTime
  <2>6. ASSUME timer # Never, failedAt # Never, timer <= failedAt + StoreRetry
        PROVE  LookedAfter(d, w)'
    <3>1. timer' \in Nat /\ timer' <= failedAt + StoreRetry
      BY <2>2, <2>4, <2>6 DEF Times
    <3> QED
      BY <2>1, <2>2, <2>6, <3>1 DEF LookedAfter
  <2>7. ASSUME Asked(d)
        PROVE  LookedAfter(d, w)'
    BY <2>1, <2>7 DEF LookedAfter, Asked
  <2> QED
    BY <2>1, <2>3, <2>5, <2>6, <2>7 DEF LookedAfter, Asked
<1>11. ASSUME StoreFails
       PROVE  AllLooked'
  <2>1. /\ now + StoreRetry \in Times /\ now + StoreRetry # Never /\ now \in Nat
        /\ Never \notin Int
    BY DelayAssumption, NeverAssumption DEF TypeOK, Times
  <2>2. FollowOn(now + StoreRetry) /\ failedAt' = now
    BY <1>11 DEF StoreFails
  <2>3. timer' \in Nat /\ timer' <= now + StoreRetry /\ timer' # Never
    BY <2>1, <2>2, FollowOnEarliest
  <2> QED
    BY <2>1, <2>2, <2>3 DEF AllLooked, LookedAfter
<1>12. ASSUME Restart
       PROVE  AllLooked'
  BY <1>12, RestartLooks
<1>13. ASSUME Tick
       PROVE  AllLooked'
  <2>1. /\ UNCHANGED <<deliveries, timer, rerun, failedAt>> /\ now' \in Nat /\ now <= now'
        /\ wakes' \subseteq wakes /\ Registered' \subseteq Registered
        /\ dispatch'.pc = dispatch.pc /\ dispatch'.next = dispatch.next
        /\ \A e \in Registered' : Asked(e) => Asked(e)'
    BY <1>13 DEF Tick, store, retries, Registered, Asked, TypeOK
  <2> QED
    BY <2>1, TimerUntouched
<1>14. ASSUME NEW r \in requests, Arm(r)
       PROVE  AllLooked'
  BY <1>14, ArmLooks
<1>15. ASSUME NEW r \in requests, MarkScheduled(r)
       PROVE  AllLooked'
  <2>1. /\ UNCHANGED <<deliveries, timer, rerun, failedAt>> /\ now' \in Nat /\ now <= now'
        /\ wakes' \subseteq wakes /\ Registered' \subseteq Registered
        /\ dispatch'.pc = dispatch.pc /\ dispatch'.next = dispatch.next
        /\ \A e \in Registered' : Asked(e) => Asked(e)'
    BY <1>15 DEF MarkScheduled, RegistrationOf, retries, Registered, Asked, TypeOK
  <2> QED
    BY <2>1, TimerUntouched
<1>16. ASSUME NEW x \in dispatch.due, NEW answer \in {"sent", "failed", "gone"}, Answer(x, answer)
       PROVE  AllLooked'
  <2>1. /\ UNCHANGED <<deliveries, timer, rerun, failedAt>> /\ now' \in Nat /\ now <= now'
        /\ wakes' \subseteq wakes /\ Registered' \subseteq Registered
        /\ dispatch'.pc = dispatch.pc /\ dispatch'.next = dispatch.next
        /\ \A e \in Registered' : Asked(e) => Asked(e)'
    BY <1>16 DEF Answer, store, retries, Registered, Asked, TypeOK
  <2> QED
    BY <2>1, TimerUntouched
<1>17. ASSUME NEW x \in dispatch.due, MarkDelivered(x)
       PROVE  AllLooked'
  <2>1. dispatch'.pc = "send"
    BY <1>17 DEF MarkDelivered, SettledSend, DeliveriesSound, TypeOK
  <2> QED
    BY <2>1 DEF AllLooked, LookedAfter
<1>18. ASSUME NEW x \in dispatch.due, Defer(x)
       PROVE  AllLooked'
  <2>1. dispatch'.pc = "send"
    BY <1>18 DEF Defer, SettledSend, DeliveriesSound, TypeOK
  <2> QED
    BY <2>1 DEF AllLooked, LookedAfter
<1>19. ASSUME NEW x \in dispatch.due, DropGone(x)
       PROVE  AllLooked'
  <2>1. dispatch'.pc = "send"
    BY <1>19 DEF DropGone, SettledSend, DeliveriesSound, TypeOK
  <2> QED
    BY <2>1 DEF AllLooked, LookedAfter
<1>20. ASSUME NEW r \in requests, RequestFails(r)
       PROVE  AllLooked'
  <2>1. \A e \in Devices : r = RegistrationOf(e) => e \in reregister'
    BY <1>20 DEF RequestFails, AskAgain, RegistrationOf, Publishes
  <2>2. requests' = requests \ {r} /\ reregister \subseteq reregister'
    BY <1>20 DEF RequestFails, AskAgain
  <2>3. Registered' \subseteq Devices
    BY DEF Registered, TypeOK
  <2>4. \A e \in Registered' : Asked(e) => Asked(e)'
    BY <2>1, <2>2, <2>3 DEF Asked
  <2>5. /\ UNCHANGED <<deliveries, timer, rerun, failedAt>> /\ now' \in Nat /\ now <= now'
        /\ wakes' \subseteq wakes /\ Registered' \subseteq Registered
        /\ dispatch'.pc = dispatch.pc /\ dispatch'.next = dispatch.next
    BY <1>20 DEF RequestFails, store, Registered, TypeOK
  <2> QED
    BY <2>4, <2>5, TimerUntouched
<1>21. ASSUME UNCHANGED vars
       PROVE  AllLooked'
  <2>1. /\ UNCHANGED <<deliveries, timer, rerun, failedAt>> /\ now' \in Nat /\ now <= now'
        /\ wakes' \subseteq wakes /\ Registered' \subseteq Registered
        /\ dispatch'.pc = dispatch.pc /\ dispatch'.next = dispatch.next
        /\ \A e \in Registered' : Asked(e) => Asked(e)'
    BY <1>21 DEF vars, store, retries, Registered, Asked, TypeOK
  <2> QED
    BY <2>1, TimerUntouched
<1> QED
  BY <1>1, <1>2, <1>3, <1>4, <1>5, <1>6, <1>7, <1>8, <1>9, <1>10, <1>11, <1>12, <1>13, <1>14,
     <1>15, <1>16, <1>17, <1>18, <1>19, <1>20, <1>21
     DEF Next, Publish, PublishAgain, Deliver, Served, Retried, Answered

-----------------------------------------------------------------------------
(* The store's mark: what was committed and not armed is armed by the next  *)
(* publish.                                                                 *)

\* What is not looked after is marked in the store, and a publish will arm for it.
LEMMA ForgottenUnless ==
    NothingForgotten <=> AllLooked \/ (unscheduled # Never /\ PublishComes)
BY DEF NothingForgotten, AllLooked

\* A snapshot that changes the wakes is of a revision after all that are under way.
LEMMA ReplaceRevision ==
    ASSUME TypeOK, RevisionsCurrent, NEW snapshot \in Snapshots, NEW rev \in 0 .. MaxRevision,
           Replace(snapshot, rev)
    PROVE  /\ RevisionsCurrent'
           /\ \/ unscheduled' = unscheduled /\ wakes' = wakes
              \/ unscheduled' = rev /\ \A r \in requests : Publishes(r) => r.revision < rev
<1>1. rev \in Nat /\ Never \notin Nat
  BY WakeBoundAssumption, NeverAssumption
<1>2. revision' = rev /\ (revision # Never => revision <= rev)
  BY DEF Replace
<1>3. \A r \in requests : Publishes(r) => r.revision \in Nat /\ revision \in Nat /\ r.revision <= revision
  BY RequestKinds DEF RevisionsCurrent, TypeOK
<1>4. RevisionsCurrent'
  <2>1. \A r \in requests' : r \in requests \/ r = PublishAt("arm", rev)
    BY DEF Replace
  <2> QED
    BY <1>1, <1>2, <1>3, <2>1 DEF RevisionsCurrent, Publishes, PublishAt
<1>5. \/ unscheduled' = unscheduled /\ wakes' = wakes
      \/ unscheduled' = rev /\ revision # rev
  BY DEF Replace
<1>6. revision # rev => \A r \in requests : Publishes(r) => r.revision < rev
  BY <1>1, <1>2, <1>3
<1> QED
  BY <1>4, <1>5, <1>6

\* The publishes under way stay at or below the account's revision, as long as it does
\* not count anew beside them.
LEMMA RevisionsNext ==
    ASSUME TypeOK, RevisionsCurrent, [Next]_vars, ~ DiscardsBeside
    PROVE  RevisionsCurrent'
<1>1. CASE \E snapshot \in Snapshots, rev \in 0 .. MaxRevision : Replace(snapshot, rev)
  BY <1>1, ReplaceRevision
<1>2. ASSUME NEW ceiling \in 0 .. MaxRevision, Discard(ceiling)
      PROVE  RevisionsCurrent'
  BY <1>2 DEF Discard, RevisionsCurrent
<1>3. ASSUME NEW r \in requests, Arm(r)
      PROVE  RevisionsCurrent'
  <2>1. revision' = revision
    BY <1>3 DEF Arm, store
  <2>2. \A q \in requests' : q \in requests \/ (Publishes(r) /\ q = PublishAt("mark", r.revision))
    BY <1>3 DEF Arm
  <2> QED
    BY <1>3, <2>1, <2>2 DEF RevisionsCurrent, Publishes, PublishAt
<1>4. ASSUME NEW d \in Devices, NEW e \in Endpoints, Save(d, e)
      PROVE  RevisionsCurrent'
  BY <1>4 DEF Save, RevisionsCurrent, Publishes, RegistrationOf
<1>5. CASE requests' \subseteq requests /\ revision' = revision
  BY <1>5 DEF RevisionsCurrent
<1>6. \/ \E snapshot \in Snapshots, rev \in 0 .. MaxRevision : Replace(snapshot, rev)
      \/ \E ceiling \in 0 .. MaxRevision : Discard(ceiling)
      \/ \E r \in requests : Arm(r)
      \/ \E d \in Devices, e \in Endpoints : Save(d, e)
      \/ requests' \subseteq requests /\ revision' = revision
  BY DEF Next, Publish, PublishAgain, Register, RegisterAgain, Unregister, RequestFails, Prune,
         Deliver, Fire, Claim, RoundDone, Look, Finish, MarkDelivered, Defer, DropGone, Served,
         MarkScheduled, Retried, Answered, Answer, StoreFails, Restart, Tick, store, vars
<1> QED
  BY <1>1, <1>2, <1>3, <1>4, <1>5, <1>6

\* What the other steps do to the mark and to the requests.
LEMMA MarkKept ==
    ASSUME [Next]_vars,
           ~ \E snapshot \in Snapshots, rev \in 0 .. MaxRevision : Replace(snapshot, rev),
           ~ \E r \in requests : Arm(r),
           ~ Restart
    PROVE  /\ wakes' \subseteq wakes
           /\ \A r \in requests' : r.step = "mark" => r \in requests
           /\ PublishComes => PublishComes'
           /\ \/ unscheduled' = unscheduled
              \/ \E r \in requests : MarkScheduled(r) /\ unscheduled' = Never
                                     /\ unscheduled # Never /\ unscheduled <= r.revision
<1>1. ASSUME NEW r \in requests, MarkScheduled(r)
      PROVE  /\ wakes' \subseteq wakes /\ requests' \subseteq requests
             /\ PublishComes => PublishComes'
             /\ \/ unscheduled' = unscheduled
                \/ unscheduled' = Never /\ unscheduled # Never /\ unscheduled <= r.revision
  BY <1>1 DEF MarkScheduled, PublishComes, retries
<1>2. ASSUME NEW r \in requests, RequestFails(r)
      PROVE  /\ wakes' \subseteq wakes /\ requests' \subseteq requests
             /\ PublishComes => PublishComes'
             /\ unscheduled' = unscheduled
  BY <1>2 DEF RequestFails, AskAgain, PublishComes, store
<1>3. ASSUME NEW d \in Devices, NEW e \in Endpoints, Register(d, e) \/ RegisterAgain(d, e)
      PROVE  /\ wakes' \subseteq wakes
             /\ \A r \in requests' : r.step = "mark" => r \in requests
             /\ PublishComes => PublishComes'
             /\ unscheduled' = unscheduled
  BY <1>3 DEF Register, RegisterAgain, Save, RegistrationOf, PublishComes
<1>4. CASE UNCHANGED <<unscheduled, requests, republish>> /\ wakes' \subseteq wakes
  BY <1>4 DEF PublishComes
<1>5. \/ \E r \in requests : MarkScheduled(r)
      \/ \E r \in requests : RequestFails(r)
      \/ \E d \in Devices, e \in Endpoints : Register(d, e) \/ RegisterAgain(d, e)
      \/ UNCHANGED <<unscheduled, requests, republish>> /\ wakes' \subseteq wakes
  BY DEF Next, Publish, PublishAgain, Unregister, Discard, Prune, Deliver, Fire, Claim, RoundDone,
         Look, Finish, MarkDelivered, Defer, DropGone, Served, Retried, Answered, Answer,
         StoreFails, Tick, store, retries, vars
<1> QED
  BY <1>1, <1>2, <1>3, <1>4, <1>5

\* No step forgets a wake: it leaves all looked after; or the mark, which only the requests
\* that armed can clear, makes the publish that comes arm once more.
LEMMA ForgottenNext ==
    ASSUME TypeOK, TypeOK', DeliveriesSound, RevisionsCurrent, MarkSound, NothingForgotten,
           [Next]_vars
    PROVE  NothingForgotten' /\ MarkSound'
<1>1. AllLooked \/ (unscheduled # Never /\ PublishComes)
  BY ForgottenUnless
<1>2. AllLooked' => NothingForgotten' /\ MarkSound'
  BY DEF AllLooked, NothingForgotten, MarkSound
<1>3. AllLooked /\ wakes' \subseteq wakes => AllLooked'
  BY LookedNext
<1>4. \A r \in requests : r.step = "mark" => Publishes(r) /\ r.revision \in Nat
  BY RequestKinds
<1>5. ASSUME NEW snapshot \in Snapshots, NEW rev \in 0 .. MaxRevision, Replace(snapshot, rev)
      PROVE  NothingForgotten' /\ MarkSound'
  <2>1. /\ rev \in Nat /\ rev # Never
        /\ \A r \in requests' : r \in requests \/ r = PublishAt("arm", rev)
        /\ Publishes(PublishAt("arm", rev)) /\ PublishAt("arm", rev).step = "arm"
    BY <1>5, WakeBoundAssumption, NeverAssumption DEF Replace, PublishAt, Publishes
  <2>2. CASE unscheduled' = unscheduled /\ wakes' = wakes
    <3>1. CASE AllLooked
      BY <1>2, <1>3, <2>2, <3>1
    <3>2. CASE ~ AllLooked
      <4>1. unscheduled # Never /\ PublishAt("arm", rev) \in requests'
        BY <1>1, <1>5, <3>2 DEF Replace, Schedules
      <4>2. NothingForgotten'
        BY <2>1, <2>2, <4>1 DEF NothingForgotten, PublishComes
      <4>3. MarkSound'
        BY <2>1, <2>2, <3>2 DEF MarkSound
      <4> QED
        BY <4>2, <4>3
    <3> QED
      BY <3>1, <3>2
  <2>3. CASE unscheduled' = rev /\ \A r \in requests : Publishes(r) => r.revision < rev
    <3>1. MarkSound'
      BY <1>4, <2>1, <2>3 DEF MarkSound
    <3>2. CASE PublishAt("arm", rev) \in requests'
      BY <2>1, <2>3, <3>1, <3>2 DEF NothingForgotten, PublishComes
    <3>3. CASE PublishAt("arm", rev) \notin requests'
      <4>1. wakes' = wakes /\ unscheduled = Never
        BY <1>5, <3>3 DEF Replace, Schedules
      <4> QED
        BY <1>1, <1>2, <1>3, <4>1
    <3> QED
      BY <3>1, <3>2, <3>3
  <2> QED
    BY <1>5, <2>2, <2>3, ReplaceRevision
<1>6. ASSUME NEW r \in requests, Arm(r)
      PROVE  NothingForgotten' /\ MarkSound'
  BY <1>2, <1>6, ArmLooks
<1>7. ASSUME Restart
      PROVE  NothingForgotten' /\ MarkSound'
  BY <1>2, <1>7, RestartLooks
<1>8. ASSUME ~ \E snapshot \in Snapshots, rev \in 0 .. MaxRevision : Replace(snapshot, rev),
             ~ \E r \in requests : Arm(r),
             ~ Restart
      PROVE  NothingForgotten' /\ MarkSound'
  <2>1. /\ wakes' \subseteq wakes
        /\ \A r \in requests' : r.step = "mark" => r \in requests
        /\ PublishComes => PublishComes'
        /\ \/ unscheduled' = unscheduled
           \/ \E r \in requests : MarkScheduled(r) /\ unscheduled' = Never
                                  /\ unscheduled # Never /\ unscheduled <= r.revision
    BY <1>8, MarkKept
  <2>2. CASE AllLooked
    BY <1>2, <1>3, <2>1, <2>2
  <2>3. CASE ~ AllLooked
    <3>1. unscheduled' = unscheduled
      BY <2>1, <2>3 DEF MarkSound, MarkScheduled
    <3>2. NothingForgotten'
      BY <1>1, <2>1, <2>3, <3>1 DEF NothingForgotten
    <3>3. MarkSound'
      BY <2>1, <2>3, <3>1 DEF MarkSound
    <3> QED
      BY <3>2, <3>3
  <2> QED
    BY <2>2, <2>3
<1> QED
  BY <1>5, <1>6, <1>7, <1>8

-----------------------------------------------------------------------------
(* The theorems.                                                            *)

\* The deliveries of every reachable state of the wake store and its timer are sound.
THEOREM WakesAreSound == Spec => []WakeInv
<1>1. Init => WakeInv
  <2> SUFFICES ASSUME Init PROVE WakeInv
    OBVIOUS
  <2>1. DeliveriesSound
    BY DEF Init, Idle, NoDelivery, DeliveriesSound, RowsDated, PushesClaimed, WrittenKept
  <2>2. ToldOnce
    BY DEF Init, Idle, ToldOnce
  <2> QED
    BY <2>1, <2>2, TypeInit DEF WakeInv
<1>2. WakeInv /\ [Next]_vars => WakeInv'
  BY TypeNext, SoundNext DEF WakeInv
<1> QED
  BY <1>1, <1>2, PTL DEF Spec

\* Every variable keeps its kind, and the browsers stay within their limit and
\* each endpoint with one of them, whatever registers, leaves or is dropped.
THEOREM WakesTypeCorrect == Spec => []TypeOK
<1>1. WakeInv => TypeOK
  BY DEF WakeInv
<1> QED
  BY <1>1, WakesAreSound, PTL

\* While a browser has to be told of a wake, the timer is set in time, or what sets it is
\* on its way or will be repeated (wakeTimer.ts arm and fire), for every number of browsers
\* and wakes, every length of delays, and wherever requests fail; as long as the account
\* does not count its revisions anew while a publish is under way.
THEOREM NoWakeForgotten ==
    ASSUME ~ DiscardsBeside
    PROVE  Spec => []NothingForgotten
<1>1. Init => RevisionsCurrent /\ MarkSound /\ NothingForgotten
  <2> SUFFICES ASSUME Init PROVE RevisionsCurrent /\ MarkSound /\ NothingForgotten
    OBVIOUS
  <2>1. TypeOK /\ timer = now /\ now \in Nat /\ requests = {}
    BY TypeInit DEF Init
  <2>2. \A d \in Devices, w \in WakeIds : InTime(timer, d, w)
    BY <2>1, DueInTime
  <2> QED
    BY <2>1, <2>2 DEF RevisionsCurrent, MarkSound, NothingForgotten, LookedAfter
<1>2. WakeInv /\ WakeInv' /\ RevisionsCurrent /\ MarkSound /\ NothingForgotten /\ [Next]_vars
      => (RevisionsCurrent /\ MarkSound /\ NothingForgotten)'
  BY RevisionsNext, ForgottenNext DEF WakeInv
<1> QED
  BY <1>1, <1>2, WakesAreSound, PTL DEF Spec

\* A browser is not told again of a wake whose delivery was written, as long as
\* snapshots are filtered and rows pruned by the same retention.
THEOREM NeverToldTwice == Spec => []ToldOnce
<1>1. WakeInv => ToldOnce
  BY DEF WakeInv
<1> QED
  BY <1>1, WakesAreSound, PTL

\* What the delivery rows say of claims and deliveries stays true while the
\* wakes they are about can come back.
THEOREM RowsStaySound == Spec => []DeliveriesSound
<1>1. WakeInv => DeliveriesSound
  BY DEF WakeInv
<1> QED
  BY <1>1, WakesAreSound, PTL
===============================================================================
