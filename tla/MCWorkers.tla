-------------------------------- MODULE MCWorkers --------------------------------
(***************************************************************************)
(* The two Durable Objects of an account on Workers: its coordinator, with *)
(* one record of two versions and one that is written at most once, and    *)
(* its reminder scheduler, with one wake.                                  *)
(* They share no state, so a reachable state of the pair is a pair of      *)
(* reachable states.  One of them moves while the other is as at the       *)
(* start: the product of their states stays out of it.                     *)
(***************************************************************************)
EXTENDS Coordinator, WakeAlarm, TLC

CONSTANTS r1, r2, slotA, slotB, a1, a2, b1, c1, c2, m1, m2, w1

MCIds == {a1, a2, b1}
MCSlots == {slotA, slotB}
MCSlotOf == [i \in MCIds |-> IF i = b1 THEN slotB ELSE slotA]
MCSize == [i \in Ids |-> 1]

MCUploads ==
    { u \in [slot : {slotA}, id : {a1, a2}, expected : {a1, a2, NoId}, continues : BOOLEAN] :
        u.expected # u.id /\ (u.expected = NoId => ~u.continues) }

MCFirst(i) == [slot |-> MCSlotOf[i], id |-> i, expected |-> NoId, continues |-> FALSE]

\* A version of the first record, its deletion, or both records at once: then the first
\* one's version may be held already.
MCBatches ==
    { [uploads |-> <<u>>, deletions |-> {}] : u \in MCUploads }
    \cup { [uploads |-> <<MCFirst(i), MCFirst(b1)>>, deletions |-> {}] : i \in {a1, a2} }
    \cup { [uploads |-> <<>>, deletions |-> {[slot |-> slotA, id |-> i]}] : i \in {a1, a2} }

MCFireAt == [w \in WakeIds |-> 0]
MCSnapshots == {WakeIds}

MCSymmetry ==
    Permutations({a1, a2}) \cup Permutations(Rounds)
    \cup Permutations(Clients) \cup Permutations(Messages)

MCInit == Init /\ AlarmInit
MCNext ==
    \/ AlarmInit /\ Next /\ UNCHANGED alarmVars
    \/ Init /\ AlarmNext /\ UNCHANGED vars
===============================================================================
