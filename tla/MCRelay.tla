-------------------------------- MODULE MCRelay --------------------------------
(***************************************************************************)
(* Two records a and b, three versions of one and two of the other, and    *)
(* every batch that tells the rules of a round apart.                      *)
(***************************************************************************)
EXTENDS Relay

CONSTANTS a, b, a1, a2, a3, b1, b2

MCSlots == {a, b}
MCIds == {a1, a2, a3, b1, b2}
MCSlotOf == [i \in MCIds |-> IF i \in {a1, a2, a3} THEN a ELSE b]
MCSize == [i \in MCIds |-> IF i \in {a2, b2} THEN 2 ELSE 1]

\* An upload of version i over version e; only a version that exists is continued.
MCUploads ==
    { [slot |-> MCSlotOf[i], id |-> i, expected |-> e, continues |-> c] :
        i \in MCIds, e \in MCIds \cup {NoId}, c \in BOOLEAN }

Sensible(u) ==
    /\ u.expected # u.id
    /\ u.expected = NoId => ~u.continues
    /\ u.expected # NoId => MCSlotOf[u.expected] = u.slot

MCDeletions == { [slot |-> MCSlotOf[i], id |-> i] : i \in MCIds }

Plain == { u \in MCUploads : Sensible(u) /\ ~u.continues }

MCBatches ==
    { [uploads |-> <<u>>, deletions |-> {}] : u \in { v \in MCUploads : Sensible(v) } }
    \cup { [uploads |-> <<>>, deletions |-> {d}] : d \in MCDeletions }
    \cup { [uploads |-> <<>>, deletions |-> {}] }
    \cup { [uploads |-> <<u>>, deletions |-> {d}] :
             u \in { v \in Plain : v.expected = NoId },
             d \in { e \in MCDeletions : e.id \in {a1, b1} } }
    \cup { [uploads |-> <<u, v>>, deletions |-> {}] :
             u \in { w \in Plain : w.slot = a /\ w.expected \in {NoId, a1} },
             v \in { w \in Plain : w.id = b2 /\ w.expected = NoId } }

MCCursors == 0 .. MaxClock + 1
MCOldAccounts ==
    { [rows |-> {}, clock |-> 0], [rows |-> {[slot |-> a, seq |-> 1, id |-> a1]}, clock |-> 1] }
===============================================================================
