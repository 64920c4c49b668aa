-------------------------------- MODULE MCWakes --------------------------------
(***************************************************************************)
(* Two wakes due one after the other, two browsers and two endpoints, so   *)
(* that a browser can renew its own and take over the other's.  The        *)
(* account is new, or has a browser and the first wake: so one request,    *)
(* and two faults, may meet a wake that is owed.                           *)
(***************************************************************************)
EXTENDS Wakes

CONSTANTS w1, w2, d1, d2, e1, e2

MCWakeIds == {w1, w2}
MCSnapshots == {{w1, w2}, {w2}}
MCFireAt == [w \in MCWakeIds |-> IF w = w1 THEN 0 ELSE 1]
MCDevices == {d1, d2}
MCEndpoints == {e1, e2}
MCAccounts ==
    { [wakes |-> {}, revision |-> Never, devices |-> {}],
      [wakes |-> {w1}, revision |-> 1,
       devices |-> {[device |-> d1, endpoint |-> e1, updated |-> 0]}] }
===============================================================================
