---------------------------- MODULE MCAccountLife ----------------------------
(* Two requests of clients at a time, next to the tick.                     *)
EXTENDS AccountLife

CONSTANTS r1, r2
===============================================================================
