----------------------------- MODULE RunLifecycle -----------------------------
(***************************************************************************)
(* The order in which a run may become certified, action by action: first  *)
(* it is admitted, then dispatched, then reconciled cleanly, then          *)
(* certified.  No stage is skipped and none is taken back, so that nothing *)
(* a later stage finds out can admit an execution after the fact.          *)
(***************************************************************************)
EXTENDS Naturals

CONSTANT Actions

VARIABLE stage   \* stage[a]: 0 planned, 1 admitted, 2 dispatched, 3 reconciled, 4 certified

Init == stage = [a \in Actions |-> 0]

Advance(a) == stage[a] < 4 /\ stage' = [stage EXCEPT ![a] = @ + 1]

Next == \E a \in Actions : Advance(a)

Spec == Init /\ [][Next]_stage
================================================================================
