---------------------------- MODULE GovernanceBlock ----------------------------
(* A maker's governance block and the ruling it gives on a kind of action:
   GovernanceBlock.rule (a2a_compliance/governance_block.py). *)
CONSTANTS Kinds, Obligations

Block == [actions : SUBSET Kinds, reserved : SUBSET Kinds, prohibited : SUBSET Kinds,
          obligations : SUBSET Obligations]

\* Mutant of Refuses: what is reserved may be approved, prohibited or not.
RefusesUnreserved(b, kind) ==
  \/ kind \in b.prohibited \ b.reserved
  \/ kind \notin b.reserved \cup b.actions

\* Prohibited wins over everything, and what is not declared is outside the boundary.
Refuses(b, kind) == kind \in b.prohibited \/ kind \notin b.reserved \cup b.actions
RoutesToHuman(b, kind) == kind \in b.reserved \ b.prohibited
================================================================================
