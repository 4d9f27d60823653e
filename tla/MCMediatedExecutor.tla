-------------------------- MODULE MCMediatedExecutor --------------------------
(* MediatedExecutor on small instances. *)
EXTENDS MediatedExecutor, TLC

Permit(act, binds, grade, aud) ==
  [key |-> "k1", action |-> act, binds |-> binds, grade |-> grade, aud |-> aud]

\* Permits of one nonce: for anyone; for one executor, with constraints that bind a
\* call that is not the action; an advisory one; one that binds half of aud and cnf,
\* and no call; and one of an action that is not admitted.
MCForms ==
  {Permit("build", "run", "mediated", "anyone"),
   Permit("build", "delete", "platform", "exec1"),
   Permit("build", "run", "advisory", "anyone"),
   Permit("build", "unbound", "mediated", "half"),
   Permit("wipe", "delete", "mediated", "anyone")}

LapsingForms == {Permit("build", "run", "mediated", "anyone")}

MCIdentityOf == [c1 |-> "exec1", c2 |-> "exec2"]

TwoStores == [t \in Issuers \cup Callers |-> IF t \in Issuers THEN "issued" ELSE "dispatched"]
================================================================================
