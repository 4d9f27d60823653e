---------------------------- MODULE MCHaltApproval ----------------------------
(* HaltApproval on small instances: two threads of one agent. *)
EXTENDS HaltApproval, TLC

Receipt(scope, agent, maker, approver, humanKey) ==
  [run |-> "run", scope |-> scope, agent |-> agent, maker |-> maker,
   approver |-> approver, humanKey |-> humanKey]

\* Two next-action receipts of one run for different halts, a session receipt,
\* one signed by a key that is not a human's, one the halted maker approved
\* and one with a scope of its own.
AllReceipts ==
  [next1   |-> Receipt("next-action", "a1", "m1", "human", TRUE),
   next2   |-> Receipt("next-action", "a1", "m2", "human", TRUE),
   session |-> Receipt("session", "a1", "m1", "human", TRUE),
   forged  |-> Receipt("session", "a1", "m1", "human", FALSE),
   bymaker |-> Receipt("next-action", "a1", "m1", "m1", TRUE),
   other   |-> Receipt("other", "a1", "m2", "human", TRUE)]

MCReceiptInfo == [r \in Receipts |-> AllReceipts[r]]

OneAgent    == [t \in Threads |-> "a1"]
SharedStore == [a \in Agents |-> "store"]
MCOverseen  == Agents \X {"m1", "m2"}
================================================================================
