------------------------------- MODULE SingleUse -------------------------------
(***************************************************************************)
(* The promise made of every single-use token in this system, a permit or  *)
(* an approval receipt: whoever presents it, however often and however     *)
(* concurrently, it authorises at most one act.                            *)
(***************************************************************************)
EXTENDS Naturals

CONSTANT Tokens

VARIABLE acts   \* acts[t]: how many acts token t has authorised

Init == acts = [t \in Tokens |-> 0]

Act(t) ==
  /\ acts[t] = 0
  /\ acts' = [acts EXCEPT ![t] = 1]

Next == \E t \in Tokens : Act(t)

Spec == Init /\ [][Next]_acts
================================================================================
