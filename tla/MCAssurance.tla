------------------------------ MODULE MCAssurance ------------------------------
(* Assurance on small instances: two permits of one action, and an
   advisory one of another. *)
EXTENDS Assurance, TLC

MCActionOf   == [p \in Permits |-> IF p = "p3" THEN "delete" ELSE "run"]
MCToolOf     == [p \in Permits |-> IF p = "p3" THEN "eraser" ELSE "runner"]
MCIssuerOf   == [p \in Permits |-> "issuer"]
MCRecorderOf == [p \in Permits |-> IF p = "p1" THEN "executor" ELSE "certifier"]
MCIntentions == {<<>>, [t \in {"runner"} |-> "done"]}
MCLapsing    == {<<"permit", "p1">>, <<"receipt", "p1">>, <<"source", "norms">>}
================================================================================
