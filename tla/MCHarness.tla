------------------------------- MODULE MCHarness -------------------------------
(* Harness on small instances: the process driver, and a host's driver with
   everything wired or nothing. *)
EXTENDS Harness

Host(wired) == [kind |-> "host", stops |-> wired, delivers |-> wired, tells |-> wired]

MCDrivers == {[kind |-> "process"], Host(TRUE), Host(FALSE)}
================================================================================
