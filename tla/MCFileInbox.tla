------------------------------ MODULE MCFileInbox ------------------------------
(* FileInbox on small instances: two sending processes and one polling one. *)
EXTENDS FileInbox

CONSTANTS s1, s2

MCSenders == {s1, s2}
================================================================================
