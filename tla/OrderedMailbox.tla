---------------------------- MODULE OrderedMailbox ----------------------------
(***************************************************************************)
(* What a mailbox may promise to the one actor that reads it: every batch  *)
(* it hands over holds messages that were sent, each later than all those  *)
(* handed over before it.  A message may be skipped for good (the batch    *)
(* need not hold everything that was sent), and the mailbox may lose its   *)
(* place (Forget) and then start again from the beginning.                 *)
(*                                                                         *)
(* Messages are numbered by the order in which the mailbox accepted them.  *)
(***************************************************************************)
EXTENDS Naturals, Sequences

CONSTANT Numbers   \* the numbers a message can have

VARIABLES
  sent,     \* numbers of the messages the mailbox holds
  handed,   \* the batches handed over, oldest first
  since     \* how many of them precede the last Forget

mailboxVars == <<sent, handed, since>>

\* Number n comes after everything handed over since the last Forget.
IsNew(n) == \A i \in since + 1 .. Len(handed) : \A h \in handed[i] : h < n

Init ==
  /\ sent = {}
  /\ handed = <<>>
  /\ since = 0

Send(n) ==
  /\ n \notin sent
  /\ sent' = sent \cup {n}
  /\ UNCHANGED <<handed, since>>

Hand(batch) ==
  /\ batch # {}
  /\ \A n \in batch : IsNew(n)
  /\ handed' = Append(handed, batch)
  /\ UNCHANGED <<sent, since>>

Forget ==
  /\ since' = Len(handed)
  /\ UNCHANGED <<sent, handed>>

Next ==
  \/ \E n \in Numbers : Send(n)
  \/ \E batch \in SUBSET sent : Hand(batch)
  \/ Forget

Spec == Init /\ [][Next]_mailboxVars
===============================================================================
