------------------------------- MODULE FileInbox -------------------------------
(***************************************************************************)
(* One mailbox of the file-backed inbox (a2a_compliance/inbox.py): any     *)
(* number of processes put, one process polls, and the only shared state   *)
(* is a directory.  A message is named by the sequence number it claimed.  *)
(*                                                                         *)
(* put is two separate file operations, the claim of a number and the      *)
(* rename that makes the message visible; poll is a cursor read, a         *)
(* directory scan and a cursor write, none of them atomic with another.    *)
(* Nothing is ever deleted from the directory.                             *)
(***************************************************************************)
EXTENDS Integers, Sequences, FiniteSets

CONSTANTS
  Senders,      \* processes that put into this mailbox
  MaxPuts,      \* bound: how many sequence numbers are claimed
  MaxCrashes    \* bound: how often the polling process dies inside poll

ASSUME BoundsAssumption == MaxPuts \in Nat /\ MaxCrashes \in Nat

VARIABLES
  claims,   \* the claim files .seq.0 .. .seq.(claims-1) exist
  files,    \* sequence numbers of the published message files
  cursor,   \* content of .cursor: a number, Missing or Torn
  sender,   \* sender[s]: the number s has claimed and not published, or NoSeq
  reader,   \* where the polling process is
  base,     \* the cursor it read
  early,    \* the files that existed when its scan began
  batch,    \* the messages it is about to return
  crashes,  \* crashes inside poll so far
  handed,   \* history: the batches poll committed to, oldest first
  since,    \* history: how many of them precede the last loss of the cursor
  overtaken \* history: messages published after a later one, or during a scan

vars == <<claims, files, cursor, sender, reader, base, early, batch, crashes,
          handed, since, overtaken>>

NoSeq   == -1
Missing == -1
Torn    == -2

\* Mutant of ReadCursor: the unparsable cursor is not caught.
ReadCursorRaw == cursor

\* _read_cursor: a missing and an unparsable cursor file both read as -1.
ReadCursor == IF cursor = Torn THEN Missing ELSE cursor

Init ==
  /\ claims = 0
  /\ files = {}
  /\ cursor = Missing
  /\ sender = [s \in Senders |-> NoSeq]
  /\ reader = "idle"
  /\ base = Missing
  /\ early = {}
  /\ batch = {}
  /\ crashes = 0
  /\ handed = <<>>
  /\ since = 0
  /\ overtaken = {}
--------------------------------------------------------------------------------
readerVars  == <<reader, base, early, batch, crashes>>
historyVars == <<handed, since>>

\* put, first half.  The loop of _next_seq ends on the first number that has no
\* claim file; claim files are never removed, so this is the lowest free one.
Claim(s) ==
  /\ sender[s] = NoSeq
  /\ claims < MaxPuts
  /\ sender' = [sender EXCEPT ![s] = claims]
  /\ claims' = claims + 1
  /\ UNCHANGED <<files, cursor, overtaken, readerVars, historyVars>>

\* put, second half: os.replace makes the message visible.
Publish(s) ==
  /\ sender[s] # NoSeq
  /\ files' = files \cup {sender[s]}
  /\ sender' = [sender EXCEPT ![s] = NoSeq]
  /\ overtaken' = IF reader = "scan" \/ \E f \in files : f > sender[s]
                  THEN overtaken \cup {sender[s]}
                  ELSE overtaken
  /\ UNCHANGED <<claims, cursor, readerVars, historyVars>>

\* put raises while writing the temporary file, or its process dies: the
\* temporary file may go, the claim stays.
AbandonPut(s) ==
  /\ sender[s] # NoSeq
  /\ sender' = [sender EXCEPT ![s] = NoSeq]
  /\ UNCHANGED <<claims, files, cursor, overtaken, readerVars, historyVars>>

\* poll reads the cursor and opens the directory.
OpenPoll ==
  /\ reader = "idle"
  /\ reader' = "scan"
  /\ base' = ReadCursor
  /\ early' = files
  /\ UNCHANGED <<claims, files, cursor, sender, batch, crashes, overtaken,
                 historyVars>>

\* Mutants of Scan: it hands the last message over again, or skips one.
ScanFrom(first) ==
  /\ reader = "scan"
  /\ batch' = {f \in files : f >= first}
  /\ reader' = IF batch' = {} THEN "idle" ELSE "truncate"
  /\ early' = {}
  /\ UNCHANGED <<claims, files, cursor, sender, base, crashes, overtaken,
                 historyVars>>
ScanRereads == ScanFrom(base)
ScanSkips == ScanFrom(base + 2)

\* poll has scanned the directory.  A file that appeared during the scan may be
\* listed or not; with nothing beyond the cursor, poll returns [].
Scan ==
  /\ reader = "scan"
  /\ \E late \in SUBSET (files \ early) :
       batch' = {f \in early \cup late : f > base}
  /\ reader' = IF batch' = {} THEN "idle" ELSE "truncate"
  /\ early' = {}
  /\ UNCHANGED <<claims, files, cursor, sender, base, crashes, overtaken,
                 historyVars>>

\* _write_cursor opens the file for writing, which empties it ...
Truncate ==
  /\ reader = "truncate"
  /\ cursor' = Torn
  /\ reader' = "write"
  /\ UNCHANGED <<claims, files, sender, base, early, batch, crashes, overtaken,
                 historyVars>>

\* Mutant of WriteCursor: the cursor goes to the last number claimed.
WriteCursorToClaims ==
  /\ reader = "write"
  /\ cursor' = claims - 1
  /\ handed' = Append(handed, batch)
  /\ batch' = {}
  /\ reader' = "idle"
  /\ UNCHANGED <<claims, files, sender, base, early, crashes, overtaken, since>>

\* ... and writes the last number of the batch; poll returns the batch.
WriteCursor ==
  /\ reader = "write"
  /\ \E last \in batch : (\A f \in batch : f <= last) /\ cursor' = last
  /\ handed' = Append(handed, batch)
  /\ batch' = {}
  /\ reader' = "idle"
  /\ UNCHANGED <<claims, files, sender, base, early, crashes, overtaken, since>>

\* The polling process dies inside poll and starts again.  Only a death between
\* the two halves of _write_cursor leaves a trace, the emptied cursor.
Crash ==
  /\ reader # "idle"
  /\ crashes < MaxCrashes
  /\ crashes' = crashes + 1
  /\ reader' = "idle"
  /\ batch' = {}
  /\ early' = {}
  /\ since' = IF reader = "write" THEN Len(handed) ELSE since
  /\ UNCHANGED <<claims, files, cursor, sender, base, overtaken, handed>>

Poll == OpenPoll \/ Scan \/ Truncate \/ WriteCursor

Next ==
  \/ \E s \in Senders : Claim(s) \/ Publish(s) \/ AbandonPut(s)
  \/ Poll
  \/ Crash

Spec == Init /\ [][Next]_vars

\* The owner of the mailbox polls again and again (a maker at its turn
\* boundaries, the compliance agent through collect_replies), and a poll that
\* has begun goes on.  Senders owe nothing.
FairSpec == Spec /\ WF_vars(Poll)
--------------------------------------------------------------------------------
Seqs == 0 .. claims - 1

TypeOK ==
  /\ claims \in 0 .. MaxPuts
  /\ files \subseteq Seqs
  /\ cursor \in Seqs \cup {Missing, Torn}
  /\ sender \in [Senders -> Seqs \cup {NoSeq}]
  /\ reader \in {"idle", "scan", "truncate", "write"}
  /\ base \in Seqs \cup {Missing}
  /\ early \subseteq files
  /\ batch \subseteq files
  /\ crashes \in 0 .. MaxCrashes
  /\ handed \in Seq(SUBSET files)
  /\ since \in 0 .. Len(handed)
  /\ overtaken \subseteq files

HandedOver == UNION {handed[i] : i \in 1 .. Len(handed)}

\* The last number the reader has put behind it: the cursor it last read while
\* a poll runs, else the cursor in the file.
Position == IF reader = "idle" THEN ReadCursor ELSE base

\* A message the cursor has passed was handed over, unless it was overtaken: a
\* later number was published before it, or it appeared during a scan.  Together
\* with EventuallyHanded this delimits what put/poll can lose.
LostOnlyIfOvertaken ==
  \A f \in files : f <= Position => f \in HandedOver \cup overtaken

\* Between two losses of the cursor, poll hands messages over in order and each
\* at most once, and only messages that were put: the mailbox of OrderedMailbox.
Mailbox == INSTANCE OrderedMailbox WITH Numbers <- 0 .. MaxPuts - 1, sent <- files
InOrderAtMostOnce == Mailbox!Spec

\* A message that was not overtaken reaches the reader, whatever else is sent
\* and however often the reader dies inside poll.
EventuallyHanded ==
  \A n \in 0 .. MaxPuts - 1 : n \in files \ overtaken ~> n \in HandedOver

\* docs/transport.md says the mailbox "is durable across process exit and
\* delivers in order": a published message the cursor has passed was handed
\* over.  The code breaks it when two puts overlap.
NothingSkipped == \A f \in files : f <= Position => f \in HandedOver
================================================================================
