---------------------------- MODULE FileInboxProofs ----------------------------
(***************************************************************************)
(* Proofs about FileInbox: it is type correct, loses nothing but overtaken *)
(* messages, and implements OrderedMailbox.                                *)
(***************************************************************************)
EXTENDS FileInbox, TLAPS

\* Two puts in flight never hold one number, and never the number of a file.
NumbersAreExclusive ==
  /\ \A s, t \in Senders : s # t /\ sender[s] # NoSeq => sender[s] # sender[t]
  /\ \A s \in Senders : sender[s] \notin files

\* Everything handed over since the cursor was last lost lies behind Position.
HandedBehind ==
  \A i \in since + 1 .. Len(handed) : \A h \in handed[i] : h <= Position

\* Until it writes, a poll's view of the cursor is the cursor.
BaseIsCurrent ==
  /\ reader \in {"scan", "truncate"} => base = ReadCursor
  /\ reader = "write" => cursor = Torn

\* What a poll is about to return lies ahead of the cursor it read.
BatchAhead ==
  /\ \A f \in batch : base < f
  /\ reader \in {"truncate", "write"} <=> batch # {}

IInv ==
  /\ TypeOK
  /\ NumbersAreExclusive
  /\ HandedBehind
  /\ BaseIsCurrent
  /\ BatchAhead

LEMMA AppendType ==
  ASSUME NEW S, NEW T, S \subseteq T, NEW q \in Seq(SUBSET S), NEW b \in SUBSET T
  PROVE  Append(q, b) \in Seq(SUBSET T) /\ q \in Seq(SUBSET T)
  OBVIOUS

LEMMA InitIInv == Init => IInv
  BY BoundsAssumption
  DEF Init, IInv, TypeOK, NumbersAreExclusive, HandedBehind, BaseIsCurrent,
      BatchAhead, Position, ReadCursor, Seqs, NoSeq, Missing, Torn

\* The type invariant is preserved by every step.
LEMMA TypeStep == TypeOK /\ [Next]_vars => TypeOK'
  <1> SUFFICES ASSUME TypeOK, [Next]_vars PROVE TypeOK'
    OBVIOUS
  <1> USE BoundsAssumption DEF TypeOK, Seqs, NoSeq, Missing, Torn, readerVars, historyVars
  <1>1. ASSUME NEW s \in Senders, Claim(s) PROVE TypeOK'
    BY <1>1 DEF Claim
  <1>2. ASSUME NEW s \in Senders, Publish(s) PROVE TypeOK'
    <2>1. handed \in Seq(SUBSET files')
      BY <1>2, AppendType DEF Publish
    <2>2. QED
      BY <1>2, <2>1 DEF Publish
  <1>3. ASSUME NEW s \in Senders, AbandonPut(s) PROVE TypeOK'
    BY <1>3 DEF AbandonPut
  <1>4. CASE OpenPoll
    BY <1>4 DEF OpenPoll, ReadCursor
  <1>5. CASE Scan
    BY <1>5 DEF Scan
  <1>6. CASE Truncate
    BY <1>6 DEF Truncate
  <1>7. CASE WriteCursor
    <2>1. handed' \in Seq(SUBSET files) /\ Len(handed') = Len(handed) + 1
      BY <1>7, AppendType DEF WriteCursor
    <2>2. QED
      BY <1>7, <2>1 DEF WriteCursor
  <1>8. CASE Crash
    BY <1>8 DEF Crash
  <1>9. CASE UNCHANGED vars
    BY <1>9 DEF vars
  <1>10. QED
    BY <1>1, <1>2, <1>3, <1>4, <1>5, <1>6, <1>7, <1>8, <1>9 DEF Next, Poll

\* Every reachable state is well typed.
THEOREM TypeCorrect == Spec => []TypeOK
  <1>1. Init => TypeOK
    BY InitIInv DEF IInv
  <1>2. QED
    BY <1>1, TypeStep, PTL DEF Spec
--------------------------------------------------------------------------------
\* IInv is inductive.
LEMMA IInvStep == IInv /\ [Next]_vars => IInv'
  <1> SUFFICES ASSUME IInv, [Next]_vars PROVE IInv'
    OBVIOUS
  <1> USE BoundsAssumption
      DEF NumbersAreExclusive, BaseIsCurrent, BatchAhead, Seqs, NoSeq, Missing,
          Torn, readerVars, historyVars
  <1>0. TypeOK /\ TypeOK'
    BY TypeStep DEF IInv
  <1> SUFFICES /\ NumbersAreExclusive'
               /\ HandedBehind'
               /\ BaseIsCurrent'
               /\ BatchAhead'
    BY <1>0 DEF IInv
  <1>1. ASSUME NEW s \in Senders, Claim(s)
        PROVE  NumbersAreExclusive' /\ HandedBehind' /\ BaseIsCurrent' /\ BatchAhead'
    BY <1>0, <1>1 DEF IInv, TypeOK, Claim, HandedBehind, Position, ReadCursor
  <1>2. ASSUME NEW s \in Senders, Publish(s)
        PROVE  NumbersAreExclusive' /\ HandedBehind' /\ BaseIsCurrent' /\ BatchAhead'
    BY <1>0, <1>2 DEF IInv, TypeOK, Publish, HandedBehind, Position, ReadCursor
  <1>3. ASSUME NEW s \in Senders, AbandonPut(s)
        PROVE  NumbersAreExclusive' /\ HandedBehind' /\ BaseIsCurrent' /\ BatchAhead'
    BY <1>0, <1>3 DEF IInv, TypeOK, AbandonPut, HandedBehind, Position, ReadCursor
  <1>4. CASE OpenPoll
    BY <1>0, <1>4 DEF IInv, TypeOK, OpenPoll, HandedBehind, Position, ReadCursor
  <1>5. CASE Scan
    BY <1>0, <1>5 DEF IInv, TypeOK, Scan, HandedBehind, Position, ReadCursor
  <1>6. CASE Truncate
    BY <1>0, <1>6 DEF IInv, TypeOK, Truncate, HandedBehind, Position, ReadCursor
  <1>7. CASE WriteCursor
    <2>1. NumbersAreExclusive' /\ BaseIsCurrent' /\ BatchAhead'
      BY <1>0, <1>7 DEF IInv, TypeOK, WriteCursor
    <2>2. PICK last \in batch : (\A f \in batch : f <= last) /\ cursor' = last
      BY <1>7 DEF WriteCursor
    <2>3. Position' = last /\ base < last
      BY <1>0, <1>7, <2>2 DEF IInv, TypeOK, WriteCursor, Position, ReadCursor
    <2>4. ASSUME NEW i \in since' + 1 .. Len(handed'), NEW h \in handed'[i]
          PROVE  h <= Position'
      <3>1. CASE i = Len(handed) + 1
        <4>1. handed' = Append(handed, batch) /\ handed \in Seq(SUBSET files)
          BY <1>0, <1>7 DEF TypeOK, WriteCursor
        <4>2. handed'[i] = batch
          BY <3>1, <4>1
        <4>3. h \in batch
          BY <4>2
        <4>4. QED
          BY <2>2, <2>3, <4>3
      <3>2. CASE i # Len(handed) + 1
        <4>1. i \in since + 1 .. Len(handed) /\ handed'[i] = handed[i]
          BY <1>0, <1>7, <3>2 DEF TypeOK, WriteCursor
        <4>2. h <= base
          BY <1>7, <4>1 DEF IInv, HandedBehind, Position, WriteCursor
        <4>3. h \in files
          BY <1>0, <4>1 DEF TypeOK
        <4>4. QED
          BY <1>0, <2>2, <2>3, <4>2, <4>3 DEF TypeOK
      <3>3. QED
        BY <3>1, <3>2
    <2>5. QED
      BY <2>1, <2>4 DEF HandedBehind
  <1>8. CASE Crash
    BY <1>0, <1>8 DEF IInv, TypeOK, Crash, HandedBehind, Position, ReadCursor
  <1>9. CASE UNCHANGED vars
    BY <1>9 DEF IInv, vars, HandedBehind, Position, ReadCursor
  <1>10. QED
    BY <1>1, <1>2, <1>3, <1>4, <1>5, <1>6, <1>7, <1>8, <1>9 DEF Next, Poll

LEMMA IInvCorrect == Spec => []IInv
  BY InitIInv, IInvStep, PTL DEF Spec
--------------------------------------------------------------------------------
\* Every step of the inbox is a step of the abstract mailbox, or stutters.
LEMMA MailboxStep == IInv /\ [Next]_vars => [Mailbox!Next]_Mailbox!mailboxVars
  <1> SUFFICES ASSUME IInv, [Next]_vars
               PROVE  Mailbox!Next \/ UNCHANGED Mailbox!mailboxVars
    OBVIOUS
  <1> USE BoundsAssumption
      DEF Mailbox!mailboxVars, Seqs, NoSeq, Missing, Torn, readerVars, historyVars
  <1>0. TypeOK
    BY DEF IInv
  <1>1. ASSUME NEW s \in Senders, Publish(s)
        PROVE  Mailbox!Next
    <2>1. sender[s] \in 0 .. MaxPuts - 1 /\ sender[s] \notin files
      BY <1>0, <1>1 DEF Publish, TypeOK, IInv, NumbersAreExclusive
    <2>2. Mailbox!Send(sender[s])
      BY <1>1, <2>1 DEF Publish, Mailbox!Send
    <2>3. QED
      BY <2>1, <2>2 DEF Mailbox!Next
  <1>2. CASE WriteCursor
    <2>1. batch \in SUBSET files /\ batch # {}
      BY <1>0, <1>2 DEF WriteCursor, TypeOK
    <2>2. ASSUME NEW n \in batch PROVE Mailbox!IsNew(n)
      <3>1. ASSUME NEW i \in since + 1 .. Len(handed), NEW h \in handed[i]
            PROVE  h < n
        <4>1. h <= base /\ base < n
          BY <1>2 DEF IInv, HandedBehind, BatchAhead, Position, WriteCursor
        <4>2. handed[i] \in SUBSET files
          BY <1>0 DEF TypeOK
        <4>3. h \in files /\ n \in files
          BY <2>1, <4>2
        <4>4. files \subseteq Int /\ base \in Int
          BY <1>0 DEF TypeOK
        <4>5. h \in Int /\ n \in Int /\ base \in Int
          BY <4>3, <4>4
        <4>6. QED
          BY <4>1, <4>5
      <3>2. QED
        BY <3>1 DEF Mailbox!IsNew
    <2>3. Mailbox!Hand(batch)
      BY <1>2, <2>1, <2>2 DEF WriteCursor, Mailbox!Hand
    <2>4. QED
      BY <2>1, <2>3 DEF Mailbox!Next
  <1>3. CASE Crash
    BY <1>3 DEF Crash, Mailbox!Next, Mailbox!Forget
  <1>4. ASSUME NEW s \in Senders, Claim(s) \/ AbandonPut(s)
        PROVE  UNCHANGED Mailbox!mailboxVars
    BY <1>4 DEF Claim, AbandonPut
  <1>5. CASE OpenPoll \/ Scan \/ Truncate
    BY <1>5 DEF OpenPoll, Scan, Truncate
  <1>6. CASE UNCHANGED vars
    BY <1>6 DEF vars
  <1>7. QED
    BY <1>1, <1>2, <1>3, <1>4, <1>5, <1>6 DEF Next, Poll

\* The file-backed mailbox hands messages over in order, at most once between
\* two losses of its cursor, and only messages that were put.
THEOREM InboxIsOrderedMailbox == Spec => InOrderAtMostOnce
  <1>1. Init => Mailbox!Init
    BY DEF Init, Mailbox!Init
  <1>2. QED
    BY <1>1, MailboxStep, IInvCorrect, PTL DEF Spec, InOrderAtMostOnce, Mailbox!Spec
--------------------------------------------------------------------------------
\* The cursor never names a number that was not published.
CursorIsFile == cursor \in files \cup {Missing, Torn} /\ base \in files \cup {Missing}

\* What a running scan did not find at its start, it overlapped with.
ScanOverlap == reader = "scan" => files \ early \subseteq overtaken

\* A poll returns everything between the cursor it read and the cursor it
\* writes, except what was overtaken.
BatchComplete ==
  reader \in {"truncate", "write"} =>
    \A f \in files, b \in batch : base < f /\ f <= b => f \in batch \cup overtaken

LossInv == LostOnlyIfOvertaken /\ CursorIsFile /\ ScanOverlap /\ BatchComplete

\* What was handed over stays so, and a new batch adds itself.
LEMMA HandedOverGrows ==
  ASSUME TypeOK
  PROVE  /\ WriteCursor => HandedOver' = HandedOver \cup batch
         /\ handed' = handed => HandedOver' = HandedOver
  <1>1. ASSUME WriteCursor PROVE HandedOver' = HandedOver \cup batch
    <2>1. /\ Len(handed') = Len(handed) + 1
          /\ handed'[Len(handed) + 1] = batch
          /\ \A i \in 1 .. Len(handed) : handed'[i] = handed[i]
          /\ Len(handed) \in Nat
      BY <1>1 DEF TypeOK, WriteCursor
    <2>2. 1 .. Len(handed') = (1 .. Len(handed)) \cup {Len(handed) + 1}
      BY <2>1
    <2>3. QED
      BY <2>1, <2>2 DEF HandedOver
  <1>2. QED
    BY <1>1 DEF HandedOver

LEMMA LossStep == IInv /\ LossInv /\ [Next]_vars => LossInv'
  <1> SUFFICES ASSUME IInv, LossInv, [Next]_vars PROVE LossInv'
    OBVIOUS
  <1> USE BoundsAssumption
      DEF LossInv, CursorIsFile, ScanOverlap, BatchComplete, Seqs, NoSeq,
          Missing, Torn, readerVars, historyVars, LostOnlyIfOvertaken, ReadCursor,
          Position
  <1>0. TypeOK /\ TypeOK'
    BY TypeStep DEF IInv
  <1>1. ASSUME NEW s \in Senders, Claim(s) PROVE LossInv'
    BY <1>0, <1>1, HandedOverGrows DEF TypeOK, Claim
  <1>2. ASSUME NEW s \in Senders, Publish(s) PROVE LossInv'
    BY <1>0, <1>2, HandedOverGrows DEF TypeOK, Publish
  <1>3. ASSUME NEW s \in Senders, AbandonPut(s) PROVE LossInv'
    BY <1>0, <1>3, HandedOverGrows DEF TypeOK, AbandonPut
  <1>4. CASE OpenPoll
    BY <1>0, <1>4, HandedOverGrows DEF TypeOK, OpenPoll
  <1>5. CASE Scan
    BY <1>0, <1>5, HandedOverGrows DEF TypeOK, Scan, IInv, BaseIsCurrent
  <1>6. CASE Truncate
    BY <1>0, <1>6, HandedOverGrows DEF TypeOK, Truncate
  <1>7. CASE WriteCursor
    BY <1>0, <1>7, HandedOverGrows DEF TypeOK, WriteCursor, IInv, BatchAhead
  <1>8. CASE Crash
    BY <1>0, <1>8, HandedOverGrows DEF TypeOK, Crash, IInv, BaseIsCurrent
  <1>9. CASE UNCHANGED vars
    BY <1>0, <1>9, HandedOverGrows DEF vars
  <1>10. QED
    BY <1>1, <1>2, <1>3, <1>4, <1>5, <1>6, <1>7, <1>8, <1>9 DEF Next, Poll

\* The only messages the cursor ever passes without handing them over are those
\* published after a later one, or while a poll was scanning the directory.
THEOREM LossIsDelimited == Spec => []LostOnlyIfOvertaken
  <1>1. Init => LossInv
    BY DEF Init, LossInv, LostOnlyIfOvertaken, CursorIsFile, ScanOverlap,
           BatchComplete, Missing
  <1>2. QED
    BY <1>1, LossStep, IInvCorrect, PTL DEF Spec, LossInv
--------------------------------------------------------------------------------
(* Puts that keep out of each other's way *)

\* A put begins only when no other put is under way and no poll is scanning.
PutsKeepApart ==
  claims' # claims => (\A s \in Senders : sender[s] = NoSeq) /\ reader # "scan"

\* At most one put is under way, and its number is the highest.
OneInFlight ==
  /\ \A s, t \in Senders : sender[s] # NoSeq /\ sender[t] # NoSeq => s = t
  /\ \A s \in Senders : sender[s] # NoSeq => \A f \in files : f < sender[s]

\* During a scan at most one file appears, the highest, and then no other put is
\* under way.
OneLate ==
  reader = "scan" =>
    \A f \in files \ early :
      /\ \A g \in files : g <= f
      /\ \A g \in files \ early : g = f
      /\ \A s \in Senders : sender[s] = NoSeq

\* A poll returns everything between the cursor it read and the one it writes.
BatchWhole ==
  reader \in {"truncate", "write"} =>
    \A f \in files, b \in batch : base < f /\ f <= b => f \in batch

ApartInv == OneInFlight /\ OneLate /\ BatchWhole /\ NothingSkipped

LEMMA ApartStep == IInv /\ LossInv /\ ApartInv /\ PutsKeepApart /\ [Next]_vars => ApartInv'
  <1> SUFFICES ASSUME IInv, LossInv, ApartInv, PutsKeepApart, [Next]_vars PROVE ApartInv'
    OBVIOUS
  <1> USE BoundsAssumption
      DEF ApartInv, OneInFlight, OneLate, BatchWhole, NothingSkipped, Seqs, NoSeq,
          Missing, Torn, readerVars, historyVars, ReadCursor, Position
  <1>0. TypeOK /\ TypeOK' /\ CursorIsFile
    BY TypeStep DEF IInv, LossInv
  <1>1. ASSUME NEW s \in Senders, Claim(s) PROVE ApartInv'
    <2>1. claims' # claims
      BY <1>0, <1>1 DEF TypeOK, Claim
    <2>2. (\A t \in Senders : sender[t] = NoSeq) /\ reader # "scan"
      BY <2>1 DEF PutsKeepApart
    <2> QED
      BY <1>0, <1>1, <2>2, HandedOverGrows DEF TypeOK, Claim
  <1>2. ASSUME NEW s \in Senders, Publish(s) PROVE ApartInv'
    <2>1. sender[s] \in Int /\ files' = files \cup {sender[s]}
          /\ \A f \in files : f \in Int /\ f < sender[s]
      BY <1>0, <1>2 DEF TypeOK, Publish
    <2>2. \A t \in Senders : sender'[t] = NoSeq
      BY <1>0, <1>2 DEF TypeOK, Publish
    <2>3. OneInFlight' /\ OneLate'
      BY <1>0, <1>2, <2>1, <2>2 DEF TypeOK, Publish
    <2>4. BatchWhole'
      BY <1>0, <1>2, <2>1 DEF TypeOK, Publish
    <2>5. Position' = Position /\ HandedOver' = HandedOver
      BY <1>0, <1>2, HandedOverGrows DEF Publish
    <2>6. Position \in files \cup {Missing}
      BY <1>0 DEF CursorIsFile
    <2>7. Position < sender[s]
      BY <1>0, <1>2, <2>1, <2>6 DEF TypeOK, Publish
    <2> QED
      BY <1>0, <2>1, <2>3, <2>4, <2>5, <2>6, <2>7
  <1>3. ASSUME NEW s \in Senders, AbandonPut(s) PROVE ApartInv'
    BY <1>0, <1>3, HandedOverGrows DEF TypeOK, AbandonPut
  <1>4. CASE OpenPoll
    BY <1>0, <1>4, HandedOverGrows DEF TypeOK, OpenPoll
  <1>5. CASE Scan
    <2>1. PICK late \in SUBSET (files \ early) : batch' = {f \in early \cup late : f > base}
      BY <1>5 DEF Scan
    <2>2. ASSUME NEW f \in files, NEW b \in batch', base < f, f <= b PROVE f \in batch'
      <3>1. CASE f \in early
        BY <1>0, <2>1, <2>2, <3>1 DEF TypeOK
      <3>2. CASE f \notin early
        <4>1. b \in files /\ b <= f /\ f \in Int /\ b \in Int
          BY <1>0, <1>5, <2>1, <3>2 DEF TypeOK, Scan
        <4>2. b = f
          BY <2>2, <4>1
        <4> QED
          BY <2>2, <4>2
      <3> QED
        BY <3>1, <3>2
    <2> QED
      BY <1>0, <1>5, <2>2, HandedOverGrows DEF TypeOK, Scan, IInv, BaseIsCurrent
  <1>6. CASE Truncate
    BY <1>0, <1>6, HandedOverGrows DEF TypeOK, Truncate
  <1>7. CASE WriteCursor
    BY <1>0, <1>7, HandedOverGrows DEF TypeOK, WriteCursor, IInv, BatchAhead, CursorIsFile
  <1>8. CASE Crash
    BY <1>0, <1>8, HandedOverGrows DEF TypeOK, Crash, IInv, BaseIsCurrent
  <1>9. CASE UNCHANGED vars
    BY <1>0, <1>9, HandedOverGrows DEF vars
  <1>10. QED
    BY <1>1, <1>2, <1>3, <1>4, <1>5, <1>6, <1>7, <1>8, <1>9 DEF Next, Poll

\* What docs/transport.md says of the mailbox, and MCFileInboxSkip refutes, does
\* hold where puts keep apart: nothing is skipped, however often the reader dies
\* and wherever in a poll a put ends.
THEOREM PutsApartLoseNothing == Spec /\ [][PutsKeepApart]_vars => []NothingSkipped
  <1>1. Init => LossInv /\ ApartInv
    BY DEF Init, LossInv, LostOnlyIfOvertaken, CursorIsFile, ScanOverlap, BatchComplete,
           ApartInv, OneInFlight, OneLate, BatchWhole, NothingSkipped, Missing
  <1>2. ApartInv => NothingSkipped
    BY DEF ApartInv
  <1>3. IInv /\ LossInv /\ ApartInv /\ [Next /\ PutsKeepApart]_vars => ApartInv'
    <2>1. UNCHANGED vars => PutsKeepApart
      BY DEF vars, PutsKeepApart
    <2> QED
      BY <2>1, ApartStep
  <1> QED
    BY <1>1, <1>2, <1>3, LossStep, IInvCorrect, PTL DEF Spec
================================================================================
