----------------------------- MODULE HarnessProofs -----------------------------
(***************************************************************************)
(* Theorems about Harness, for any number of threads, sessions, makers,    *)
(* messages and restarts, and for every driver.                            *)
(***************************************************************************)
EXTENDS Harness, TLAPS

--------------------------------------------------------------------------------
(* The inductive invariant. *)

Held == {"record", "deliver", "stop", "wait", "kill", "waitkilled"}

\* A thread that carries a handle carries one of its call's session.
Carried ==
  \A c \in Callers :
    /\ pc[c] \in Held =>
         /\ target[c] \in Makers
         /\ maker[target[c]] # "unborn"
         /\ session[target[c]] = call[c].session
    /\ pc[c] \in {"stop", "wait", "kill", "waitkilled"} => call[c].op = "stop"
    /\ pc[c] = "deliver" => call[c].op = "deliver"
    /\ pc[c] \in {"look", "deliver"} /\ call[c].op = "deliver" => call[c].message # NoMessage
    /\ pc[c] = "put" => call[c].message # NoMessage
    /\ pc[c] = "look" => call[c].op \in {"deliver", "stop"}

\* A recorded handle is of its session; what is ours was born; the unborn have nothing.
Recorded ==
  /\ \A s \in Sessions :
       handles[s] # NoMaker => maker[handles[s]] # "unborn" /\ session[handles[s]] = s
  /\ \A m \in ours : maker[m] # "unborn"
  /\ \A m \in Makers : maker[m] = "unborn" => got[m] = {}

\* An answer is that of the last call, and stands until the next one.
Answered ==
  \A c \in Callers :
    result[c] = "terminated" =>
      /\ pc[c] = "idle"
      /\ target[c] \in Makers

Inv == TypeOK /\ Carried /\ Recorded /\ Answered /\ StopTellsTheTruth
           /\ InReachUnlessRespawned /\ NothingDropped
--------------------------------------------------------------------------------
LEMMA InitInv == Init => Inv
<1> SUFFICES ASSUME Init PROVE Inv
  OBVIOUS
<1> USE HarnessAssumption
<1>1. (CHOOSE s \in Sessions : TRUE) \in Sessions
  BY DEF HarnessAssumption
<1>2. TypeOK
  BY <1>1 DEF Init, TypeOK, Call, HarnessAssumption
<1>3. QED
  BY <1>2 DEF Init, Inv, Carried, Recorded, Answered, Held, StopTellsTheTruth,
              InReachUnlessRespawned, NothingDropped, Live

LEMMA SpawnInv ==
  ASSUME Inv, NEW c \in Callers, NEW s \in Sessions, NEW m \in Makers, Spawn(c, s, m)
  PROVE  Inv'
<1> USE HarnessAssumption DEF HarnessAssumption, Inv
<1>1. TypeOK'
  BY DEF Spawn, Begin, Goto, Live, TypeOK, Call
<1>2. Carried'
  BY DEF Spawn, Begin, Goto, Live, TypeOK, Carried, Recorded, Held, Call
<1>3. Recorded'
  BY DEF Spawn, Begin, Goto, Live, TypeOK, Carried, Recorded, Held, Call
<1>4. Answered'
  BY DEF Spawn, Begin, Goto, Live, TypeOK, Carried, Answered, Held, Call
<1>5. StopTellsTheTruth'
  BY DEF Spawn, Begin, Goto, Live, TypeOK, Carried, Recorded, Answered, Held,
         StopTellsTheTruth, Call
<1>6. InReachUnlessRespawned'
  BY DEF Spawn, Begin, Goto, Live, TypeOK, Carried, Recorded, Held, InReachUnlessRespawned,
         Alone, Call
<1>7. NothingDropped'
  BY DEF Spawn, Begin, Goto, Live, TypeOK, Carried, Recorded, Held, NothingDropped, Call
<1>8. QED
  BY <1>1, <1>2, <1>3, <1>4, <1>5, <1>6, <1>7

LEMMA RecordHandleInv ==
  ASSUME Inv, NEW c \in Callers, RecordHandle(c)
  PROVE  Inv'
<1> USE HarnessAssumption DEF HarnessAssumption, Inv
<1>1. TypeOK'
  BY DEF RecordHandle, Goto, Return, Live, TypeOK, Call
<1>2. Carried'
  BY DEF RecordHandle, Goto, Return, Live, TypeOK, Carried, Recorded, Held, Call
<1>3. Recorded'
  BY DEF RecordHandle, Goto, Return, Live, TypeOK, Carried, Recorded, Held, Call
<1>4. Answered'
  BY DEF RecordHandle, Goto, Return, Live, TypeOK, Carried, Answered, Held, Call
<1>5. StopTellsTheTruth'
  BY DEF RecordHandle, Goto, Return, Live, TypeOK, Carried, Recorded, Answered, Held,
         StopTellsTheTruth, Call
<1>6. InReachUnlessRespawned'
  BY DEF RecordHandle, Goto, Return, Live, TypeOK, Carried, Recorded, Held,
         InReachUnlessRespawned, Alone, Call
<1>7. NothingDropped'
  BY DEF RecordHandle, Goto, Return, Live, TypeOK, Carried, Recorded, Held, NothingDropped,
         Call
<1>8. QED
  BY <1>1, <1>2, <1>3, <1>4, <1>5, <1>6, <1>7

LEMMA UseInv ==
  ASSUME Inv, NEW c \in Callers, NEW op \in {"deliver", "stop"}, NEW s \in Sessions,
         NEW x \in Messages \cup {NoMessage}, Use(c, op, s, x)
  PROVE  Inv'
<1> USE HarnessAssumption DEF HarnessAssumption, Inv
<1>1. TypeOK'
  BY DEF Use, Begin, Goto, Live, TypeOK, Call
<1>2. Carried'
  BY DEF Use, Begin, Goto, Live, TypeOK, Carried, Recorded, Held, Call
<1>3. Recorded'
  BY DEF Use, Begin, Goto, Live, TypeOK, Carried, Recorded, Held, Call
<1>4. Answered'
  BY DEF Use, Begin, Goto, Live, TypeOK, Carried, Answered, Held, Call
<1>5. StopTellsTheTruth'
  BY DEF Use, Begin, Goto, Live, TypeOK, Carried, Recorded, Answered, Held,
         StopTellsTheTruth, Call
<1>6. InReachUnlessRespawned'
  BY DEF Use, Begin, Goto, Live, TypeOK, Carried, Recorded, Held, InReachUnlessRespawned,
         Alone, Call
<1>7. NothingDropped'
  BY DEF Use, Begin, Goto, Live, TypeOK, Carried, Recorded, Held, NothingDropped, Call
<1>8. QED
  BY <1>1, <1>2, <1>3, <1>4, <1>5, <1>6, <1>7

LEMMA LookInv ==
  ASSUME Inv, NEW c \in Callers, Look(c)
  PROVE  Inv'
<1> USE HarnessAssumption DEF HarnessAssumption, Inv
<1>1. TypeOK'
  <2>1. call[c].session \in Sessions /\ call[c].op \in {"deliver", "stop"}
    BY DEF Look, TypeOK, Call, Carried
  <2>2. Owns(call[c].session) => handles[call[c].session] \in ours
    BY <2>1 DEF Owns, TypeOK
  <2>3. QED
    BY <2>1, <2>2 DEF Look, Goto, Return, TypeOK
<1>2. Carried'
  BY DEF Look, Owns, Goto, Return, Live, TypeOK, Carried, Recorded, Held, Call
<1>3. Recorded'
  BY DEF Look, Owns, Goto, Return, Live, TypeOK, Carried, Recorded, Held, Call
<1>4. Answered'
  BY DEF Look, Owns, Goto, Return, Live, TypeOK, Carried, Answered, Held, Call
<1>5. StopTellsTheTruth'
  BY DEF Look, Owns, Goto, Return, Live, TypeOK, Carried, Recorded, Answered, Held,
         StopTellsTheTruth, Call
<1>6. InReachUnlessRespawned'
  BY DEF Look, Owns, Goto, Return, Live, TypeOK, Carried, Recorded, Held,
         InReachUnlessRespawned, Alone, Call
<1>7. NothingDropped'
  BY DEF Look, Owns, Goto, Return, Live, TypeOK, Carried, Recorded, Held, NothingDropped,
         Call
<1>8. QED
  BY <1>1, <1>2, <1>3, <1>4, <1>5, <1>6, <1>7

LEMMA PutInv ==
  ASSUME Inv, NEW c \in Callers, Put(c)
  PROVE  Inv'
<1> USE HarnessAssumption DEF HarnessAssumption, Inv
<1>1. TypeOK'
  <2>1. call[c].session \in Sessions /\ call[c].message \in Messages \cup {NoMessage}
    BY DEF TypeOK, Call
  <2>2. pc[c] \in {"put", "deliver"} /\ call[c].message # NoMessage
    BY DEF Put, Carried
  <2>3. QED
    BY <2>1, <2>2 DEF Put, Goto, Return, Accept, Sent, TypeOK
<1>2. Carried'
  BY DEF Put, Accept, Sent, Goto, Return, Live, TypeOK, Carried, Recorded, Held, Call
<1>3. Recorded'
  BY DEF Put, Accept, Sent, Goto, Return, Live, TypeOK, Carried, Recorded, Held, Call
<1>4. Answered'
  BY DEF Put, Accept, Sent, Goto, Return, Live, TypeOK, Carried, Answered, Held, Call
<1>5. StopTellsTheTruth'
  BY DEF Put, Accept, Sent, Goto, Return, Live, TypeOK, Carried, Recorded, Answered, Held,
         StopTellsTheTruth, Call
<1>6. InReachUnlessRespawned'
  BY DEF Put, Accept, Sent, Goto, Return, Live, TypeOK, Carried, Recorded, Held,
         InReachUnlessRespawned, Alone, Call
<1>7. NothingDropped'
  BY DEF Put, Accept, Sent, Goto, Return, Live, TypeOK, Carried, Recorded, Held,
         NothingDropped, Call
<1>8. QED
  BY <1>1, <1>2, <1>3, <1>4, <1>5, <1>6, <1>7

LEMMA HandOverInv ==
  ASSUME Inv, NEW c \in Callers, HandOver(c)
  PROVE  Inv'
<1> USE HarnessAssumption DEF HarnessAssumption, Inv
<1>1. TypeOK'
  <2>1. call[c].session \in Sessions /\ call[c].message \in Messages \cup {NoMessage}
    BY DEF TypeOK, Call
  <2>2. pc[c] \in {"put", "deliver"} /\ call[c].message # NoMessage
    BY DEF HandOver, Carried
  <2>3. QED
    BY <2>1, <2>2 DEF HandOver, Goto, Return, Accept, Sent, TypeOK
<1>2. Carried'
  BY DEF HandOver, HostDelivers, Accept, Goto, Return, Live, TypeOK, Carried, Recorded,
         Held, Call
<1>3. Recorded'
  BY DEF HandOver, HostDelivers, Accept, Goto, Return, Live, TypeOK, Carried, Recorded,
         Held, Call
<1>4. Answered'
  BY DEF HandOver, HostDelivers, Accept, Goto, Return, Live, TypeOK, Carried, Answered,
         Held, Call
<1>5. StopTellsTheTruth'
  BY DEF HandOver, HostDelivers, Accept, Goto, Return, Live, TypeOK, Carried, Recorded,
         Answered, Held, StopTellsTheTruth, Call
<1>6. InReachUnlessRespawned'
  BY DEF HandOver, HostDelivers, Accept, Goto, Return, Live, TypeOK, Carried, Recorded,
         Held, InReachUnlessRespawned, Alone, Call
<1>7. NothingDropped'
  BY DEF HandOver, HostDelivers, Accept, Goto, Return, Live, TypeOK, Carried, Recorded,
         Held, NothingDropped, Call
<1>8. QED
  BY <1>1, <1>2, <1>3, <1>4, <1>5, <1>6, <1>7

LEMMA TerminateInv ==
  ASSUME Inv, NEW c \in Callers, Terminate(c)
  PROVE  Inv'
<1> USE HarnessAssumption DEF HarnessAssumption, Inv
<1>1. TypeOK'
  BY DEF Terminate, Signal, Goto, Return, Live, TypeOK, Call
<1>2. Carried'
  BY DEF Terminate, Signal, Goto, Return, Live, TypeOK, Carried, Recorded, Held, Call
<1>3. Recorded'
  BY DEF Terminate, Signal, Goto, Return, Live, TypeOK, Carried, Recorded, Held, Call
<1>4. Answered'
  BY DEF Terminate, Signal, Goto, Return, Live, TypeOK, Carried, Answered, Held, Call
<1>5. StopTellsTheTruth'
  BY DEF Terminate, Signal, Goto, Return, Live, TypeOK, Carried, Recorded, Answered, Held,
         StopTellsTheTruth, Call
<1>6. InReachUnlessRespawned'
  BY DEF Terminate, Signal, Goto, Return, Live, TypeOK, Carried, Recorded, Held,
         InReachUnlessRespawned, Alone, Call
<1>7. NothingDropped'
  BY DEF Terminate, Signal, Goto, Return, Live, TypeOK, Carried, Recorded, Held,
         NothingDropped, Call
<1>8. QED
  BY <1>1, <1>2, <1>3, <1>4, <1>5, <1>6, <1>7

LEMMA AwaitExitInv ==
  ASSUME Inv, NEW c \in Callers, AwaitExit(c)
  PROVE  Inv'
<1> USE HarnessAssumption DEF HarnessAssumption, Inv
<1>1. TypeOK'
  BY DEF AwaitExit, Goto, Return, Live, TypeOK, Call
<1>2. Carried'
  BY DEF AwaitExit, Goto, Return, Live, TypeOK, Carried, Recorded, Held, Call
<1>3. Recorded'
  BY DEF AwaitExit, Goto, Return, Live, TypeOK, Carried, Recorded, Held, Call
<1>4. Answered'
  BY DEF AwaitExit, Goto, Return, Live, TypeOK, Carried, Answered, Held, Call
<1>5. StopTellsTheTruth'
  BY DEF AwaitExit, Goto, Return, Live, TypeOK, Carried, Recorded, Answered, Held,
         StopTellsTheTruth, Call
<1>6. InReachUnlessRespawned'
  BY DEF AwaitExit, Goto, Return, Live, TypeOK, Carried, Recorded, Held,
         InReachUnlessRespawned, Alone, Call
<1>7. NothingDropped'
  BY DEF AwaitExit, Goto, Return, Live, TypeOK, Carried, Recorded, Held, NothingDropped,
         Call
<1>8. QED
  BY <1>1, <1>2, <1>3, <1>4, <1>5, <1>6, <1>7

LEMMA TimeoutInv ==
  ASSUME Inv, NEW c \in Callers, Timeout(c)
  PROVE  Inv'
<1> USE HarnessAssumption DEF HarnessAssumption, Inv
<1>1. TypeOK'
  BY DEF Timeout, Goto, Return, Live, TypeOK, Call
<1>2. Carried'
  BY DEF Timeout, Goto, Return, Live, TypeOK, Carried, Recorded, Held, Call
<1>3. Recorded'
  BY DEF Timeout, Goto, Return, Live, TypeOK, Carried, Recorded, Held, Call
<1>4. Answered'
  BY DEF Timeout, Goto, Return, Live, TypeOK, Carried, Answered, Held, Call
<1>5. StopTellsTheTruth'
  BY DEF Timeout, Goto, Return, Live, TypeOK, Carried, Recorded, Answered, Held,
         StopTellsTheTruth, Call
<1>6. InReachUnlessRespawned'
  BY DEF Timeout, Goto, Return, Live, TypeOK, Carried, Recorded, Held,
         InReachUnlessRespawned, Alone, Call
<1>7. NothingDropped'
  BY DEF Timeout, Goto, Return, Live, TypeOK, Carried, Recorded, Held, NothingDropped, Call
<1>8. QED
  BY <1>1, <1>2, <1>3, <1>4, <1>5, <1>6, <1>7

LEMMA KillInv ==
  ASSUME Inv, NEW c \in Callers, Kill(c)
  PROVE  Inv'
<1> USE HarnessAssumption DEF HarnessAssumption, Inv
<1>1. TypeOK'
  BY DEF Kill, Signal, Goto, Live, TypeOK, Call
<1>2. Carried'
  BY DEF Kill, Signal, Goto, Live, TypeOK, Carried, Recorded, Held, Call
<1>3. Recorded'
  BY DEF Kill, Signal, Goto, Live, TypeOK, Carried, Recorded, Held, Call
<1>4. Answered'
  BY DEF Kill, Signal, Goto, Live, TypeOK, Carried, Answered, Held, Call
<1>5. StopTellsTheTruth'
  BY DEF Kill, Signal, Goto, Live, TypeOK, Carried, Recorded, Answered, Held,
         StopTellsTheTruth, Call
<1>6. InReachUnlessRespawned'
  BY DEF Kill, Signal, Goto, Live, TypeOK, Carried, Recorded, Held, InReachUnlessRespawned,
         Alone, Call
<1>7. NothingDropped'
  BY DEF Kill, Signal, Goto, Live, TypeOK, Carried, Recorded, Held, NothingDropped, Call
<1>8. QED
  BY <1>1, <1>2, <1>3, <1>4, <1>5, <1>6, <1>7

LEMMA HostStopInv ==
  ASSUME Inv, NEW c \in Callers, HostStop(c)
  PROVE  Inv'
<1> USE HarnessAssumption DEF HarnessAssumption, Inv
<1>1. TypeOK'
  BY DEF HostStop, Goto, Return, Live, TypeOK, Call
<1>2. Carried'
  BY DEF HostStop, Goto, Return, Live, TypeOK, Carried, Recorded, Held, Call
<1>3. Recorded'
  BY DEF HostStop, Goto, Return, Live, TypeOK, Carried, Recorded, Held, Call
<1>4. Answered'
  BY DEF HostStop, Goto, Return, Live, TypeOK, Carried, Answered, Held, Call
<1>5. StopTellsTheTruth'
  BY DEF HostStop, Goto, Return, Live, TypeOK, Carried, Recorded, Answered, Held,
         StopTellsTheTruth, Call
<1>6. InReachUnlessRespawned'
  BY DEF HostStop, Goto, Return, Live, TypeOK, Carried, Recorded, Held,
         InReachUnlessRespawned, Alone, Call
<1>7. NothingDropped'
  BY DEF HostStop, Goto, Return, Live, TypeOK, Carried, Recorded, Held, NothingDropped, Call
<1>8. QED
  BY <1>1, <1>2, <1>3, <1>4, <1>5, <1>6, <1>7

LEMMA ExitInv ==
  ASSUME Inv, NEW m \in Makers, Exit(m)
  PROVE  Inv'
<1> USE HarnessAssumption DEF HarnessAssumption, Inv
<1>1. TypeOK'
  BY DEF Exit, Live, TypeOK, Call
<1>2. Carried'
  BY DEF Exit, Live, TypeOK, Carried, Recorded, Held, Call
<1>3. Recorded'
  BY DEF Exit, Live, TypeOK, Carried, Recorded, Held, Call
<1>4. Answered'
  BY DEF Exit, Live, TypeOK, Carried, Answered, Held, Call
<1>5. StopTellsTheTruth'
  BY DEF Exit, Live, TypeOK, Carried, Recorded, Answered, Held, StopTellsTheTruth, Call
<1>6. InReachUnlessRespawned'
  BY DEF Exit, Live, TypeOK, Carried, Recorded, Held, InReachUnlessRespawned, Alone, Call
<1>7. NothingDropped'
  BY DEF Exit, Live, TypeOK, Carried, Recorded, Held, NothingDropped, Call
<1>8. QED
  BY <1>1, <1>2, <1>3, <1>4, <1>5, <1>6, <1>7

LEMMA DrainInv ==
  ASSUME Inv, NEW m \in Makers, Drain(m)
  PROVE  Inv'
<1> USE HarnessAssumption DEF HarnessAssumption, Inv
<1>1. TypeOK'
  BY DEF Drain, Live, TypeOK, Call
<1>2. Carried'
  BY DEF Drain, Live, TypeOK, Carried, Recorded, Held, Call
<1>3. Recorded'
  BY DEF Drain, Live, TypeOK, Carried, Recorded, Held, Call
<1>4. Answered'
  BY DEF Drain, Live, TypeOK, Carried, Answered, Held, Call
<1>5. StopTellsTheTruth'
  BY DEF Drain, Live, TypeOK, Carried, Recorded, Answered, Held, StopTellsTheTruth, Call
<1>6. InReachUnlessRespawned'
  BY DEF Drain, Live, TypeOK, Carried, Recorded, Held, InReachUnlessRespawned, Alone, Call
<1>7. NothingDropped'
  BY DEF Drain, Live, TypeOK, Carried, Recorded, Held, NothingDropped, Call
<1>8. QED
  BY <1>1, <1>2, <1>3, <1>4, <1>5, <1>6, <1>7

LEMMA RestartInv ==
  ASSUME Inv, Restart
  PROVE  Inv'
<1> USE HarnessAssumption DEF HarnessAssumption, Inv
<1>1. TypeOK'
  BY DEF Restart, Live, TypeOK, Call
<1>2. Carried'
  BY DEF Restart, Live, TypeOK, Carried, Recorded, Held, Call
<1>3. Recorded'
  BY DEF Restart, Live, TypeOK, Carried, Recorded, Held, Call
<1>4. Answered'
  BY DEF Restart, Live, TypeOK, Carried, Answered, Held, Call
<1>5. StopTellsTheTruth'
  BY DEF Restart, Live, TypeOK, Carried, Recorded, Answered, Held, StopTellsTheTruth, Call
<1>6. InReachUnlessRespawned'
  BY DEF Restart, Live, TypeOK, Carried, Recorded, Held, InReachUnlessRespawned, Alone, Call
<1>7. NothingDropped'
  BY DEF Restart, Live, TypeOK, Carried, Recorded, Held, NothingDropped, Call
<1>8. QED
  BY <1>1, <1>2, <1>3, <1>4, <1>5, <1>6, <1>7

--------------------------------------------------------------------------------
LEMMA StepInv == Inv /\ [Next]_vars => Inv'
<1> SUFFICES ASSUME Inv, [Next]_vars PROVE Inv'
  OBVIOUS
<1>1. CASE UNCHANGED vars
  BY <1>1 DEF vars, Inv, TypeOK, Carried, Recorded, Answered, StopTellsTheTruth,
              InReachUnlessRespawned, Alone, Live, NothingDropped
<1>2. ASSUME NEW c \in Callers, NEW s \in Sessions, NEW m \in Makers, Spawn(c, s, m)
      PROVE  Inv'
  BY <1>2, SpawnInv
<1>3. ASSUME NEW c \in Callers, NEW op \in {"deliver", "stop"}, NEW s \in Sessions,
             NEW x \in Messages \cup {NoMessage}, Use(c, op, s, x)
      PROVE  Inv'
  BY <1>3, UseInv
<1>4. ASSUME NEW c \in Callers, Step(c) PROVE Inv'
  BY <1>4, RecordHandleInv, LookInv, PutInv, HandOverInv, TerminateInv, AwaitExitInv,
     TimeoutInv, KillInv, HostStopInv DEF Step
<1>5. ASSUME NEW m \in Makers, Exit(m) \/ Drain(m) PROVE Inv'
  BY <1>5, ExitInv, DrainInv
<1>6. CASE Restart
  BY <1>6, RestartInv
<1>7. QED
  BY <1>1, <1>2, <1>3, <1>4, <1>5, <1>6 DEF Next

LEMMA Invariance == Spec => []Inv
  BY InitInv, StepInv, PTL DEF Spec

\* The types of the harness, for every driver.
THEOREM TypeCorrect == Spec => []TypeOK
<1>1. Inv => TypeOK
  BY DEF Inv
<1>2. QED
  BY <1>1, Invariance, PTL

\* A stop that says terminated is right, and about the session it was asked to stop.
THEOREM StopsTellTheTruth == Spec => []StopTellsTheTruth
<1>1. Inv => StopTellsTheTruth
  BY DEF Inv
<1>2. QED
  BY <1>1, Invariance, PTL

\* Only a second spawn of its session, or the end of the transport, takes a live
\* maker out of reach.
THEOREM MakersStayInReach == Spec => []InReachUnlessRespawned
<1>1. Inv => InReachUnlessRespawned
  BY DEF Inv
<1>2. QED
  BY <1>1, Invariance, PTL

\* No accepted message or halt is dropped.
THEOREM MessagesArrive == Spec => []NothingDropped
<1>1. Inv => NothingDropped
  BY DEF Inv
<1>2. QED
  BY <1>1, Invariance, PTL
--------------------------------------------------------------------------------
(* To the right session, and no other. *)

\* What a mailbox or a maker has was accepted for that session: a handle is looked up,
\* and its session may be spawned again, before the message goes out through it.
NothingMisdelivered ==
  /\ \A s \in Sessions : \A x \in mail[s] : <<s, x>> \in accepted
  /\ \A m \in Makers : \A x \in got[m] : <<session[m], x>> \in accepted

LEMMA MisdeliveredStep == Inv /\ NothingMisdelivered /\ [Next]_vars => NothingMisdelivered'
<1> SUFFICES ASSUME Inv, NothingMisdelivered, [Next]_vars PROVE NothingMisdelivered'
  OBVIOUS
<1> USE DEF Inv, TypeOK, NothingMisdelivered
<1>1. ASSUME NEW c \in Callers, NEW s \in Sessions, NEW m \in Makers, Spawn(c, s, m)
      PROVE  NothingMisdelivered'
  <2>1. got[m] = {} /\ UNCHANGED <<mail, got, accepted>>
        /\ \A n \in Makers : n # m => session'[n] = session[n]
    BY <1>1 DEF Spawn, Recorded
  <2>2. QED
    BY <2>1
<1>2. ASSUME NEW c \in Callers, Put(c) PROVE NothingMisdelivered'
  <2>1. /\ mail' = [mail EXCEPT ![call[c].session] = @ \cup {call[c].message}]
        /\ accepted' = accepted \cup {<<call[c].session, call[c].message>>}
        /\ UNCHANGED <<session, got>>
    BY <1>2 DEF Put, Accept
  <2>2. QED
    BY <2>1
<1>3. ASSUME NEW c \in Callers, HandOver(c) PROVE NothingMisdelivered'
  <2>1. CASE UNCHANGED <<got, accepted>>
    BY <1>3, <2>1 DEF HandOver
  <2>2. CASE ~UNCHANGED <<got, accepted>>
    <3>1. /\ got' = [got EXCEPT ![target[c]] = @ \cup {call[c].message}]
          /\ accepted' = accepted \cup {<<call[c].session, call[c].message>>}
          /\ UNCHANGED <<session, mail>>
      BY <1>3, <2>2 DEF HandOver, Accept
    <3>2. session[target[c]] = call[c].session
      BY <1>3 DEF HandOver, Carried, Held
    <3>3. QED
      BY <3>1, <3>2
  <2>3. QED
    BY <2>1, <2>2
<1>4. ASSUME NEW m \in Makers, Drain(m) PROVE NothingMisdelivered'
  <2>1. /\ got' = [got EXCEPT ![m] = @ \cup mail[session[m]]]
        /\ mail' = [mail EXCEPT ![session[m]] = {}]
        /\ UNCHANGED <<session, accepted>>
    BY <1>4 DEF Drain
  <2>2. session[m] \in Sessions
    OBVIOUS
  <2>3. QED
    BY <2>1, <2>2
<1>5. CASE UNCHANGED <<session, mail, got, accepted>>
  BY <1>5
<1>6. QED
  BY <1>1, <1>2, <1>3, <1>4, <1>5
  DEF Next, Use, Step, RecordHandle, Look, Terminate, AwaitExit, Timeout, Kill, HostStop, Exit,
      Restart, vars

\* deliver and stop reach makers and mailboxes of the session they were called for only,
\* whoever spawns, ends or drains between the look at the handle and the send.
THEOREM MessagesStayInTheirSession == Spec => []NothingMisdelivered
<1>1. Init => NothingMisdelivered
  BY DEF Init, NothingMisdelivered
<1>2. QED
  BY <1>1, MisdeliveredStep, Invariance, PTL DEF Spec
--------------------------------------------------------------------------------
(* Who is signalled, and how far it goes. *)

\* A stop that waits for a process, or is about to kill it, has asked it to end.
HasAsked ==
  \A c \in Callers :
    pc[c] \in {"wait", "kill", "waitkilled"} =>
      maker[target[c]] \in {"asked", "killed", "gone"}

\* A process is signalled by a stop of its own session only, and killed only after it
\* was asked.
SignalledByItsStop ==
  \A m \in Makers :
    maker'[m] # maker[m] =>
      /\ maker'[m] \in {"asked", "killed"} =>
           \E c \in Callers :
             /\ target[c] = m /\ call[c].op = "stop" /\ call[c].session = session[m]
             /\ pc[c] \in {"stop", "kill"}
      /\ maker'[m] = "killed" => maker[m] = "asked"

LEMMA HasAskedStep == Inv /\ HasAsked /\ [Next]_vars => HasAsked'
<1> SUFFICES ASSUME Inv, HasAsked, [Next]_vars PROVE HasAsked'
  OBVIOUS
<1> USE DEF Inv, TypeOK, HasAsked, Goto, Return
<1>1. ASSUME NEW c \in Callers, NEW s \in Sessions, NEW m \in Makers, Spawn(c, s, m)
      PROVE  HasAsked'
  BY <1>1 DEF Spawn, Begin
<1>2. ASSUME NEW c \in Callers, NEW op \in {"deliver", "stop"}, NEW s \in Sessions,
             NEW x \in Messages \cup {NoMessage}, Use(c, op, s, x)
      PROVE  HasAsked'
  BY <1>2 DEF Use, Begin
<1>3. ASSUME NEW c \in Callers, RecordHandle(c) \/ Look(c) \/ Put(c) \/ HandOver(c)
      PROVE  HasAsked'
  BY <1>3 DEF RecordHandle, Look, Put, HandOver, Carried
<1>4. ASSUME NEW c \in Callers, Terminate(c) PROVE HasAsked'
  BY <1>4 DEF Terminate, Signal, Live, Carried, Held
<1>5. ASSUME NEW c \in Callers, AwaitExit(c) \/ Timeout(c) PROVE HasAsked'
  BY <1>5 DEF AwaitExit, Timeout
<1>6. ASSUME NEW c \in Callers, Kill(c) PROVE HasAsked'
  BY <1>6 DEF Kill, Signal
<1>7. ASSUME NEW c \in Callers, HostStop(c) PROVE HasAsked'
  BY <1>7 DEF HostStop, Carried, Held
<1>8. ASSUME NEW m \in Makers, Exit(m) \/ Drain(m) PROVE HasAsked'
  BY <1>8 DEF Exit, Drain, Carried, Held
<1>9. CASE Restart \/ UNCHANGED vars
  BY <1>9 DEF Restart, vars
<1>10. QED
  BY <1>1, <1>2, <1>3, <1>4, <1>5, <1>6, <1>7, <1>8, <1>9 DEF Next, Step

\* stop escalates within its own session: SIGTERM to the process whose handle it took,
\* SIGKILL only to one that was sent SIGTERM, and never to a process of another session,
\* however handles are recorded meanwhile.
THEOREM StopsStayInTheirSession == Spec => [][SignalledByItsStop]_vars
<1>1. Init => HasAsked
  BY DEF Init, HasAsked
<1>2. ASSUME Inv, HasAsked, Next PROVE SignalledByItsStop
  <2> USE DEF Inv, TypeOK
  <2> SUFFICES ASSUME NEW m \in Makers, maker'[m] # maker[m], maker'[m] \in {"asked", "killed"}
               PROVE  /\ \E c \in Callers :
                           /\ target[c] = m /\ call[c].op = "stop"
                           /\ call[c].session = session[m] /\ pc[c] \in {"stop", "kill"}
                      /\ maker'[m] = "killed" => maker[m] = "asked"
    BY DEF SignalledByItsStop
  <2>1. PICK c \in Callers : Terminate(c) \/ Kill(c)
    BY <1>2 DEF Next, Spawn, Use, Step, RecordHandle, Look, Put, HandOver, AwaitExit, Timeout,
                HostStop, Exit, Drain, Restart
  <2>2. /\ target[c] \in Makers /\ session[target[c]] = call[c].session
        /\ call[c].op = "stop" /\ pc[c] \in {"stop", "kill"}
    BY <1>2, <2>1 DEF Terminate, Kill, Carried, Held
  <2>3. PICK state \in {"asked", "killed"} :
          /\ Signal(target[c], state)
          /\ state = "killed" => Kill(c)
    BY <2>1 DEF Terminate, Kill
  <2>4. /\ Live(target[c])
        /\ maker' = [maker EXCEPT ![target[c]] = state]
    BY <2>3 DEF Signal
  <2>5. target[c] = m /\ maker'[m] = state
    BY <2>2, <2>4
  <2>6. ASSUME maker'[m] = "killed" PROVE maker[m] = "asked"
    <3>1. Kill(c) /\ Live(m)
      BY <2>3, <2>6, <2>4, <2>5
    <3>2. maker[m] \in {"asked", "killed", "gone"}
      BY <1>2, <2>5, <3>1 DEF Kill, HasAsked
    <3>3. QED
      BY <2>6, <3>1, <3>2 DEF Live
  <2>7. QED
    BY <2>2, <2>6, <2>5
<1>3. Inv /\ HasAsked /\ [Next]_vars => [SignalledByItsStop]_vars
  BY <1>2
<1>4. QED
  BY <1>1, <1>3, HasAskedStep, Invariance, PTL DEF Spec
================================================================================
