-------------------------------- MODULE Harness --------------------------------
(***************************************************************************)
(* HarnessTransport over its two drivers (a2a_compliance/harness.py):      *)
(* spawn, deliver and stop, called by concurrent threads of a host, next   *)
(* to makers that exit on their own, ignore SIGTERM, or outlive the        *)
(* transport that launched them.                                           *)
(***************************************************************************)
EXTENDS Naturals

CONSTANTS
  Callers,       \* threads of the host that use the transport
  Sessions,      \* maker session ids
  Makers,        \* the processes (agents of a host) there will ever be
  Messages,
  Drivers,       \* the drivers the transport may have been given, see Driver
  NoMaker, NoMessage,
  MaxCalls,      \* bound: how many calls of spawn, deliver and stop are made
  MaxRestarts    \* bound: how often the host restarts with a new transport

\* SubprocessSpawner, or ClaudeHarnessSpawner with or without its stop_fn,
\* deliver_fn and alive_fn.
Driver == [kind : {"process"}] \cup
          [kind : {"host"}, stops : BOOLEAN, delivers : BOOLEAN, tells : BOOLEAN]

ASSUME HarnessAssumption ==
  /\ Drivers \subseteq Driver
  /\ Sessions # {}
  /\ NoMaker \notin Makers /\ NoMessage \notin Messages
  /\ MaxCalls \in Nat /\ MaxRestarts \in Nat

VARIABLES
  driver,     \* the transport's driver
  maker,      \* maker[m]: unborn, running, asked to end, killed, or gone
  session,    \* session[m]: the session m was launched for
  ours,       \* makers launched by the transport there is now
  handles,    \* handles[s]: the maker of the handle recorded for session s
  mail,       \* mail[s]: messages in the mailbox of s
  got,        \* got[m]: messages m has drained or the host has handed to it
  pc, call, target, result,   \* of each caller: step, arguments, handle taken, answer
  accepted,   \* history: pairs <<session, message>> a call has accepted to send
  calls, restarts

vars == <<driver, maker, session, ours, handles, mail, got, pc, call, target, result,
          accepted, calls, restarts>>

Call == [op : {"spawn", "deliver", "stop"}, session : Sessions,
         message : Messages \cup {NoMessage}]

Init ==
  /\ driver \in Drivers
  /\ maker = [m \in Makers |-> "unborn"]
  /\ session = [m \in Makers |-> CHOOSE s \in Sessions : TRUE]
  /\ ours = {}
  /\ handles = [s \in Sessions |-> NoMaker]
  /\ mail = [s \in Sessions |-> {}]
  /\ got = [m \in Makers |-> {}]
  /\ pc = [c \in Callers |-> "idle"]
  /\ call \in [Callers -> {[op |-> "spawn", session |-> CHOOSE s \in Sessions : TRUE,
                            message |-> NoMessage]}]
  /\ target = [c \in Callers |-> NoMaker]
  /\ result = [c \in Callers |-> "none"]
  /\ accepted = {}
  /\ calls = 0 /\ restarts = 0

Live(m) == maker[m] \notin {"unborn", "gone"}

\* handle.is_alive: without an alive_fn a host's agent is assumed alive.
IsAlive(m) == Live(m) \/ (driver.kind = "host" /\ ~driver.tells)

\* owns: the session has a handle, and it says it is alive.
Owns(s) == handles[s] # NoMaker /\ IsAlive(handles[s])

Goto(c, label) == pc' = [pc EXCEPT ![c] = label]
Return(c, answer) == Goto(c, "idle") /\ result' = [result EXCEPT ![c] = answer]
--------------------------------------------------------------------------------
Begin(c, op, s, x, label) ==
  /\ pc[c] = "idle"
  /\ calls < MaxCalls
  /\ calls' = calls + 1
  /\ call' = [call EXCEPT ![c] = [op |-> op, session |-> s, message |-> x]]
  /\ result' = [result EXCEPT ![c] = "none"]
  /\ Goto(c, label)

\* spawn: the driver launches the maker, then its handle is recorded, over
\* whatever handle the session had.
Spawn(c, s, m) ==
  /\ maker[m] = "unborn"
  /\ Begin(c, "spawn", s, NoMessage, "record")
  /\ maker' = [maker EXCEPT ![m] = "running"]
  /\ session' = [session EXCEPT ![m] = s]
  /\ ours' = ours \cup {m}
  /\ target' = [target EXCEPT ![c] = m]
  /\ UNCHANGED <<driver, handles, mail, got, accepted, restarts>>

RecordHandle(c) ==
  /\ pc[c] = "record"
  /\ handles' = [handles EXCEPT ![call[c].session] = target[c]]
  /\ Return(c, "spawned")
  /\ UNCHANGED <<driver, maker, session, ours, mail, got, call, target, accepted, calls,
                 restarts>>

\* deliver(s, x), and stop(s) with or without a prebuilt halt x.
Use(c, op, s, x) ==
  /\ op = "deliver" => x # NoMessage
  /\ Begin(c, op, s, x, "look")
  /\ target' = [target EXCEPT ![c] = NoMaker]
  /\ UNCHANGED <<driver, maker, session, ours, handles, mail, got, accepted, restarts>>

\* Owned and live: through the handle; otherwise through the mailbox.
Look(c) ==
  /\ pc[c] = "look"
  /\ IF Owns(call[c].session)
     THEN /\ target' = [target EXCEPT ![c] = handles[call[c].session]]
          /\ Goto(c, call[c].op)
          /\ UNCHANGED result
     ELSE /\ UNCHANGED target
          /\ IF call[c].message = NoMessage
             THEN Return(c, "cooperative")
             ELSE Goto(c, "put") /\ UNCHANGED result
  /\ UNCHANGED <<driver, maker, session, ours, handles, mail, got, call, accepted, calls,
                 restarts>>
--------------------------------------------------------------------------------
Accept(c) == accepted' = accepted \cup {<<call[c].session, call[c].message>>}

Sent(c) == IF call[c].op = "stop" THEN "cooperative" ELSE "delivered"

\* Mutant of Put: what is for a session without a live maker is dropped.
PutIfLive(c) ==
  /\ pc[c] = "put"
  /\ mail' = IF \E m \in Makers : Live(m) /\ session[m] = call[c].session
             THEN [mail EXCEPT ![call[c].session] = @ \cup {call[c].message}]
             ELSE mail
  /\ Accept(c)
  /\ Return(c, Sent(c))
  /\ UNCHANGED <<driver, maker, session, ours, handles, got, call, target, calls, restarts>>

Put(c) ==
  /\ pc[c] = "put"
  /\ mail' = [mail EXCEPT ![call[c].session] = @ \cup {call[c].message}]
  /\ Accept(c)
  /\ Return(c, Sent(c))
  /\ UNCHANGED <<driver, maker, session, ours, handles, got, call, target, calls, restarts>>

HostDelivers == driver.kind = "host" /\ driver.delivers

\* handle.deliver: by the host's deliver_fn, which raises when the agent has ended
\* meanwhile, or into the mailbox.
HandOver(c) ==
  /\ pc[c] = "deliver"
  /\ IF ~HostDelivers
     THEN Goto(c, "put") /\ UNCHANGED <<got, result, accepted>>
     ELSE IF Live(target[c])
     THEN /\ got' = [got EXCEPT ![target[c]] = @ \cup {call[c].message}]
          /\ Accept(c)
          /\ Return(c, "delivered")
     ELSE Return(c, "raised") /\ UNCHANGED <<got, accepted>>
  /\ UNCHANGED <<driver, maker, session, ours, handles, mail, call, target, calls, restarts>>
--------------------------------------------------------------------------------
\* A process that is gone is not signalled; one that was killed stays killed.
Signal(m, state) ==
  maker' = IF Live(m) /\ maker[m] # "killed" THEN [maker EXCEPT ![m] = state] ELSE maker

\* Mutant of Terminate: having asked is enough.
TerminateAndTrust(c) ==
  /\ pc[c] = "stop"
  /\ driver.kind = "process"
  /\ Signal(target[c], "asked")
  /\ Return(c, "terminated")
  /\ UNCHANGED <<driver, session, ours, handles, mail, got, call, target, accepted, calls,
                 restarts>>

\* A process that is live is asked by SIGTERM and waited for.
Terminate(c) ==
  /\ pc[c] = "stop"
  /\ driver.kind = "process"
  /\ Signal(target[c], "asked")
  /\ IF Live(target[c])
     THEN Goto(c, "wait") /\ UNCHANGED result
     ELSE Return(c, "terminated")
  /\ UNCHANGED <<driver, session, ours, handles, mail, got, call, target, accepted, calls,
                 restarts>>

AwaitExit(c) ==
  /\ pc[c] \in {"wait", "waitkilled"}
  /\ ~Live(target[c])
  /\ Return(c, "terminated")
  /\ UNCHANGED <<driver, maker, session, ours, handles, mail, got, call, target, accepted,
                 calls, restarts>>

\* Mutant of Timeout: the process is given up, not killed.
TimeoutGivesUp(c) ==
  /\ pc[c] \in {"wait", "waitkilled"}
  /\ Live(target[c])
  /\ Return(c, "failed")
  /\ UNCHANGED <<driver, maker, session, ours, handles, mail, got, call, target, accepted,
                 calls, restarts>>

\* The first wait ends in a kill, the second gives up.
Timeout(c) ==
  /\ pc[c] \in {"wait", "waitkilled"}
  /\ Live(target[c])
  /\ IF pc[c] = "wait" THEN Goto(c, "kill") /\ UNCHANGED result ELSE Return(c, "failed")
  /\ UNCHANGED <<driver, maker, session, ours, handles, mail, got, call, target, accepted,
                 calls, restarts>>

\* Mutant of Kill: the handle of a killed process is forgotten.
KillAndForget(c) ==
  /\ pc[c] = "kill"
  /\ Signal(target[c], "killed")
  /\ handles' = [handles EXCEPT ![call[c].session] = NoMaker]
  /\ Goto(c, "waitkilled")
  /\ UNCHANGED <<driver, session, ours, mail, got, call, target, result, accepted,
                 calls, restarts>>

Kill(c) ==
  /\ pc[c] = "kill"
  /\ Signal(target[c], "killed")
  /\ Goto(c, "waitkilled")
  /\ UNCHANGED <<driver, session, ours, handles, mail, got, call, target, result, accepted,
                 calls, restarts>>

\* A host's stop_fn ends the agent and says so, or says it did not; without one
\* nothing is done, and the halt that was passed is not sent either.
HostStop(c) ==
  /\ pc[c] = "stop"
  /\ driver.kind = "host"
  /\ \/ /\ driver.stops
        /\ maker' = [maker EXCEPT ![target[c]] = "gone"]
        /\ Return(c, "terminated")
     \/ /\ Return(c, IF driver.stops THEN "failed" ELSE "unenforceable")
        /\ UNCHANGED maker
  /\ UNCHANGED <<driver, session, ours, handles, mail, got, call, target, accepted, calls,
                 restarts>>
--------------------------------------------------------------------------------
\* A maker ends: by itself, on SIGTERM if it heeds it, on SIGKILL for certain.
Exit(m) ==
  /\ Live(m)
  /\ maker' = [maker EXCEPT ![m] = "gone"]
  /\ UNCHANGED <<driver, session, ours, handles, mail, got, pc, call, target, result, accepted,
                 calls, restarts>>

\* A maker's checkpoint drains the mailbox of its session.
Drain(m) ==
  /\ Live(m)
  /\ mail[session[m]] # {}
  /\ got' = [got EXCEPT ![m] = @ \cup mail[session[m]]]
  /\ mail' = [mail EXCEPT ![session[m]] = {}]
  /\ UNCHANGED <<driver, maker, session, ours, handles, pc, call, target, result, accepted,
                 calls, restarts>>

\* Mutant of Restart: the handles are the class's, not the transport's own.
RestartSharesHandles ==
  /\ restarts < MaxRestarts
  /\ restarts' = restarts + 1
  /\ ours' = {}
  /\ pc' = [c \in Callers |-> "idle"]
  /\ target' = [c \in Callers |-> NoMaker]
  /\ result' = [c \in Callers |-> "none"]
  /\ UNCHANGED <<driver, maker, session, handles, mail, got, call, accepted, calls>>

\* The host restarts: the handles are lost, makers and mailboxes are not.
Restart ==
  /\ restarts < MaxRestarts
  /\ restarts' = restarts + 1
  /\ ours' = {}
  /\ handles' = [s \in Sessions |-> NoMaker]
  /\ pc' = [c \in Callers |-> "idle"]
  /\ target' = [c \in Callers |-> NoMaker]
  /\ result' = [c \in Callers |-> "none"]
  /\ UNCHANGED <<driver, maker, session, mail, got, call, accepted, calls>>

Step(c) ==
  \/ RecordHandle(c) \/ Look(c) \/ Put(c) \/ HandOver(c)
  \/ Terminate(c) \/ AwaitExit(c) \/ Timeout(c) \/ Kill(c) \/ HostStop(c)

Next ==
  \/ \E c \in Callers :
       \/ \E s \in Sessions, m \in Makers : Spawn(c, s, m)
       \/ \E op \in {"deliver", "stop"}, s \in Sessions, x \in Messages \cup {NoMessage} :
            Use(c, op, s, x)
       \/ Step(c)
  \/ \E m \in Makers : Exit(m) \/ Drain(m)
  \/ Restart

Spec == Init /\ [][Next]_vars

\* Calls are straight-line code whose waits time out, and the operating system
\* ends a process it was told to kill.
FairSpec ==
  /\ Spec
  /\ \A c \in Callers : WF_vars(Step(c))
  /\ \A m \in Makers : WF_vars(maker[m] = "killed" /\ Exit(m))
--------------------------------------------------------------------------------
TypeOK ==
  /\ driver \in Drivers
  /\ maker \in [Makers -> {"unborn", "running", "asked", "killed", "gone"}]
  /\ session \in [Makers -> Sessions]
  /\ ours \subseteq Makers
  /\ handles \in [Sessions -> ours \cup {NoMaker}]
  /\ mail \in [Sessions -> SUBSET Messages]
  /\ got \in [Makers -> SUBSET Messages]
  /\ pc \in [Callers -> {"idle", "record", "look", "put", "deliver", "stop", "wait", "kill",
                         "waitkilled"}]
  /\ call \in [Callers -> Call]
  /\ target \in [Callers -> ours \cup {NoMaker}]
  /\ result \in [Callers -> {"none", "spawned", "delivered", "raised", "terminated", "failed",
                             "unenforceable", "cooperative"}]
  /\ accepted \subseteq Sessions \X Messages
  /\ calls \in 0 .. MaxCalls
  /\ restarts \in 0 .. MaxRestarts

\* terminated=True is said of a maker that is gone, and was the session's own,
\* whoever else stopped, signalled or respawned meanwhile.
StopTellsTheTruth ==
  \A c \in Callers :
    result[c] = "terminated" =>
      /\ call[c].op = "stop"
      /\ maker[target[c]] = "gone"
      /\ session[target[c]] = call[c].session

\* A live maker stays within reach of stop and deliver, whatever calls were made for
\* its session: it is out of reach only while spawn is about to record it, or once
\* the same session has been spawned again.
Alone(m) == \A n \in ours : session[n] = session[m] => n = m

InReachUnlessRespawned ==
  \A m \in ours :
    Live(m) /\ Alone(m) =>
      \/ handles[session[m]] = m
      \/ \E c \in Callers : pc[c] = "record" /\ target[c] = m

\* "never a silent drop": a message deliver has taken, or stop has taken as its
\* cooperative halt, is in the session's mailbox or with a maker of that session,
\* though owned makers end between the look at the handle and the send.
NothingDropped ==
  \A a \in accepted :
    \/ a[2] \in mail[a[1]]
    \/ \E m \in Makers : session[m] = a[1] /\ a[2] \in got[m]

\* A stop that found an owned, live process ends it, though it ignores SIGTERM.
StopEndsTheMaker ==
  \A c \in Callers, m \in Makers :
    (driver.kind = "process" /\ pc[c] = "stop" /\ target[c] = m)
      ~> (maker[m] = "gone" \/ restarts > 0)
================================================================================
