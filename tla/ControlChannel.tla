---------------------------- MODULE ControlChannel ----------------------------
(***************************************************************************)
(* The control channel from the sends of the compliance agents             *)
(* (a2a_compliance/channel.py) to the maker that honours them at its       *)
(* checkpoints (a2a_compliance/participant.py).                            *)
(*                                                                         *)
(* One maker.  Its mailbox is taken as FileInbox delivers it when puts do  *)
(* not overlap: in order, from a durable cursor that a crash in the middle *)
(* of writing it resets.  The maker's object lives in memory; mailbox,     *)
(* cursor and nonce store survive a restart.  An envelope is identified by *)
(* its number in the mailbox, which stands for its id and its nonce.       *)
(***************************************************************************)
EXTENDS Naturals, Sequences, NonceStore

CONSTANTS
  Authenticated,  \* does the maker have a trust store
  Writers,        \* who puts envelopes into the mailbox
  Agents,         \* the writers that are compliance agents
  AgentRoster,    \* the agents their own roster lets steer this maker
  MakerRoster,    \* the writers the maker's roster lets steer it
  Trusted,        \* the writers whose envelopes carry a good signature by a key
                  \* bound to envelopes, to their role and to their identity
  Expiring,       \* the envelopes that may expire
  MaxSent, MaxCrashes, MaxRaises   \* bounds

ASSUME ChannelAssumption ==
  /\ Authenticated \in BOOLEAN
  /\ Agents \subseteq Writers /\ AgentRoster \subseteq Agents
  /\ MakerRoster \subseteq Writers /\ Trusted \subseteq Writers
  /\ Expiring \subseteq Nat
  /\ MaxSent \in Nat /\ MaxCrashes \in Nat /\ MaxRaises \in Nat

SteerVerbs == {"query-state", "issue-directive", "hold", "resume", "halt"}
Verbs == SteerVerbs \cup {"ack"}
Ids == 1 .. MaxSent
None == 0

Envelope == [verb : Verbs, from : Writers, ref : Ids \cup {None}]

VARIABLES
  mail,      \* the envelopes of the mailbox, in order
  cursor,    \* its cursor: the last envelope handed over
  pc, cur,   \* what the maker does, and to which envelope of the batch cur .. cursor
  verdict,   \* what it found
  halted, holdRef,   \* its signals; holdRef is None when it is not held
  nonces,    \* its nonce store
  expired,   \* envelopes past their expires_at
  replies,   \* what it put into the compliance actor's mailbox
  log,       \* history: what it applied, in order
  born,      \* history: how much of that precedes its last restart
  applied,   \* history: applied[n], how often it applied envelope n
  crashes, raises

vars == <<mail, cursor, pc, cur, verdict, halted, holdRef, nonces, expired, replies, log,
          born, applied, crashes, raises>>

Init ==
  /\ mail = <<>>
  /\ cursor = 0
  /\ pc = "idle" /\ cur = None /\ verdict = "none"
  /\ halted = FALSE /\ holdRef = None
  /\ nonces = EmptyStore
  /\ expired = {}
  /\ replies = {}
  /\ log = <<>> /\ born = 0
  /\ applied = [n \in Ids |-> 0]
  /\ crashes = 0 /\ raises = 0
--------------------------------------------------------------------------------
(* The sending side *)

Put(verb, from, ref) ==
  /\ Len(mail) < MaxSent
  /\ mail' = Append(mail, [verb |-> verb, from |-> from, ref |-> ref])
  /\ UNCHANGED <<cursor, pc, cur, verdict, halted, holdRef, nonces, expired, replies, log,
                 born, applied, crashes, raises>>

Holds == {n \in DOMAIN mail : mail[n].verb = "hold"}

\* query_state, issue_directive, hold, resume, halt: sent if the agent's roster
\* lets it steer the maker, and, where a human must agree, the human does.
Dispatch(a, verb) ==
  /\ a \in AgentRoster
  /\ verb \in SteerVerbs
  /\ IF verb = "resume" THEN \E h \in Holds : Put(verb, a, h) ELSE Put(verb, a, None)

\* Another maker's reply, addressed to this one.
MisdirectReply(w) == w \in Writers \ Agents /\ Put("ack", w, None)

\* 300 seconds later.
Expire(n) ==
  /\ n \in (Expiring \cap DOMAIN mail) \ expired
  /\ expired' = expired \cup {n}
  /\ UNCHANGED <<mail, cursor, pc, cur, verdict, halted, holdRef, nonces, replies, log, born,
                 applied, crashes, raises>>
--------------------------------------------------------------------------------
(* ControlParticipant.checkpoint *)

\* Mutants of Poll: it starts one envelope early, or waits while the maker is held.
PollFrom(first) ==
  /\ pc = "idle"
  /\ ~halted
  /\ cursor < Len(mail)
  /\ cur' = first
  /\ cursor' = Len(mail)
  /\ pc' = "judge"
  /\ UNCHANGED <<mail, verdict, halted, holdRef, nonces, expired, replies, log, born, applied,
                 crashes, raises>>
PollEarly == PollFrom(cursor)
PollUnlessHeld == holdRef = None /\ PollFrom(cursor + 1)

\* The maker's loop comes to a checkpoint while should_continue().
Poll ==
  /\ pc = "idle"
  /\ ~halted
  /\ cursor < Len(mail)
  /\ cur' = cursor + 1
  /\ cursor' = Len(mail)
  /\ pc' = "judge"
  /\ UNCHANGED <<mail, verdict, halted, holdRef, nonces, expired, replies, log, born, applied,
                 crashes, raises>>

\* On to the next envelope of the batch, if there is one.
Advance ==
  /\ pc' = IF cur < cursor THEN "judge" ELSE "idle"
  /\ cur' = IF cur < cursor THEN cur + 1 ELSE None
  /\ verdict' = "none"

Find(v, label) == verdict' = v /\ pc' = label /\ UNCHANGED cur

\* Mutant of Judge: a replay is acknowledged as if it had been honoured.
JudgeAcksReplays ==
  /\ pc = "judge"
  /\ IF mail[cur].from \notin Trusted THEN Find("unverified", "reply")
     ELSE IF Seen(nonces, cur) THEN Find("authenticated", "reply")
     ELSE IF mail[cur].from \notin MakerRoster THEN Find("unauthorized", "reply")
     ELSE Find("authenticated", "record")
  /\ UNCHANGED <<mail, cursor, halted, holdRef, nonces, expired, replies, log, born, applied,
                 crashes, raises>>

\* _verify_envelope, up to the record of the nonce.  A bare maker takes anything,
\* and passes over what is not for it.
Judge ==
  /\ pc = "judge"
  /\ IF ~Authenticated
     THEN IF mail[cur].verb \in SteerVerbs THEN Find("advisory", "apply") ELSE Advance
     ELSE IF mail[cur].from \notin Trusted THEN Find("unverified", "reply")
     ELSE IF cur \in expired THEN Find("expired", "reply")
     ELSE IF Seen(nonces, cur) THEN Find("replay", "reply")
     ELSE IF mail[cur].from \notin MakerRoster \/ mail[cur].verb \notin SteerVerbs
          THEN Find("unauthorized", "reply")
     ELSE Find("authenticated", "record")
  /\ UNCHANGED <<mail, cursor, halted, holdRef, nonces, expired, replies, log, born, applied,
                 crashes, raises>>

\* Mutant of RecordNonce: nothing is recorded.
RecordNothing ==
  /\ pc = "record"
  /\ pc' = "apply"
  /\ UNCHANGED <<mail, cursor, cur, verdict, halted, holdRef, nonces, expired, replies, log,
                 born, applied, crashes, raises>>

RecordNonce ==
  /\ pc = "record"
  /\ nonces' = Record(nonces, cur)
  /\ pc' = "apply"
  /\ UNCHANGED <<mail, cursor, cur, verdict, halted, holdRef, expired, replies, log, born,
                 applied, crashes, raises>>

\* Mutant of Apply: a hold does not replace the one in force.
ApplyFirstHold ==
  /\ pc = "apply"
  /\ halted' = (halted \/ mail[cur].verb = "halt")
  /\ holdRef' = CASE mail[cur].verb = "hold" /\ holdRef = None -> cur
                  [] mail[cur].verb = "resume" -> None
                  [] OTHER                     -> holdRef
  /\ log' = Append(log, cur)
  /\ applied' = [applied EXCEPT ![cur] = @ + 1]
  /\ pc' = "reply"
  /\ UNCHANGED <<mail, cursor, cur, verdict, nonces, expired, replies, born, crashes, raises>>

\* report_state, accept_directive or halt.
Apply ==
  /\ pc = "apply"
  /\ halted' = (halted \/ mail[cur].verb = "halt")
  /\ holdRef' = CASE mail[cur].verb = "hold"   -> cur
                  [] mail[cur].verb = "resume" -> None
                  [] OTHER                     -> holdRef
  /\ log' = Append(log, cur)
  /\ applied' = [applied EXCEPT ![cur] = @ + 1]
  /\ pc' = "reply"
  /\ UNCHANGED <<mail, cursor, cur, verdict, nonces, expired, replies, born, crashes, raises>>

\* The host's state_provider raises out of checkpoint(): the batch is gone.
ProviderRaises ==
  /\ pc = "apply" /\ mail[cur].verb = "query-state"
  /\ raises < MaxRaises
  /\ raises' = raises + 1
  /\ pc' = "idle" /\ cur' = None /\ verdict' = "none"
  /\ UNCHANGED <<mail, cursor, halted, holdRef, nonces, expired, replies, log, born, applied,
                 crashes>>

\* The ack or report, labelled with the mode when the envelope was honoured.
Reply ==
  /\ pc = "reply"
  /\ replies' = replies \cup {[id |-> cur, verdict |-> verdict]}
  /\ Advance
  /\ UNCHANGED <<mail, cursor, halted, holdRef, nonces, expired, log, born, applied, crashes,
                 raises>>
--------------------------------------------------------------------------------
\* The maker's process ends and a new one takes over its session.
Restart ==
  /\ crashes < MaxCrashes
  /\ crashes' = crashes + 1
  /\ pc' = "idle" /\ cur' = None /\ verdict' = "none"
  /\ halted' = FALSE /\ holdRef' = None
  /\ born' = Len(log)
  /\ UNCHANGED <<mail, nonces, expired, replies, log, applied, raises>>

Crash == Restart /\ UNCHANGED cursor

\* It ends while poll() has the cursor file truncated and not yet written.
CrashInPoll ==
  /\ pc = "idle" /\ ~halted /\ cursor < Len(mail)
  /\ Restart
  /\ cursor' = 0

Step == Judge \/ RecordNonce \/ Apply \/ Reply

Next ==
  \/ \E a \in Agents, verb \in SteerVerbs : Dispatch(a, verb)
  \/ \E w \in Writers : MisdirectReply(w)
  \/ \E n \in Expiring : Expire(n)
  \/ Poll \/ Step \/ ProviderRaises
  \/ Crash \/ CrashInPoll

Spec == Init /\ [][Next]_vars

\* The maker keeps coming to checkpoints and a checkpoint runs to its end.
FairSpec == Spec /\ WF_vars(Poll) /\ WF_vars(Step)
--------------------------------------------------------------------------------
Accepting == {"advisory", "authenticated"}
Rejecting == {"unverified", "expired", "replay", "unauthorized"}

TypeOK ==
  /\ mail \in Seq(Envelope) /\ Len(mail) <= MaxSent
  /\ cursor \in 0 .. Len(mail)
  /\ pc \in {"idle", "judge", "record", "apply", "reply"}
  /\ cur \in (IF pc = "idle" THEN {None} ELSE 1 .. cursor)
  /\ verdict \in {"none"} \cup Accepting \cup Rejecting
  /\ halted \in BOOLEAN /\ holdRef \in Ids \cup {None}
  /\ nonces \in Stores(Ids)
  /\ expired \subseteq Ids
  /\ replies \subseteq [id : Ids, verdict : Accepting \cup Rejecting]
  /\ log \in Seq(Ids) /\ born \in 0 .. Len(log)
  /\ applied \in [Ids -> Nat]
  /\ crashes \in 0 .. MaxCrashes /\ raises \in 0 .. MaxRaises

\* An authenticated maker applies an envelope at most once, across restarts and
\* across the redeliveries that a lost cursor brings: the promise of SingleUse.
Use == INSTANCE SingleUse WITH Tokens <- Ids, acts <- applied
AppliedAtMostOnce == Use!Spec

\* An authenticated maker applies, and acknowledges as authenticated, only what a
\* trusted writer its own roster allows has sent; whatever is acknowledged was
\* applied, and no bare maker's answer can be taken for an authenticated one.
AcksTellTheTruth ==
  /\ \A n \in Ids : Authenticated /\ applied[n] > 0 =>
       mail[n].from \in Trusted \cap MakerRoster /\ Seen(nonces, n)
  /\ \A r \in replies :
       /\ r.verdict \in Accepting =>
            applied[r.id] > 0 /\ (r.verdict = "authenticated" <=> Authenticated)
       /\ r.verdict \in {"unverified", "unauthorized"} => applied[r.id] = 0

\* Since its last restart a maker has applied envelopes in the order they were
\* sent, none twice, and its signals are what that order says: it is held by the
\* last hold no later resume followed, and halted by any halt.
InLife == born + 1 .. Len(log)

SignalsFollowOrder ==
  /\ \A i, j \in InLife : i < j => log[i] < log[j]
  /\ halted <=> \E i \in InLife : mail[log[i]].verb = "halt"
  /\ \A h \in Ids :
       holdRef = h <=>
         \E i \in InLife :
           /\ log[i] = h /\ mail[h].verb = "hold"
           /\ \A j \in i + 1 .. Len(log) : mail[log[j]].verb \notin {"hold", "resume"}

\* A halt an allowed agent sent is honoured, unless it expired, the maker died or
\* its host raised before that, or it was halted already.
Honourable(n) ==
  /\ n \in DOMAIN mail
  /\ Authenticated => mail[n].from \in Trusted \cap MakerRoster

HaltIsHonoured ==
  \A n \in Ids :
    (Honourable(n) /\ mail[n].verb = "halt")
      ~> (halted \/ n \in expired \/ crashes > 0 \/ raises > 0)

\* What the documentation says of the channel and a run refutes:
\* "a `halt` is a cooperative stop at the next checkpoint".
HaltTakesEffect ==
  \A n \in Ids : (Honourable(n) /\ mail[n].verb = "halt") ~> halted
================================================================================
