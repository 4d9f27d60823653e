------------------------- MODULE ControlChannelProofs -------------------------
(***************************************************************************)
(* Proofs about ControlChannel, for any writers, rosters and bounds: type  *)
(* correctness, that its signals follow the order of the envelopes, and,   *)
(* for an authenticated maker, that an envelope is applied at most once    *)
(* and that acknowledgements tell the truth.                               *)
(***************************************************************************)
EXTENDS ControlChannel, Integers, TLAPS

LEMMA StoreOps ==
  ASSUME NEW S \in Stores(Ids), NEW n \in Ids, NEW m \in Ids
  PROVE  /\ Record(S, n) \in Stores(Ids)
         /\ Seen(Record(S, n), m) <=> Seen(S, m) \/ m = n
  BY FileStoreAssumption DEF Stores, Record, Seen

\* Past the judgement there is a verdict.
Judged ==
  pc \in {"record", "apply", "reply"} => verdict \in Accepting \cup Rejecting

LEMMA TypeInit == Init => TypeOK
  <1> SUFFICES ASSUME Init PROVE TypeOK
    OBVIOUS
  <1>1. mail \in Seq(Envelope) /\ Len(mail) = 0 /\ log \in Seq(Ids) /\ Len(log) = 0
    BY DEF Init
  <1>2. nonces \in Stores(Ids)
    BY DEF Init, Stores, EmptyStore
  <1>3. applied \in [Ids -> Nat]
    BY DEF Init
  <1>4. cursor \in 0 .. Len(mail) /\ born \in 0 .. Len(log) /\ Len(mail) <= MaxSent
        /\ crashes \in 0 .. MaxCrashes /\ raises \in 0 .. MaxRaises
    BY <1>1, ChannelAssumption DEF Init
  <1>5. QED
    BY <1>1, <1>2, <1>3, <1>4 DEF Init, TypeOK, None

LEMMA Current ==
  ASSUME TypeOK, pc # "idle"
  PROVE  /\ cur \in 1 .. cursor /\ cur \in 1 .. Len(mail) /\ cur \in Ids
         /\ mail[cur] \in Envelope
  BY ChannelAssumption DEF TypeOK, Ids

LEMMA TypeAdvance ==
  ASSUME TypeOK, pc # "idle", Advance, UNCHANGED <<mail, cursor>>
  PROVE  /\ pc' \in {"idle", "judge"}
         /\ cur' \in (IF pc' = "idle" THEN {None} ELSE 1 .. cursor')
         /\ verdict' = "none"
  BY DEF TypeOK, Advance, None

LEMMA TypeStep == TypeOK /\ Judged /\ [Next]_vars => TypeOK'
  <1> SUFFICES ASSUME TypeOK, Judged, [Next]_vars PROVE TypeOK'
    OBVIOUS
  <1> USE ChannelAssumption
  <1>1. ASSUME NEW v \in Verbs, NEW w \in Writers, NEW r \in Ids \cup {None}, Put(v, w, r)
        PROVE  TypeOK'
    <2>1. [verb |-> v, from |-> w, ref |-> r] \in Envelope
      BY DEF Envelope
    <2>2. mail' \in Seq(Envelope) /\ Len(mail') = Len(mail) + 1 /\ Len(mail') <= MaxSent
      BY <1>1, <2>1 DEF Put, TypeOK
    <2>3. cursor \in 0 .. Len(mail')
      BY <2>2 DEF TypeOK
    <2>4. QED
      BY <1>1, <2>2, <2>3 DEF Put, TypeOK
  <1>2. ASSUME NEW a \in Agents, NEW v \in SteerVerbs, Dispatch(a, v) PROVE TypeOK'
    <2>1. Holds \subseteq Ids
      BY DEF Holds, TypeOK, Ids
    <2>2. a \in Writers /\ v \in Verbs
      BY DEF Verbs
    <2>3. QED
      BY <1>1, <1>2, <2>1, <2>2 DEF Dispatch
  <1>3. ASSUME NEW w \in Writers, MisdirectReply(w) PROVE TypeOK'
    BY <1>1, <1>3 DEF MisdirectReply, Verbs
  <1>4. ASSUME NEW n \in Expiring, Expire(n) PROVE TypeOK'
    <2>1. n \in Ids
      BY <1>4 DEF Expire, TypeOK, Ids
    <2>2. QED
      BY <1>4, <2>1 DEF Expire, TypeOK
  <1>5. CASE Poll
    BY <1>5 DEF Poll, TypeOK, None
  <1>6. CASE Judge
    <2>1. CASE Advance
      BY <1>6, <2>1, TypeAdvance DEF Judge, TypeOK
    <2>2. ASSUME NEW v \in Accepting \cup Rejecting, NEW l \in {"record", "apply", "reply"},
                 Find(v, l)
          PROVE  TypeOK'
      BY <1>6, <2>2, Current DEF Judge, Find, TypeOK
    <2>3. QED
      BY <1>6, <2>1, <2>2 DEF Judge, Accepting, Rejecting
  <1>7. CASE RecordNonce
    BY <1>7, Current, StoreOps DEF RecordNonce, TypeOK
  <1>8. CASE Apply
    <2>1. cur \in Ids /\ cur \in 1 .. cursor
      BY <1>8, Current DEF Apply
    <2>2. holdRef' \in Ids \cup {None}
      BY <1>8, <2>1 DEF Apply, TypeOK
    <2>3. log' \in Seq(Ids) /\ Len(log') = Len(log) + 1 /\ born \in 0 .. Len(log')
      BY <1>8, <2>1 DEF Apply, TypeOK
    <2>4. applied' \in [Ids -> Nat]
      BY <1>8, <2>1 DEF Apply, TypeOK
    <2>5. halted' \in BOOLEAN
      BY <1>8 DEF Apply, TypeOK
    <2>6. QED
      BY <1>8, <2>1, <2>2, <2>3, <2>4, <2>5 DEF Apply, TypeOK
  <1>9. CASE Reply
    <2>1. replies' \subseteq [id : Ids, verdict : Accepting \cup Rejecting]
      BY <1>9, Current DEF Reply, TypeOK, Judged
    <2>2. QED
      BY <1>9, <2>1, TypeAdvance DEF Reply, TypeOK
  <1>10. CASE ProviderRaises
    BY <1>10 DEF ProviderRaises, TypeOK
  <1>11. CASE Restart /\ cursor' \in {0, cursor}
    <2>1. Len(mail) \in Nat /\ Len(log) \in Nat
      BY DEF TypeOK
    <2>2. cursor' \in 0 .. Len(mail') /\ born' \in 0 .. Len(log')
      BY <1>11, <2>1 DEF Restart, TypeOK
    <2>3. crashes' \in 0 .. MaxCrashes
      BY <1>11 DEF Restart, TypeOK
    <2>4. holdRef' \in Ids \cup {None} /\ halted' \in BOOLEAN
      BY <1>11 DEF Restart
    <2>5. QED
      BY <1>11, <2>2, <2>3, <2>4 DEF Restart, TypeOK
  <1>12. CASE UNCHANGED vars
    BY <1>12 DEF vars, TypeOK
  <1>13. QED
    BY <1>2, <1>3, <1>4, <1>5, <1>6, <1>7, <1>8, <1>9, <1>10, <1>11, <1>12
    DEF Next, Step, Crash, CrashInPoll

LEMMA JudgedStep == Judged /\ [Next]_vars => Judged'
  BY DEF Judged, Accepting, Rejecting, Next, Dispatch, MisdirectReply, Put, Expire, Poll, Step,
         Judge, Advance, Find, RecordNonce, Apply, Reply, ProviderRaises, Crash, CrashInPoll,
         Restart, vars

\* Every variable keeps its type.
THEOREM TypeCorrect == Spec => []TypeOK
  <1>1. Init => Judged
    BY DEF Init, Judged
  <1>2. QED
    BY TypeInit, TypeStep, JudgedStep, <1>1, PTL DEF Spec

(***************************************************************************)
(* The authenticated maker.                                                *)
(***************************************************************************)
Acceptable(n) ==
  /\ n \in DOMAIN mail
  /\ mail[n].from \in Trusted \cap MakerRoster /\ mail[n].verb \in SteerVerbs

Denials == {"unverified", "unauthorized"}

\* Where the maker stands with the envelope it is at: its nonce is unrecorded, or
\* recorded and the envelope not yet applied, or it was applied or denied.
Progress ==
  /\ pc = "record" => /\ Acceptable(cur) /\ ~Seen(nonces, cur)
                      /\ verdict = "authenticated"
  /\ pc = "apply"  => /\ Acceptable(cur) /\ Seen(nonces, cur) /\ applied[cur] = 0
                      /\ verdict = "authenticated"
  /\ pc = "reply"  => /\ verdict # "advisory"
                      /\ verdict = "authenticated" => applied[cur] > 0
                      /\ verdict \in Denials => ~Acceptable(cur)

\* Nothing is applied whose nonce is not recorded, and nothing twice.
Marked ==
  \A n \in Ids : applied[n] > 0 => applied[n] = 1 /\ Seen(nonces, n) /\ Acceptable(n)

Answered ==
  \A r \in replies :
    /\ r.verdict # "advisory" /\ r.id \in DOMAIN mail
    /\ r.verdict = "authenticated" => applied[r.id] > 0
    /\ r.verdict \in Denials => ~Acceptable(r.id)

OnceInv == TypeOK /\ Judged /\ Progress /\ Marked /\ Answered

\* The mailbox only grows, so a writer's envelope stays acceptable or not.
LEMMA MailGrows ==
  ASSUME TypeOK, [Next]_vars, NEW n \in DOMAIN mail
  PROVE  n \in DOMAIN mail' /\ (Acceptable(n)' <=> Acceptable(n))
  <1>1. CASE mail' = mail
    BY <1>1 DEF Acceptable
  <1>2. ASSUME NEW v \in Verbs, NEW w \in Writers, NEW r \in Ids \cup {None}, Put(v, w, r)
        PROVE  n \in DOMAIN mail' /\ mail'[n] = mail[n]
    BY <1>2 DEF Put, TypeOK, Envelope
  <1>3. Holds \subseteq Ids
    BY ChannelAssumption DEF Holds, TypeOK, Ids
  <1>4. CASE mail' # mail
    <2>1. PICK v \in Verbs, w \in Writers, r \in Ids \cup {None} : Put(v, w, r)
      BY <1>3, <1>4, ChannelAssumption
      DEF Next, Dispatch, MisdirectReply, Expire, Poll, Step, Judge, RecordNonce, Apply, Reply,
          ProviderRaises, Crash, CrashInPoll, Restart, vars, Verbs
    <2>2. QED
      BY <1>2, <2>1 DEF Acceptable
  <1>5. QED
    BY <1>1, <1>4

LEMMA OnceInit == Init => OnceInv
  BY TypeInit DEF Init, OnceInv, Judged, Progress, Marked, Answered

\* Steps of others leave the maker where it is with its envelope.
LEMMA OthersStep ==
  ASSUME OnceInv, [Next]_vars,
         UNCHANGED <<pc, cur, verdict, nonces, replies, applied>>
  PROVE  Progress' /\ Marked' /\ Answered'
  <1> USE DEF OnceInv
  <1>1. pc # "idle" => cur \in DOMAIN mail
    BY Current DEF TypeOK
  <1>2. Progress'
    BY <1>1, MailGrows DEF Progress, Seen
  <1>3. Marked'
    <2>1. \A n \in Ids : applied[n] > 0 => n \in DOMAIN mail /\ Acceptable(n)'
      BY MailGrows DEF Marked, Acceptable
    <2>2. QED
      BY <2>1 DEF Marked, Seen
  <1>4. Answered'
    BY MailGrows DEF Answered
  <1>5. QED
    BY <1>2, <1>3, <1>4

LEMMA OnceStep ==
  ASSUME Authenticated, OnceInv, [Next]_vars
  PROVE  OnceInv'
  <1> USE DEF OnceInv
  <1>1. TypeOK' /\ Judged'
    BY TypeStep, JudgedStep
  <1> SUFFICES Progress' /\ Marked' /\ Answered'
    BY <1>1
  <1>2. CASE UNCHANGED <<pc, cur, verdict, nonces, replies, applied>>
    BY <1>2, OthersStep
  <1>3. CASE Poll
    BY <1>3 DEF Poll, Progress, Marked, Answered, Acceptable
  <1>4. CASE Judge
    <2>1. /\ cur \in DOMAIN mail /\ cur \in Ids
          /\ UNCHANGED <<mail, nonces, replies, applied>>
      BY <1>4, Current DEF Judge, TypeOK
    <2>2. Marked' /\ Answered'
      BY <2>1 DEF Marked, Answered, Acceptable
    <2>3. pc' = "record" => Acceptable(cur) /\ ~Seen(nonces, cur) /\ cur' = cur
                            /\ verdict' = "authenticated"
      BY <1>4, <2>1 DEF Judge, Find, Acceptable
    <2>4. pc' # "apply"
      BY <1>4 DEF Judge, Find
    <2>5. pc' = "reply" => /\ cur' = cur /\ verdict' \in Rejecting
                           /\ verdict' \in Denials => ~Acceptable(cur)
      BY <1>4, <2>1 DEF Judge, Find, Acceptable, Rejecting, Denials
    <2>6. QED
      BY <2>1, <2>2, <2>3, <2>4, <2>5 DEF Progress, Acceptable, Rejecting
  <1>5. CASE RecordNonce
    <2>1. /\ cur \in Ids /\ cur' = cur /\ nonces' = Record(nonces, cur)
          /\ UNCHANGED <<mail, verdict, replies, applied>> /\ pc' = "apply" /\ pc = "record"
      BY <1>5, Current DEF RecordNonce
    <2>2. Seen(nonces', cur) /\ \A n \in Ids : Seen(nonces, n) => Seen(nonces', n)
      BY <2>1, StoreOps DEF TypeOK
    <2>3. applied[cur] = 0
      BY <2>1 DEF Progress, Marked, TypeOK
    <2>4. QED
      BY <2>1, <2>2, <2>3 DEF Progress, Marked, Answered, Acceptable
  <1>6. CASE Apply
    <2>1. /\ cur \in Ids /\ cur' = cur
          /\ applied' = [applied EXCEPT ![cur] = @ + 1]
          /\ UNCHANGED <<mail, verdict, nonces, replies>> /\ pc' = "reply" /\ pc = "apply"
      BY <1>6, Current DEF Apply
    <2>2. applied'[cur] = 1 /\ \A n \in Ids \ {cur} : applied'[n] = applied[n]
      BY <2>1 DEF Progress, TypeOK
    <2>3. Progress'
      BY <2>1, <2>2 DEF Progress, Denials
    <2>4. Marked'
      BY <2>1, <2>2 DEF Progress, Marked, Acceptable
    <2>5. Answered'
      BY <2>1, <2>2 DEF Answered, Acceptable, TypeOK
    <2>6. QED
      BY <2>3, <2>4, <2>5
  <1>7. CASE Reply
    <2>1. /\ cur \in Ids /\ cur \in DOMAIN mail /\ pc = "reply"
          /\ pc' \in {"idle", "judge"}
          /\ replies' = replies \cup {[id |-> cur, verdict |-> verdict]}
          /\ UNCHANGED <<mail, nonces, applied>>
      BY <1>7, Current DEF Reply, Advance, TypeOK
    <2>2. Progress'
      BY <2>1 DEF Progress
    <2>3. QED
      BY <2>1, <2>2 DEF Progress, Marked, Answered, Acceptable
  <1>8. CASE pc' = "idle" /\ UNCHANGED <<mail, nonces, replies, applied>>
    BY <1>8 DEF Progress, Marked, Answered, Acceptable
  <1>9. QED
    BY <1>2, <1>3, <1>4, <1>5, <1>6, <1>7, <1>8
    DEF Next, Step, Dispatch, MisdirectReply, Put, Expire, ProviderRaises, Crash, CrashInPoll,
        Restart, vars

\* Redelivery after a lost cursor, restarts and lost batches included, an
\* authenticated maker applies no envelope twice.
THEOREM EnvelopesAppliedOnce ==
  ASSUME Authenticated
  PROVE  Spec => AppliedAtMostOnce
  <1>1. Init => Use!Init
    BY DEF Init, Use!Init
  <1>2. OnceInv /\ [Next]_vars => [Use!Next]_applied
    <2> SUFFICES ASSUME OnceInv, [Next]_vars, applied' # applied PROVE Use!Next
      OBVIOUS
    <2>1. Apply
      BY DEF Next, Step, Dispatch, MisdirectReply, Put, Expire, Poll, Judge, RecordNonce, Reply,
             ProviderRaises, Crash, CrashInPoll, Restart, vars
    <2>2. cur \in Ids /\ applied[cur] = 0
      BY <2>1, Current DEF Apply, OnceInv, Progress
    <2>3. applied' = [applied EXCEPT ![cur] = 1]
      BY <2>1, <2>2 DEF Apply
    <2>4. QED
      BY <2>2, <2>3 DEF Use!Next, Use!Act
  <1>3. QED
    BY OnceInit, OnceStep, <1>1, <1>2, PTL DEF Spec, AppliedAtMostOnce, Use!Spec

\* What an authenticated maker applied came from a trusted and allowed writer; what
\* it acknowledged it applied; what it denied it did not.
THEOREM AcksAreTrue ==
  ASSUME Authenticated
  PROVE  Spec => []AcksTellTheTruth
  <1>1. OnceInv => AcksTellTheTruth
    <2> SUFFICES ASSUME OnceInv PROVE AcksTellTheTruth
      OBVIOUS
    <2>1. \A n \in Ids : applied[n] > 0 => /\ mail[n].from \in Trusted \cap MakerRoster
                                           /\ Seen(nonces, n)
      BY DEF OnceInv, Marked, Acceptable
    <2>2. ASSUME NEW r \in replies
          PROVE  /\ r.verdict \in Accepting =>
                      applied[r.id] > 0 /\ (r.verdict = "authenticated" <=> Authenticated)
                 /\ r.verdict \in Denials => applied[r.id] = 0
      BY DEF OnceInv, Answered, Marked, Accepting, TypeOK
    <2>3. QED
      BY <2>1, <2>2 DEF AcksTellTheTruth, Denials
  <1>2. QED
    BY OnceInit, OnceStep, <1>1, PTL DEF Spec

(***************************************************************************)
(* The maker's signals, in either mode.                                    *)
(***************************************************************************)
\* The last envelope the maker may have applied since its last restart.
Front == IF pc = "idle" THEN cursor ELSE IF pc = "reply" THEN cur ELSE cur - 1

LifeInv ==
  /\ TypeOK /\ Judged
  /\ \A i \in InLife : log[i] <= Front
  /\ SignalsFollowOrder

\* Whatever the maker does but to apply or to lose its cursor, its front stays or
\* moves on.
LEMMA FrontAdvances ==
  ASSUME TypeOK, TypeOK', [Next]_vars, ~Apply, ~CrashInPoll
  PROVE  Front' >= Front /\ Front \in Int /\ Front' \in Int
  <1>0. Front \in Int /\ Front' \in Int
    <2>1. cursor \in Int /\ cur \in Int /\ cursor' \in Int /\ cur' \in Int
      BY DEF TypeOK, None
    <2> QED
      BY <2>1 DEF Front
  <1>1. CASE UNCHANGED <<pc, cur, cursor>>
    BY <1>0, <1>1 DEF Front
  <1>2. CASE Poll
    BY <1>2 DEF Front, TypeOK, Poll
  <1>3. CASE Judge
    BY <1>3, Current DEF Front, TypeOK, Judge, Find, Advance
  <1>4. CASE RecordNonce
    BY <1>4, Current DEF Front, TypeOK, RecordNonce
  <1>5. CASE Reply
    BY <1>5, Current DEF Front, TypeOK, Reply, Advance
  <1>6. CASE ProviderRaises
    BY <1>6, Current DEF Front, TypeOK, ProviderRaises
  <1>7. CASE Crash
    <2>1. Front' = cursor /\ cursor \in Int
      BY <1>7 DEF Crash, Restart, Front, TypeOK
    <2>2. Front <= cursor
      BY DEF Front, TypeOK, None
    <2> QED
      BY <1>0, <2>1, <2>2
  <1> QED
    BY <1>0, <1>1, <1>2, <1>3, <1>4, <1>5, <1>6, <1>7
    DEF Next, Dispatch, MisdirectReply, Put, Expire, Step, CrashInPoll, vars

LEMMA LifeInit == Init => LifeInv
  BY TypeInit DEF Init, LifeInv, Judged, SignalsFollowOrder, InLife, Ids, None

\* A step that applies nothing and restarts nothing only moves the front on.
LEMMA FrontMoves ==
  ASSUME LifeInv, [Next]_vars, UNCHANGED <<halted, holdRef, log, born>>, Front' >= Front
  PROVE  /\ \A i \in InLife' : log'[i] <= Front'
         /\ SignalsFollowOrder'
  <1> USE DEF LifeInv
  <1>1. Front \in Int /\ Front' \in Int /\ Front <= Len(mail) /\ TypeOK'
    <2>1. TypeOK'
      BY TypeStep
    <2>2. cursor \in Int /\ cursor <= Len(mail) /\ cur \in Int /\ Len(mail) \in Nat
      BY DEF TypeOK, None
    <2>3. pc # "idle" => cur <= cursor
      BY DEF TypeOK
    <2>4. cursor' \in Int /\ cur' \in Int
      BY <2>1 DEF TypeOK, None
    <2>5. Front \in Int /\ Front <= Len(mail)
      BY <2>2, <2>3 DEF Front
    <2>6. Front' \in Int
      BY <2>4 DEF Front
    <2>7. QED
      BY <2>1, <2>5, <2>6
  <1>2. \A i \in InLife : log[i] \in Ids /\ log[i] \in DOMAIN mail /\ i \in 1 .. Len(log)
    <2> SUFFICES ASSUME NEW i \in InLife
                 PROVE  log[i] \in Ids /\ log[i] \in DOMAIN mail /\ i \in 1 .. Len(log)
      OBVIOUS
    <2>1. i \in 1 .. Len(log)
      BY DEF InLife, TypeOK
    <2>2. log[i] \in Ids
      BY <2>1 DEF TypeOK
    <2>3. log[i] \in Nat /\ log[i] >= 1 /\ log[i] <= Front
      BY <2>2, ChannelAssumption DEF Ids
    <2>4. DOMAIN mail = 1 .. Len(mail) /\ Len(mail) \in Nat
      BY DEF TypeOK
    <2>5. log[i] <= Len(mail)
      BY <2>3, <2>4, <1>1
    <2>6. QED
      BY <2>1, <2>2, <2>3, <2>4, <2>5
  <1>3. \A n \in DOMAIN mail : mail'[n] = mail[n]
    <2>1. CASE mail' = mail
      BY <2>1
    <2>2. CASE mail' # mail
      <3>1. Holds \subseteq Ids
        BY ChannelAssumption DEF Holds, TypeOK, Ids
      <3>2. PICK v \in Verbs, w \in Writers, r \in Ids \cup {None} : Put(v, w, r)
        BY <2>2, <3>1, ChannelAssumption
        DEF Next, Dispatch, MisdirectReply, Expire, Poll, Step, Judge, RecordNonce, Apply,
            Reply, ProviderRaises, Crash, CrashInPoll, Restart, vars, Verbs
      <3>3. [verb |-> v, from |-> w, ref |-> r] \in Envelope
        BY DEF Envelope
      <3>4. QED
        BY <3>2, <3>3 DEF Put, TypeOK
    <2>3. QED
      BY <2>1, <2>2
  <1>4. InLife' = InLife /\ log' = log
    BY DEF InLife
  <1>5. \A i \in InLife : log[i] <= Front'
    BY <1>1, <1>2 DEF Ids
  <1>6. \A i \in InLife : mail'[log[i]].verb = mail[log[i]].verb
    BY <1>2, <1>3
  <1>7. halted' <=> \E i \in InLife' : mail'[log'[i]].verb = "halt"
    BY <1>4, <1>6 DEF SignalsFollowOrder
  <1>8. ASSUME NEW h \in Ids
        PROVE  holdRef' = h <=>
                 \E i \in InLife' :
                   /\ log'[i] = h /\ mail'[h].verb = "hold"
                   /\ \A j \in i + 1 .. Len(log') : mail'[log'[j]].verb \notin {"hold", "resume"}
    <2>1. \A i \in InLife : \A j \in i + 1 .. Len(log) : j \in InLife
      BY DEF InLife, TypeOK
    <2>2. QED
      BY <1>4, <1>6, <2>1 DEF SignalsFollowOrder
  <1>9. QED
    BY <1>4, <1>5, <1>7, <1>8 DEF SignalsFollowOrder

LEMMA ApplyKeepsOrder ==
  ASSUME LifeInv, Apply
  PROVE  /\ \A i \in InLife' : log'[i] <= Front'
         /\ SignalsFollowOrder'
  <1> USE DEF LifeInv
  <1> DEFINE k == Len(log) + 1
  <1>1. /\ cur \in Ids /\ cur \in DOMAIN mail /\ cur # None /\ mail[cur] \in Envelope
        /\ pc = "apply" /\ pc' = "reply" /\ UNCHANGED <<mail, cur, born>>
    BY Current, ChannelAssumption DEF Apply, Ids, None, TypeOK
  <1>2. /\ k \in Nat /\ born < k /\ Len(log') = k /\ log'[k] = cur
        /\ \A i \in 1 .. Len(log) : log'[i] = log[i]
    BY <1>1 DEF Apply, TypeOK
  <1>3. InLife' = InLife \cup {k} /\ k \notin InLife /\ InLife \subseteq 1 .. Len(log)
    BY <1>1, <1>2 DEF InLife, TypeOK
  <1>4. \A i \in InLife : log'[i] = log[i] /\ log[i] \in Ids /\ log[i] < cur
    <2> SUFFICES ASSUME NEW i \in InLife
                 PROVE  log'[i] = log[i] /\ log[i] \in Ids /\ log[i] < cur
      OBVIOUS
    <2>1. i \in 1 .. Len(log) /\ log'[i] = log[i]
      BY <1>2, <1>3
    <2>2. log[i] \in Ids
      BY <2>1 DEF TypeOK
    <2>3. log[i] <= cur - 1
      BY <1>1 DEF Front
    <2>4. log[i] \in Int /\ cur \in Int
      BY <1>1, <2>2, ChannelAssumption DEF Ids
    <2>5. log[i] < cur
      BY <2>3, <2>4
    <2>6. QED
      BY <2>1, <2>2, <2>5
  <1>5. \A i \in InLife' : log'[i] <= Front'
    BY <1>1, <1>2, <1>3, <1>4 DEF Front, Ids
  <1>6. \A i, j \in InLife' : i < j => log'[i] < log'[j]
    BY <1>2, <1>3, <1>4 DEF SignalsFollowOrder
  <1>7. halted' <=> \E i \in InLife' : mail'[log'[i]].verb = "halt"
    <2>1. halted' = (halted \/ mail[cur].verb = "halt")
      BY DEF Apply
    <2>2. halted <=> \E i \in InLife : mail[log[i]].verb = "halt"
      BY DEF SignalsFollowOrder
    <2>3. \A i \in InLife : mail'[log'[i]].verb = mail[log[i]].verb
      BY <1>1, <1>4
    <2>4. mail'[log'[k]].verb = mail[cur].verb
      BY <1>1, <1>2
    <2>5. QED
      BY <1>3, <2>1, <2>2, <2>3, <2>4
  <1>8. ASSUME NEW h \in Ids
        PROVE  holdRef' = h <=>
                 \E i \in InLife' :
                   /\ log'[i] = h /\ mail'[h].verb = "hold"
                   /\ \A j \in i + 1 .. Len(log') : mail'[log'[j]].verb \notin {"hold", "resume"}
    <2>1. \A i \in InLife : i + 1 .. k = (i + 1 .. Len(log)) \cup {k}
      BY <1>2, <1>3
    <2>2. k + 1 .. k = {}
      BY <1>2
    <2>3. \A i \in InLife : \A j \in i + 1 .. Len(log) : j \in InLife
      BY DEF InLife, TypeOK
    <2>4. CASE mail[cur].verb \in {"hold", "resume"}
      <3>1. holdRef' = h <=> mail[cur].verb = "hold" /\ h = cur
        BY <1>1, <2>4 DEF Apply, None, Ids
      <3>2. \A i \in InLife :
              ~ \A j \in i + 1 .. Len(log') : mail'[log'[j]].verb \notin {"hold", "resume"}
        BY <1>1, <1>2, <2>1, <2>4
      <3>3. QED
        BY <1>1, <1>2, <1>3, <2>2, <3>1, <3>2
    <2>5. CASE mail[cur].verb \notin {"hold", "resume"}
      <3>1. holdRef' = holdRef
        BY <1>1, <2>5 DEF Apply
      <3>2. ~(log'[k] = h /\ mail'[h].verb = "hold")
        BY <1>1, <1>2, <2>5
      <3>3. \A i \in InLife :
              (\A j \in i + 1 .. Len(log') : mail'[log'[j]].verb \notin {"hold", "resume"})
                <=> \A j \in i + 1 .. Len(log) : mail[log[j]].verb \notin {"hold", "resume"}
        BY <1>1, <1>2, <1>4, <2>1, <2>3, <2>5
      <3>4. QED
        BY <1>1, <1>3, <1>4, <3>1, <3>2, <3>3 DEF SignalsFollowOrder
    <2>6. QED
      BY <2>4, <2>5
  <1>9. QED
    BY <1>5, <1>6, <1>7, <1>8 DEF SignalsFollowOrder

LEMMA LifeStep == LifeInv /\ [Next]_vars => LifeInv'
  <1> SUFFICES ASSUME LifeInv, [Next]_vars PROVE LifeInv'
    OBVIOUS
  <1>1. TypeOK' /\ Judged'
    BY TypeStep, JudgedStep DEF LifeInv
  <1>2. CASE Apply
    BY <1>1, <1>2, ApplyKeepsOrder DEF LifeInv
  <1>3. CASE Restart
    <2>1. InLife' = {} /\ halted' = FALSE /\ holdRef' = None
      BY <1>3 DEF Restart, InLife, LifeInv, TypeOK
    <2>2. QED
      BY <1>1, <2>1 DEF LifeInv, SignalsFollowOrder, None, Ids
  <1>4. CASE ~Apply /\ ~Restart
    <2>1. UNCHANGED <<halted, holdRef, log, born>>
      BY <1>4 DEF Next, Dispatch, MisdirectReply, Put, Expire, Poll, Step, Judge, RecordNonce,
           Reply, ProviderRaises, Crash, CrashInPoll, vars
    <2>2. Front' >= Front
      BY <1>1, <1>4, FrontAdvances DEF CrashInPoll, LifeInv
    <2>3. QED
      BY <1>1, <2>1, <2>2, FrontMoves DEF LifeInv
  <1>5. QED
    BY <1>2, <1>3, <1>4

\* Bare or authenticated, what a maker has honoured since it started is in the
\* order sent, and its held and halted signals are what that order says.
THEOREM SignalsAreInOrder == Spec => []SignalsFollowOrder
  <1>1. LifeInv => SignalsFollowOrder
    BY DEF LifeInv
  <1>2. QED
    BY LifeInit, LifeStep, <1>1, PTL DEF Spec

(***************************************************************************)
(* What a maker that lives drops: nothing, in either mode.                 *)
(***************************************************************************)
\* The maker is through with envelope n.
Passed(n) == n \in 1 .. cursor /\ (pc = "idle" \/ n < cur)

\* Neither a restart nor a raising host has cut a batch short.
Undisturbed == crashes = 0 /\ raises = 0

\* An envelope that is to be honoured: steering, by an allowed writer, in time.
Due(n) == n \in DOMAIN mail /\ mail[n].verb \in SteerVerbs /\ Honourable(n) /\ n \notin expired

\* The maker owes an answer to everything but what a bare maker is not sent.
Owed(n) == Authenticated \/ mail[n].verb \in SteerVerbs

\* Every envelope a maker is through with was applied if it was due and answered if
\* an answer is owed, and a halt among those applied stopped the maker.
NothingDropped ==
  Undisturbed => \A n \in Ids : Passed(n) =>
    /\ Due(n) => applied[n] > 0 /\ (mail[n].verb = "halt" => halted)
    /\ Owed(n) => \E r \in replies : r.id = n

\* A first life meets no replay: the nonces it recorded are of envelopes behind it.
NoncesBehind ==
  crashes = 0 => \A n \in Ids : Seen(nonces, n) =>
    /\ n <= cursor /\ (pc # "idle" => n <= cur)
    /\ pc \in {"judge", "record"} => n < cur

\* What an undisturbed maker has come to with the envelope it is at.
Coming ==
  Undisturbed =>
    /\ pc \in {"record", "apply"} => mail[cur].verb \in SteerVerbs
    /\ pc = "reply" /\ Due(cur) => applied[cur] > 0

\* What was applied was sent, and a halt applied in this life has stopped the maker.
HaltsStop ==
  \A n \in Ids : applied[n] > 0 =>
    n \in DOMAIN mail /\ (crashes = 0 /\ mail[n].verb = "halt" => halted)

DropInv == TypeOK /\ Judged /\ NoncesBehind /\ Coming /\ HaltsStop /\ NothingDropped

\* An envelope of the mailbox stays what it is.
LEMMA MailStays ==
  ASSUME TypeOK, [Next]_vars, NEW n \in DOMAIN mail
  PROVE  n \in DOMAIN mail' /\ mail'[n] = mail[n]
  <1>1. CASE mail' = mail
    BY <1>1
  <1>2. ASSUME NEW v \in Verbs, NEW w \in Writers, NEW r \in Ids \cup {None}, Put(v, w, r)
        PROVE  n \in DOMAIN mail' /\ mail'[n] = mail[n]
    BY <1>2 DEF Put, TypeOK, Envelope
  <1>3. Holds \subseteq Ids
    BY ChannelAssumption DEF Holds, TypeOK, Ids
  <1>4. CASE mail' # mail
    <2>1. PICK v \in Verbs, w \in Writers, r \in Ids \cup {None} : Put(v, w, r)
      BY <1>3, <1>4, ChannelAssumption
      DEF Next, Dispatch, MisdirectReply, Expire, Poll, Step, Judge, RecordNonce, Apply, Reply,
          ProviderRaises, Crash, CrashInPoll, Restart, vars, Verbs
    <2>2. QED
      BY <1>2, <2>1
  <1>5. QED
    BY <1>1, <1>4

LEMMA DropInit == Init => DropInv
  BY TypeInit DEF Init, DropInv, Judged, NoncesBehind, Coming, HaltsStop, NothingDropped, Seen,
     EmptyStore, Passed, None

\* Steps of others leave what the maker is through with.
LEMMA DropOthers ==
  ASSUME DropInv, [Next]_vars,
         UNCHANGED <<pc, cur, cursor, verdict, nonces, replies, applied, halted, crashes, raises>>,
         expired \subseteq expired'
  PROVE  NoncesBehind' /\ Coming' /\ HaltsStop' /\ NothingDropped'
  <1> USE DEF DropInv
  <1>1. \A n \in DOMAIN mail : n \in DOMAIN mail' /\ mail'[n] = mail[n]
    BY MailStays
  <1>2. /\ pc # "idle" => cur \in DOMAIN mail /\ cur \in Ids
        /\ \A n \in Ids : Passed(n) => n \in DOMAIN mail
    BY Current DEF TypeOK, Passed
  <1>3. NoncesBehind'
    BY DEF NoncesBehind, Seen
  <1>4. \A n \in DOMAIN mail : (Due(n)' => Due(n)) /\ (Owed(n)' <=> Owed(n))
    BY <1>1 DEF Due, Honourable, Owed
  <1>5. Coming'
    BY <1>1, <1>2, <1>4 DEF Coming, Undisturbed
  <1>6. NothingDropped'
    BY <1>1, <1>2, <1>4 DEF NothingDropped, Undisturbed, Passed
  <1>7. HaltsStop'
    BY <1>1 DEF HaltsStop
  <1> QED
    BY <1>3, <1>5, <1>6, <1>7

\* Going on to the next envelope, a maker is through with the one it was at.
LEMMA PassedAdvances ==
  ASSUME TypeOK, pc # "idle", Advance, cursor' = cursor, NEW n \in Ids, Passed(n)'
  PROVE  Passed(n) \/ n = cur
  <1>1. cur \in 1 .. cursor /\ cursor \in Nat /\ n \in Int /\ cur \in Int
    BY ChannelAssumption DEF TypeOK, Ids
  <1>2. n \in 1 .. cursor /\ (pc' = "idle" \/ n < cur')
    BY DEF Passed
  <1>3. CASE cur < cursor
    <2>1. cur' = cur + 1 /\ pc' = "judge"
      BY <1>3 DEF Advance
    <2>2. n <= cur
      BY <1>1, <1>2, <2>1
    <2>3. QED
      BY <1>1, <1>2, <2>2 DEF Passed
  <1>4. CASE cur = cursor
    <2>1. n <= cur
      BY <1>1, <1>2, <1>4
    <2>2. QED
      BY <1>1, <1>2, <2>1 DEF Passed
  <1>5. QED
    BY <1>1, <1>3, <1>4

LEMMA DropNext == DropInv /\ [Next]_vars => DropInv'
  <1> SUFFICES ASSUME DropInv, [Next]_vars PROVE DropInv'
    OBVIOUS
  <1> USE DEF DropInv
  <1>1. TypeOK' /\ Judged'
    BY TypeStep, JudgedStep
  <1> SUFFICES NoncesBehind' /\ Coming' /\ HaltsStop' /\ NothingDropped'
    BY <1>1
  <1>2. CASE UNCHANGED <<pc, cur, cursor, verdict, nonces, replies, applied, halted, crashes,
                         raises>> /\ expired \subseteq expired'
    BY <1>2, DropOthers
  <1>3. CASE Poll
    <2>1. /\ pc = "idle" /\ pc' = "judge" /\ cur' = cursor + 1 /\ cursor' = Len(mail)
          /\ cursor \in Nat /\ cursor < Len(mail) /\ Len(mail) \in Nat
          /\ UNCHANGED <<mail, nonces, replies, applied, halted, expired, crashes, raises>>
      BY <1>3 DEF Poll, TypeOK
    <2>2. \A n \in Ids : Passed(n)' => Passed(n)
      BY <2>1 DEF Passed, Ids
    <2>3. NothingDropped'
      BY <2>1, <2>2 DEF NothingDropped, Undisturbed, Due, Owed, Honourable
    <2>4. NoncesBehind'
      BY <2>1, ChannelAssumption DEF NoncesBehind, Seen, Ids
    <2> QED
      BY <2>1, <2>3, <2>4 DEF Coming, HaltsStop
  <1>4. CASE Judge
    <2>1. /\ cur \in DOMAIN mail /\ cur \in Ids /\ cur \in 1 .. cursor /\ pc = "judge"
          /\ UNCHANGED <<mail, cursor, nonces, replies, applied, halted, expired, crashes, raises>>
      BY <1>4, Current DEF Judge, TypeOK
    <2>2. crashes = 0 => ~Seen(nonces, cur)
      BY <2>1, ChannelAssumption DEF NoncesBehind, Ids
    <2>3. \A n \in Ids : (Due(n)' <=> Due(n)) /\ (Owed(n)' <=> Owed(n))
      BY <2>1 DEF Due, Honourable, Owed
    <2>4. HaltsStop'
      BY <2>1 DEF HaltsStop
    <2>5. CASE Advance
      <3>1. ~Owed(cur) /\ ~Due(cur)
        BY <1>4, <2>1, <2>5 DEF Judge, Advance, Find, Owed, Due
      <3>2. \A n \in Ids : Passed(n)' => Passed(n) \/ n = cur
        BY <2>1, <2>5, PassedAdvances
      <3>3. NothingDropped'
        BY <2>1, <2>3, <3>1, <3>2 DEF NothingDropped, Undisturbed
      <3>4. NoncesBehind'
        BY <2>1, <2>5, ChannelAssumption DEF NoncesBehind, Seen, Ids, Advance
      <3>5. Coming'
        BY <2>5 DEF Coming, Advance
      <3> QED
        BY <2>4, <3>3, <3>4, <3>5
    <2>6. CASE ~Advance
      <3>1. /\ cur' = cur /\ pc' \in {"record", "apply", "reply"}
            /\ pc' \in {"record", "apply"} => mail[cur].verb \in SteerVerbs
            /\ pc' = "reply" => ~Due(cur) \/ Seen(nonces, cur)
        BY <1>4, <2>1, <2>6 DEF Judge, Find, Due, Honourable
      <3>2. \A n \in Ids : Passed(n)' => Passed(n)
        BY <2>1, <3>1, ChannelAssumption DEF Passed, Ids
      <3>3. NothingDropped'
        BY <2>1, <2>3, <3>2 DEF NothingDropped, Undisturbed
      <3>4. NoncesBehind'
        BY <2>1, <3>1, ChannelAssumption DEF NoncesBehind, Seen, Ids
      <3>5. Coming'
        BY <2>1, <2>2, <2>3, <3>1 DEF Coming, Undisturbed
      <3> QED
        BY <2>4, <3>3, <3>4, <3>5
    <2> QED
      BY <2>5, <2>6
  <1>5. CASE RecordNonce
    <2>1. /\ cur \in Ids /\ cur' = cur /\ nonces' = Record(nonces, cur) /\ cur \in 1 .. cursor
          /\ pc = "record" /\ pc' = "apply"
          /\ UNCHANGED <<mail, cursor, replies, applied, halted, expired, crashes, raises>>
      BY <1>5, Current DEF RecordNonce
    <2>2. \A n \in Ids : Seen(nonces', n) => Seen(nonces, n) \/ n = cur
      BY <2>1, StoreOps DEF TypeOK
    <2>3. NoncesBehind'
      <3> SUFFICES ASSUME crashes = 0, NEW n \in Ids, Seen(nonces', n)
                   PROVE  n <= cursor /\ n <= cur
        BY <2>1 DEF NoncesBehind, Seen
      <3> QED
        BY <2>1, <2>2, ChannelAssumption DEF NoncesBehind, Ids
    <2>4. \A n \in Ids : Passed(n)' <=> Passed(n)
      BY <2>1 DEF Passed
    <2>5. NothingDropped'
      BY <2>1, <2>4 DEF NothingDropped, Undisturbed, Due, Owed, Honourable
    <2> QED
      BY <2>1, <2>3, <2>5 DEF Coming, HaltsStop, Undisturbed
  <1>6. CASE Apply
    <2>1. /\ cur \in Ids /\ cur' = cur /\ cur \in 1 .. cursor /\ cur \in DOMAIN mail
          /\ applied' = [applied EXCEPT ![cur] = @ + 1]
          /\ halted' = (halted \/ mail[cur].verb = "halt")
          /\ pc = "apply" /\ pc' = "reply"
          /\ UNCHANGED <<mail, cursor, nonces, replies, expired, crashes, raises>>
      BY <1>6, Current DEF Apply, TypeOK
    <2>2. applied'[cur] > 0 /\ \A n \in Ids \ {cur} : applied'[n] = applied[n]
      BY <2>1 DEF TypeOK
    <2>3. \A n \in Ids : (Passed(n)' <=> Passed(n)) /\ (Passed(n) => n # cur)
      BY <2>1, ChannelAssumption DEF Passed, Ids
    <2>4. NothingDropped'
      BY <2>1, <2>2, <2>3 DEF NothingDropped, Undisturbed, Due, Owed, Honourable
    <2>5. NoncesBehind' /\ Coming'
      BY <2>1, <2>2 DEF NoncesBehind, Seen, Coming
    <2>6. HaltsStop'
      BY <2>1, <2>2 DEF HaltsStop
    <2> QED
      BY <2>4, <2>5, <2>6
  <1>7. CASE Reply
    <2>1. /\ cur \in Ids /\ cur \in DOMAIN mail /\ pc = "reply" /\ Advance /\ cur \in 1 .. cursor
          /\ replies' = replies \cup {[id |-> cur, verdict |-> verdict]}
          /\ UNCHANGED <<mail, cursor, nonces, applied, halted, expired, crashes, raises>>
      BY <1>7, Current DEF Reply, TypeOK
    <2>2. \A n \in Ids : Passed(n)' => Passed(n) \/ n = cur
      BY <2>1, PassedAdvances
    <2>3. (\E r \in replies' : r.id = cur) /\ replies \subseteq replies'
      <3> DEFINE answer == [id |-> cur, verdict |-> verdict]
      <3>1. answer.id = cur /\ replies' = replies \cup {answer}
        BY <2>1
      <3> HIDE DEF answer
      <3> QED
        BY <3>1
    <2>4. Undisturbed /\ Due(cur) => applied[cur] > 0 /\ (mail[cur].verb = "halt" => halted)
      BY <2>1 DEF Coming, HaltsStop, Undisturbed
    <2>5. NothingDropped'
      BY <2>1, <2>2, <2>3, <2>4 DEF NothingDropped, Undisturbed, Due, Owed, Honourable
    <2>6. NoncesBehind'
      BY <2>1, ChannelAssumption DEF NoncesBehind, Seen, Ids, Advance
    <2> QED
      BY <2>1, <2>5, <2>6 DEF Coming, HaltsStop, Advance
  <1>8. CASE ProviderRaises
    <2>1. /\ cur \in 1 .. cursor /\ pc' = "idle" /\ pc = "apply" /\ raises' # 0
          /\ UNCHANGED <<mail, cursor, nonces, applied, halted, crashes>>
      BY <1>8, Current DEF ProviderRaises, TypeOK
    <2>2. NoncesBehind'
      BY <2>1 DEF NoncesBehind, Seen
    <2> QED
      BY <2>1, <2>2 DEF NothingDropped, Undisturbed, Coming, HaltsStop
  <1>9. CASE Restart
    <2>1. crashes' # 0 /\ UNCHANGED <<mail, applied>>
      BY <1>9 DEF Restart, TypeOK
    <2> QED
      BY <2>1 DEF NothingDropped, Undisturbed, Coming, NoncesBehind, HaltsStop
  <1> QED
    BY <1>2, <1>3, <1>4, <1>5, <1>6, <1>7, <1>8, <1>9
    DEF Next, Step, Dispatch, MisdirectReply, Put, Expire, Crash, CrashInPoll, vars

\* A maker that has not restarted, and whose host has not raised, drops nothing it
\* polled: of the envelopes it is through with, each that was due was applied, each
\* it owed an answer has one, and a due halt has stopped it.  This is the safety
\* half of HaltIsHonoured, bare or authenticated.
THEOREM UndisturbedDropsNothing == Spec => []NothingDropped
  <1>1. DropInv => NothingDropped
    BY DEF DropInv
  <1>2. QED
    BY DropInit, DropNext, <1>1, PTL DEF Spec

(***************************************************************************)
(* Without the cursor's loss, in either mode.                              *)
(***************************************************************************)
\* Nothing is applied twice, and nothing was applied that is still ahead.
AppliedBehind ==
  \A n \in Ids : applied[n] \in {0, 1} /\ (applied[n] = 1 => n <= Front)

BareInv == TypeOK /\ Judged /\ AppliedBehind

LEMMA BareStep ==
  BareInv /\ ~CrashInPoll /\ [Next]_vars => BareInv' /\ [Use!Next]_applied
  <1> SUFFICES ASSUME BareInv, ~CrashInPoll, [Next]_vars PROVE BareInv' /\ [Use!Next]_applied
    OBVIOUS
  <1> USE DEF BareInv
  <1>1. TypeOK' /\ Judged'
    BY TypeStep, JudgedStep
  <1>2. CASE Apply
    <2>1. /\ cur \in Ids /\ cur \in Int /\ pc = "apply" /\ pc' = "reply" /\ cur' = cur
          /\ applied' = [applied EXCEPT ![cur] = @ + 1]
      BY <1>2, Current, ChannelAssumption DEF Apply, Ids
    <2>2. Front = cur - 1 /\ Front' = cur
      BY <2>1 DEF Front
    <2>3. applied[cur] = 0
      BY <2>1, <2>2 DEF AppliedBehind
    <2>4. applied' = [applied EXCEPT ![cur] = 1]
      BY <2>1, <2>3
    <2>5. AppliedBehind'
      <3> SUFFICES ASSUME NEW n \in Ids
                   PROVE  applied'[n] \in {0, 1} /\ (applied'[n] = 1 => n <= Front')
        BY DEF AppliedBehind
      <3>1. applied'[n] = IF n = cur THEN 1 ELSE applied[n]
        BY <2>1, <2>4 DEF TypeOK
      <3>2. n \in Int
        BY ChannelAssumption DEF Ids
      <3> QED
        BY <2>1, <2>2, <3>1, <3>2 DEF AppliedBehind
    <2> QED
      BY <1>1, <2>1, <2>3, <2>4, <2>5 DEF Use!Next, Use!Act
  <1>3. CASE ~Apply
    <2>1. applied' = applied
      BY <1>3 DEF Next, Dispatch, MisdirectReply, Put, Expire, Poll, Step, Judge, RecordNonce,
           Reply, ProviderRaises, Crash, CrashInPoll, Restart, vars
    <2>2. Front' >= Front /\ Front \in Int /\ Front' \in Int
      BY <1>1, <1>3, FrontAdvances
    <2>3. AppliedBehind'
      BY <2>1, <2>2, ChannelAssumption DEF AppliedBehind, Ids
    <2> QED
      BY <1>1, <2>1, <2>3
  <1> QED
    BY <1>2, <1>3

\* Bare or authenticated, a maker that never dies inside a poll applies an envelope
\* at most once, restarts elsewhere and lost batches included: a bare maker has no
\* other protection than the cursor.
THEOREM CursorKeepsSingleUse == Spec /\ [][~CrashInPoll]_vars => AppliedAtMostOnce
  <1>1. Init => BareInv /\ Use!Init
    BY TypeInit DEF Init, BareInv, Judged, AppliedBehind, Use!Init
  <1>2. BareInv /\ [Next /\ ~CrashInPoll]_vars => BareInv' /\ [Use!Next]_applied
    <2>1. UNCHANGED vars /\ BareInv => BareInv' /\ UNCHANGED applied
      BY DEF vars, BareInv, TypeOK, Judged, AppliedBehind, Front
    <2> QED
      BY <2>1, BareStep
  <1>3. QED
    BY <1>1, <1>2, PTL DEF Spec, AppliedAtMostOnce, Use!Spec

(***************************************************************************)
(* The channel's mailbox, with the batches it hands over as history.       *)
(***************************************************************************)
VARIABLES
  handed,   \* the batches poll() returned
  since     \* how many of them precede the last loss of the cursor

Mailbox == INSTANCE OrderedMailbox WITH Numbers <- Ids, sent <- DOMAIN mail

\* The batch a poll returns, and the loss of the cursor, recorded; the channel's own
\* steps are as they were.
Recorded ==
  /\ handed' = IF Poll THEN Append(handed, cursor + 1 .. Len(mail)) ELSE handed
  /\ since' = IF CrashInPoll THEN Len(handed) ELSE since

RecordedSpec ==
  /\ Init /\ handed = <<>> /\ since = 0
  /\ [][Next /\ Recorded]_<<vars, handed, since>>

\* What was handed over since the cursor was last lost lies behind it.
HandedBehind ==
  /\ handed \in Seq(SUBSET Nat)
  /\ \A i \in since + 1 .. Len(handed) : \A h \in handed[i] : h <= cursor

HistoryInv == TypeOK /\ Judged /\ since \in Nat /\ HandedBehind

\* A poll, a put and a lost cursor are the mailbox's three steps.
LEMMA MailboxStep ==
  HistoryInv /\ [Next /\ Recorded]_<<vars, handed, since>>
    => HistoryInv' /\ [Mailbox!Next]_Mailbox!mailboxVars
  <1> SUFFICES ASSUME HistoryInv, [Next /\ Recorded]_<<vars, handed, since>>
               PROVE  HistoryInv' /\ (Mailbox!Next \/ UNCHANGED Mailbox!mailboxVars)
    OBVIOUS
  <1> USE DEF HistoryInv
  <1>1. [Next]_vars /\ TypeOK' /\ Judged'
    BY TypeStep, JudgedStep
  <1>2. cursor \in Nat /\ Len(mail) \in Nat /\ Len(mail) <= MaxSent /\ cursor <= Len(mail)
        /\ DOMAIN mail = 1 .. Len(mail) /\ Len(handed) \in Nat
    BY DEF TypeOK, HandedBehind
  <1>3. CASE Poll /\ Recorded
    <2> DEFINE batch == cursor + 1 .. Len(mail)
    <2>1. /\ cursor < Len(mail) /\ cursor' = Len(mail) /\ mail' = mail
          /\ handed' = Append(handed, batch) /\ batch \in SUBSET Nat
      BY <1>2, <1>3 DEF Poll, Recorded
    <2>2. since' = since
      BY <1>3, <2>1, <1>2 DEF Poll, Recorded, CrashInPoll, Restart
    <2>3. batch # {} /\ batch \in SUBSET DOMAIN mail
      BY <1>2, <2>1
    <2>4. \A n \in batch : cursor < n /\ n <= Len(mail) /\ n \in Nat
      BY <1>2
    <2> HIDE DEF batch
    <2>5. ASSUME NEW n \in batch PROVE Mailbox!IsNew(n)
      <3> SUFFICES ASSUME NEW i \in since + 1 .. Len(handed), NEW h \in handed[i]
                   PROVE  h < n
        BY DEF Mailbox!IsNew
      <3>1. h <= cursor /\ h \in Nat
        BY <1>2 DEF HandedBehind
      <3> QED
        BY <1>2, <2>4, <3>1
    <2>6. Mailbox!Hand(batch)
      BY <2>1, <2>2, <2>3, <2>5 DEF Mailbox!Hand
    <2>7. /\ handed' \in Seq(SUBSET Nat) /\ Len(handed') = Len(handed) + 1
          /\ handed'[Len(handed) + 1] = batch
          /\ \A i \in 1 .. Len(handed) : handed'[i] = handed[i]
      BY <2>1 DEF HandedBehind
    <2>8. ASSUME NEW i \in since' + 1 .. Len(handed'), NEW h \in handed'[i]
          PROVE  h <= cursor'
      <3>1. CASE i = Len(handed) + 1
        BY <2>1, <2>4, <2>7, <3>1
      <3>2. CASE i # Len(handed) + 1
        <4>1. i \in since + 1 .. Len(handed) /\ handed'[i] = handed[i]
          BY <1>2, <2>2, <2>7, <3>2
        <4>2. h <= cursor /\ h \in Nat
          BY <1>2, <4>1 DEF HandedBehind
        <4> QED
          BY <1>2, <2>1, <4>2
      <3> QED
        BY <3>1, <3>2
    <2> QED
      BY <1>1, <2>2, <2>3, <2>6, <2>7, <2>8 DEF HandedBehind, Mailbox!Next
  <1>4. CASE CrashInPoll /\ Recorded
    <2>1. since' = Len(handed) /\ handed' = handed /\ UNCHANGED mail
      BY <1>2, <1>4 DEF CrashInPoll, Restart, Recorded, Poll
    <2>2. HandedBehind'
      BY <1>2, <2>1 DEF HandedBehind
    <2> QED
      BY <1>1, <1>2, <2>1, <2>2 DEF Mailbox!Next, Mailbox!Forget
  <1>5. ASSUME NEW v \in Verbs, NEW w \in Writers, NEW r \in Ids \cup {None}, Put(v, w, r),
               UNCHANGED <<handed, since>>
        PROVE  HistoryInv' /\ Mailbox!Next
    <2>1. [verb |-> v, from |-> w, ref |-> r] \in Envelope
      BY DEF Envelope
    <2>2. DOMAIN mail' = DOMAIN mail \cup {Len(mail) + 1} /\ Len(mail) < MaxSent
          /\ UNCHANGED cursor
      BY <1>5, <2>1 DEF Put, TypeOK
    <2>3. Len(mail) + 1 \in Ids /\ Len(mail) + 1 \notin DOMAIN mail
      BY <1>2, <2>2, ChannelAssumption DEF Ids
    <2> QED
      BY <1>1, <1>5, <2>2, <2>3 DEF HandedBehind, Mailbox!Next, Mailbox!Send
  <1>6. CASE UNCHANGED <<mail, cursor, handed, since>>
    BY <1>1, <1>6 DEF HandedBehind, Mailbox!mailboxVars
  <1>7. CASE Recorded /\ Next /\ ~Poll /\ ~CrashInPoll
    <2>1. UNCHANGED <<handed, since>>
      BY <1>7 DEF Recorded
    <2>2. CASE mail' = mail
      <3>1. cursor' = cursor
        BY <1>7, <2>2 DEF Next, Dispatch, MisdirectReply, Put, Expire, Step, Judge, RecordNonce,
           Apply, Reply, ProviderRaises, Crash, CrashInPoll, Restart
      <3> QED
        BY <1>6, <2>1, <2>2, <3>1
    <2>3. CASE mail' # mail
      <3>1. Holds \subseteq Ids
        BY ChannelAssumption DEF Holds, TypeOK, Ids
      <3>2. PICK v \in Verbs, w \in Writers, r \in Ids \cup {None} : Put(v, w, r)
        BY <1>7, <2>3, <3>1, ChannelAssumption
        DEF Next, Dispatch, MisdirectReply, Expire, Poll, Step, Judge, RecordNonce, Apply, Reply,
            ProviderRaises, Crash, CrashInPoll, Restart, vars, Verbs
      <3> QED
        BY <1>5, <2>1, <3>2
    <2> QED
      BY <2>2, <2>3
  <1> QED
    BY <1>3, <1>4, <1>6, <1>7 DEF vars

\* The mailbox the control channel was modelled with keeps the promise FileInbox is
\* proved to keep: in order, at most once between two losses of the cursor, and only
\* what was put.  The channel asks of its transport nothing an OrderedMailbox that
\* skips nothing (PutsApartLoseNothing) does not give.
THEOREM ChannelMailboxIsOrdered == RecordedSpec => Mailbox!Spec
  <1>1. Init /\ handed = <<>> /\ since = 0 => HistoryInv /\ Mailbox!Init
    <2> SUFFICES ASSUME Init, handed = <<>>, since = 0 PROVE HistoryInv /\ Mailbox!Init
      OBVIOUS
    <2>1. TypeOK /\ Judged
      BY TypeInit DEF Init, Judged
    <2>2. HandedBehind
      BY DEF HandedBehind
    <2>3. DOMAIN mail = {}
      BY DEF Init
    <2> QED
      BY <2>1, <2>2, <2>3 DEF HistoryInv, Mailbox!Init
  <1> QED
    BY <1>1, MailboxStep, PTL DEF RecordedSpec, Mailbox!Spec
================================================================================
