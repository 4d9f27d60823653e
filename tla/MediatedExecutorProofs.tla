------------------------ MODULE MediatedExecutorProofs ------------------------
(***************************************************************************)
(* Proofs about MediatedExecutor, for any threads, permits and stores:     *)
(* type correctness, that only permitted actions run, when all callers are *)
(* given one nonce store, that a nonce yields one effect and one receipt,  *)
(* and, when the issuers are given another, that reuse is not cried early. *)
(***************************************************************************)
EXTENDS MediatedExecutor, FiniteSets, FiniteSetTheorems, TLAPS

\* What the checks before a step have established.
Checked ==
  /\ \A t \in Threads : pc[t] # "idle" => form[t] \in Forms
  /\ \A i \in Issuers :
       /\ pc[i] \in {"idle", "seen", "sign", "record"}
       /\ pc[i] # "idle" => form[i].action \in Admitted
  /\ \A p \in permits : p.action \in Admitted
  /\ \A c \in Callers :
       /\ pc[c] \in {"idle", "verify", "consume", "execute", "receipt"}
       /\ pc[c] \in {"consume", "execute", "receipt"} =>
            /\ form[c] \in permits /\ form[c].grade # "advisory"
            /\ SenderAllowed(c, form[c]) /\ Matches(c, form[c])
            /\ ~late[c]
       /\ pc[c] = "verify" /\ late[c] => form[c] \in lapsed

IInv == TypeOK /\ Checked

LEMMA FormFields ==
  ASSUME NEW p \in Forms
  PROVE  p.key \in Keys /\ p.action \in Actions /\ p.binds \in Calls \cup {Unbound}
  BY ExecutorAssumption DEF Form

LEMMA StoreOps ==
  ASSUME NEW S \in Stores(Keys), NEW k \in Keys, NEW j \in Keys
  PROVE  /\ Consume(S, k) \in Stores(Keys) /\ Record(S, k) \in Stores(Keys)
         /\ Consumable(Consume(S, k), j) => Consumable(S, j) /\ j # k
         /\ Consumable(Record(S, k), j) => Consumable(S, j)
  BY FileStoreAssumption
  DEF Stores, Consume, Record, Consumable, Seen

LEMMA InitIInv == Init => IInv
  <1> SUFFICES ASSUME Init PROVE IInv
    OBVIOUS
  <1>1. (CHOOSE x \in Calls : TRUE) \in Calls
    BY ExecutorAssumption
  <1>2. TypeOK
    BY ExecutorAssumption, <1>1 DEF Init, TypeOK, Stores, EmptyStore
  <1>3. Checked
    BY DEF Init, Checked, Threads
  <1>4. QED
    BY <1>2, <1>3 DEF IInv

LEMMA IInvStep == IInv /\ [Next]_vars => IInv'
  <1> SUFFICES ASSUME IInv, [Next]_vars PROVE IInv'
    OBVIOUS
  <1> USE ExecutorAssumption DEF IInv, TypeOK, Checked, Goto, Return, Threads
  <1>1. ASSUME NEW i \in Issuers, NEW p \in Forms, NEW self \in BOOLEAN,
               RequestPermit(i, p, self)
        PROVE  IInv'
    BY <1>1 DEF RequestPermit, SenderAllowed, Matches
  <1>2. ASSUME NEW i \in Issuers, CheckSeen(i) PROVE IInv'
    BY <1>2 DEF CheckSeen, SenderAllowed, Matches
  <1>3. ASSUME NEW i \in Issuers, Sign(i) PROVE IInv'
    BY <1>3 DEF Sign, SenderAllowed, Matches
  <1>4. ASSUME NEW i \in Issuers, RecordNonce(i) PROVE IInv'
    <2>1. form[i] \in Forms /\ form[i].action \in Admitted
      BY <1>4 DEF RecordNonce
    <2>2. Record(stores[StoreOf[i]], form[i].key) \in Stores(Keys)
      BY <2>1, FormFields, StoreOps
    <2>3. TypeOK'
      BY <1>4, <2>1, <2>2 DEF RecordNonce
    <2>4. Checked'
      BY <1>4, <2>1 DEF RecordNonce, SenderAllowed, Matches
    <2>5. QED
      BY <2>3, <2>4
  <1>5. ASSUME NEW c \in Callers, NEW p \in Forms, NEW x \in Calls, Present(c, p, x)
        PROVE  IInv'
    <2> DEFINE lapse == p \in lapsed
    <2>1. late' = [late EXCEPT ![c] = lapse] /\ lapse \in BOOLEAN
      BY <1>5 DEF Present
    <2>2. lapse => p \in lapsed
      OBVIOUS
    <2> HIDE DEF lapse
    <2>3. late' \in [Callers -> BOOLEAN] /\ late'[c] = lapse
      BY <2>1
    <2>4. TypeOK'
      BY <1>5, <2>3 DEF Present
    <2>5. \A d \in Callers \ {c} : /\ pc'[d] = pc[d] /\ form'[d] = form[d]
                                  /\ call'[d] = call[d] /\ late'[d] = late[d]
      BY <1>5, <2>1 DEF Present
    <2>6. pc'[c] = "verify" /\ form'[c] = p
      BY <1>5 DEF Present
    <2>7. \A t \in Threads \ {c} : pc'[t] = pc[t] /\ form'[t] = form[t]
      BY <1>5 DEF Present
    <2>8. UNCHANGED <<permits, lapsed>>
      BY <1>5 DEF Present
    <2>9. Checked'
      BY <2>2, <2>3, <2>5, <2>6, <2>7, <2>8, ExecutorAssumption DEF SenderAllowed, Matches
    <2>10. QED
      BY <2>4, <2>9
  <1>6. ASSUME NEW c \in Callers, Verify(c) PROVE IInv'
    BY <1>6 DEF Verify, Authentic, SenderAllowed, Matches
  <1>7. ASSUME NEW c \in Callers, ConsumeNonce(c) PROVE IInv'
    <2>1. Consume(stores[StoreOf[c]], form[c].key) \in Stores(Keys)
      BY <1>7, FormFields, StoreOps DEF ConsumeNonce
    <2>2. TypeOK'
      BY <1>7, <2>1 DEF ConsumeNonce, Store
    <2>3. Checked'
      BY <1>7 DEF ConsumeNonce, SenderAllowed, Matches
    <2>4. QED
      BY <2>2, <2>3
  <1>8. ASSUME NEW c \in Callers, Execute(c) \/ ExecuteRaises(c) PROVE IInv'
    <2>1. form[c].key \in Keys
      BY <1>8, FormFields DEF Execute, ExecuteRaises
    <2>2. TypeOK'
      BY <1>8, <2>1, FormFields DEF Execute, ExecuteRaises, Effect
    <2>3. Checked'
      BY <1>8 DEF Execute, ExecuteRaises, SenderAllowed, Matches
    <2>4. QED
      BY <2>2, <2>3
  <1>9. ASSUME NEW c \in Callers, SignReceipt(c) PROVE IInv'
    BY <1>9, FormFields DEF SignReceipt, SenderAllowed, Matches
  <1>10. ASSUME NEW t \in Threads, Die(t) PROVE IInv'
    BY <1>10, FormFields DEF Die, SenderAllowed, Matches
  <1>11. ASSUME NEW p \in Lapsing, Lapse(p) PROVE IInv'
    BY <1>11 DEF Lapse, SenderAllowed, Matches
  <1>12. CASE UNCHANGED vars
    BY <1>12 DEF vars, SenderAllowed, Matches
  <1>13. QED
    BY <1>1, <1>2, <1>3, <1>4, <1>5, <1>6, <1>7, <1>8, <1>9, <1>10, <1>11, <1>12
    DEF Next, IssueStep, CallStep

\* Every variable keeps its type.
THEOREM TypeCorrect == Spec => []TypeOK
  <1>1. IInv => TypeOK
    BY DEF IInv
  <1>2. QED
    BY InitIInv, IInvStep, <1>1, PTL DEF Spec

\* Nothing runs but the call an issued permit binds, of a grade that authorises it, by
\* an executor the permit is good for, to the account of an admitted action, and never
\* when the permit had lapsed before the call; no store is assumed shared.
THEOREM EffectsArePermitted == Spec => []OnlyPermittedEffects
  <1>1. Init => OnlyPermittedEffects
    BY DEF Init, OnlyPermittedEffects
  <1>2. IInv /\ [Next]_vars /\ OnlyPermittedEffects => OnlyPermittedEffects'
    <2> SUFFICES ASSUME IInv, [Next]_vars, OnlyPermittedEffects, NEW e \in performed'
                 PROVE  /\ e.action \in Admitted
                        /\ ~e.late
                        /\ \E p \in permits' :
                             /\ p.key = e.key /\ p.action = e.action /\ p.binds = e.call
                             /\ p.grade # "advisory"
                             /\ p.aud \in {Anyone, e.by}
      BY DEF OnlyPermittedEffects
    <2>1. permits \subseteq permits'
      BY DEF Next, IssueStep, CallStep, RequestPermit, CheckSeen, Sign, RecordNonce, Present,
             Verify, ConsumeNonce, Execute, ExecuteRaises, SignReceipt, Die, Lapse, vars
    <2>2. CASE e \in performed
      BY <2>1, <2>2 DEF OnlyPermittedEffects
    <2>3. CASE e \notin performed
      <3>1. PICK c \in Callers : (Execute(c) \/ ExecuteRaises(c)) /\ Effect(c)
        BY <2>3 DEF Next, IssueStep, CallStep, RequestPermit, CheckSeen, Sign, RecordNonce,
             Present, Verify, ConsumeNonce, Execute, ExecuteRaises, SignReceipt, Die, Lapse, vars
      <3>2. e = [key |-> form[c].key, action |-> form[c].action, call |-> call[c],
                 by |-> IdentityOf[c], late |-> late[c]]
        BY <2>3, <3>1 DEF Effect
      <3>3. /\ form[c] \in permits /\ form[c].grade # "advisory"
            /\ SenderAllowed(c, form[c]) /\ Matches(c, form[c])
            /\ form[c].action \in Admitted /\ ~late[c]
        BY <3>1 DEF Execute, ExecuteRaises, IInv, Checked
      <3>4. QED
        BY <2>1, <3>2, <3>3 DEF SenderAllowed, Matches
    <2>4. QED
      BY <2>2, <2>3
  <1>3. QED
    BY InitIInv, IInvStep, <1>1, <1>2, PTL DEF Spec

\* The constraints of every permit issued so far bind the call of its action, or none:
\* what no code checks and a host has to see to.
BoundFaithfully(CallOf) == \A p \in permits : p.binds \in {CallOf[p.action], Unbound}

\* As long as hosts bind faithfully, what runs is the call of an admitted action and
\* goes to that action's account. Without it only EffectsArePermitted is left.
THEOREM AdmittedCallsOnly ==
  ASSUME NEW CallOf \in [Actions -> Calls]
  PROVE  Spec => [](BoundFaithfully(CallOf) =>
                      \A e \in performed : e.action \in Admitted /\ e.call = CallOf[e.action])
  <1>1. TypeOK /\ OnlyPermittedEffects =>
          (BoundFaithfully(CallOf) =>
             \A e \in performed : e.action \in Admitted /\ e.call = CallOf[e.action])
    <2> SUFFICES ASSUME TypeOK, OnlyPermittedEffects, BoundFaithfully(CallOf),
                        NEW e \in performed
                 PROVE  e.action \in Admitted /\ e.call = CallOf[e.action]
      OBVIOUS
    <2>1. PICK p \in permits : p.action = e.action /\ p.binds = e.call
      BY DEF OnlyPermittedEffects
    <2>2. e.call \in Calls /\ e.call # Unbound
      BY ExecutorAssumption DEF TypeOK
    <2>3. e.call = CallOf[e.action]
      BY <2>1, <2>2 DEF BoundFaithfully
    <2>4. e.action \in Admitted
      BY DEF OnlyPermittedEffects
    <2>5. QED
      BY <2>3, <2>4
  <1>2. QED
    BY TypeCorrect, EffectsArePermitted, <1>1, PTL

(***************************************************************************)
(* Single use, when every caller is given the same nonce store.            *)
(***************************************************************************)
Shared == \A c, d \in Callers : StoreOf[c] = StoreOf[d]

Spent(k) == \A c \in Callers : ~Consumable(Store(c), k)

Holds(c, k) == pc[c] \in {"execute", "receipt"} /\ form[c].key = k

\* Callers past the compare-and-set hold different nonces, which are spent.
Alone ==
  /\ \A c \in Callers, k \in Keys : Holds(c, k) => Spent(k)
  /\ \A c, d \in Callers, k \in Keys : Holds(c, k) /\ Holds(d, k) => c = d

\* The life of a nonce: nothing ran yet, its tool ran and the receipt is not
\* signed, or both are done and no call holds it.
Quiet(k) ==
  /\ effects[k] = 0 /\ receipts[k] = 0
  /\ \A c \in Callers : Holds(c, k) => pc[c] = "execute"
Ran(k) ==
  /\ effects[k] = 1 /\ receipts[k] = 0 /\ Spent(k)
  /\ \A c \in Callers : Holds(c, k) => pc[c] = "receipt"
  /\ k \in wasted \/ \E c \in Callers : Holds(c, k)
Done(k) ==
  /\ effects[k] = 1 /\ receipts[k] = 1 /\ Spent(k)
  /\ \A c \in Callers : ~Holds(c, k)

Lives == \A k \in Keys : Quiet(k) \/ Ran(k) \/ Done(k)

UseInv == IInv /\ Alone /\ Lives

\* Once spent, a nonce stays spent.
LEMMA SpentStays ==
  ASSUME Shared, IInv, [Next]_vars, NEW k \in Keys, Spent(k)
  PROVE  Spent(k)'
  <1> SUFFICES ASSUME NEW c \in Callers PROVE ~Consumable(stores'[StoreOf[c]], k)
    BY DEF Spent, Consumable, Store
  <1> USE DEF IInv, TypeOK
  <1>1. ~Consumable(stores[StoreOf[c]], k) /\ StoreOf[c] \in StoreNames
    BY ExecutorAssumption DEF Spent, Store
  <1>2. ASSUME NEW d \in Callers, ConsumeNonce(d), stores' # stores
        PROVE  ~Consumable(stores'[StoreOf[c]], k)
    <2>1. form[d].key \in Keys /\ StoreOf[d] \in StoreNames
      BY <1>2, ExecutorAssumption, FormFields DEF ConsumeNonce, Checked, Threads
    <2>2. ~Consumable(Consume(stores[StoreOf[c]], form[d].key), k)
      BY <1>1, <2>1, StoreOps
    <2>3. StoreOf[c] = StoreOf[d]
      BY DEF Shared
    <2>4. stores'[StoreOf[c]] = Consume(stores[StoreOf[c]], form[d].key)
      BY <1>1, <1>2, <2>3 DEF ConsumeNonce
    <2>5. QED
      BY <2>2, <2>4
  <1>3. ASSUME NEW i \in Issuers, RecordNonce(i)
        PROVE  ~Consumable(stores'[StoreOf[c]], k)
    <2>1. form[i].key \in Keys /\ StoreOf[i] \in StoreNames
      BY <1>3, ExecutorAssumption, FormFields DEF RecordNonce, Checked, Threads
    <2>2. ~Consumable(Record(stores[StoreOf[c]], form[i].key), k)
      BY <1>1, <2>1, StoreOps
    <2>3. stores'[StoreOf[c]] \in {stores[StoreOf[c]], Record(stores[StoreOf[c]], form[i].key)}
      BY <1>1, <1>3, <2>1 DEF RecordNonce
    <2>4. QED
      BY <1>1, <2>2, <2>3
  <1>4. CASE stores' = stores
    BY <1>1, <1>4
  <1>5. QED
    BY <1>2, <1>3, <1>4
    DEF Next, IssueStep, CallStep, RequestPermit, CheckSeen, Sign, Present, Verify,
        ConsumeNonce, Execute, ExecuteRaises, SignReceipt, Die, Lapse, vars

\* A nonce is newly held only through the compare-and-set, unspent before it.
LEMMA NewHolder ==
  ASSUME Shared, IInv, [Next]_vars, NEW c \in Callers, NEW k \in Keys,
         Holds(c, k)', ~Holds(c, k)
  PROVE  /\ ConsumeNonce(c) /\ form[c].key = k /\ form' = form
         /\ \A d \in Callers : d # c => pc'[d] = pc[d]
         /\ pc'[c] = "execute"
         /\ ~Spent(k) /\ Spent(k)'
         /\ UNCHANGED <<effects, receipts, wasted>>
  <1> USE DEF IInv, TypeOK, Goto, Return, Threads
  <1>1. ConsumeNonce(c) /\ pc'[c] = "execute" /\ form[c].key = k
    <2>1. ASSUME NEW i \in Issuers, NEW p \in Forms, NEW self \in BOOLEAN,
                 RequestPermit(i, p, self)
          PROVE  FALSE
      BY <2>1, ExecutorAssumption DEF RequestPermit, Holds, Threads
    <2>2. ASSUME NEW i \in Issuers, IssueStep(i) PROVE FALSE
      BY <2>2 DEF IssueStep, CheckSeen, Sign, RecordNonce, Holds
    <2>3. ASSUME NEW d \in Callers, NEW p \in Forms, NEW x \in Calls, Present(d, p, x)
          PROVE  FALSE
      BY <2>3 DEF Present, Holds, Threads
    <2>4. ASSUME NEW d \in Callers,
                 Verify(d) \/ Execute(d) \/ SignReceipt(d) \/ ExecuteRaises(d)
          PROVE  FALSE
      BY <2>4 DEF Verify, Execute, SignReceipt, ExecuteRaises, Holds
    <2>5. ASSUME NEW d \in Callers, ConsumeNonce(d)
          PROVE  d = c /\ pc'[c] = "execute" /\ form[c].key = k
      BY <2>5 DEF ConsumeNonce, Holds, Threads
    <2>6. ASSUME NEW t \in Threads, Die(t) PROVE FALSE
      BY <2>6 DEF Die, Holds
    <2>7. CASE UNCHANGED <<pc, form>>
      BY <2>7 DEF Holds
    <2>8. QED
      BY <2>1, <2>2, <2>3, <2>4, <2>5, <2>6, <2>7 DEF Next, CallStep, Lapse, vars
  <1>2. /\ Consumable(Store(c), k)
        /\ stores' = [stores EXCEPT ![StoreOf[c]] = Consume(@, k)]
        /\ form' = form /\ UNCHANGED <<effects, receipts, wasted>>
        /\ \A d \in Callers : d # c => pc'[d] = pc[d]
    BY <1>1 DEF ConsumeNonce
  <1>3. Spent(k)'
    <2>1. ~Consumable(Consume(stores[StoreOf[c]], k), k) /\ StoreOf[c] \in StoreNames
      BY ExecutorAssumption, StoreOps
    <2>2. stores'[StoreOf[c]] = Consume(stores[StoreOf[c]], k)
      BY <1>2, <2>1
    <2>3. \A d \in Callers : StoreOf[d] = StoreOf[c]
      BY DEF Shared
    <2>4. QED
      BY <2>1, <2>2, <2>3 DEF Spent, Store, Consumable
  <1>4. QED
    BY <1>1, <1>2, <1>3 DEF Spent

LEMMA AloneStep ==
  ASSUME Shared, IInv, Alone, [Next]_vars
  PROVE  Alone'
  <1>1. ASSUME NEW c \in Callers, NEW k \in Keys, Holds(c, k)' PROVE Spent(k)'
    BY <1>1, NewHolder, SpentStays DEF Alone
  <1>2. ASSUME NEW c \in Callers, NEW d \in Callers, NEW k \in Keys, Holds(c, k)', Holds(d, k)'
        PROVE  c = d
    <2>1. CASE Holds(c, k) /\ Holds(d, k)
      BY <2>1 DEF Alone
    <2>2. CASE ~Holds(c, k)
      <3>1. ~Holds(d, k) /\ ConsumeNonce(c)
        BY <1>2, <2>2, NewHolder DEF Alone
      <3>2. c # d => pc'[d] = pc[d] /\ form' = form
        BY <1>2, <2>2, NewHolder
      <3>3. QED
        BY <1>2, <3>1, <3>2 DEF Holds
    <2>3. CASE ~Holds(d, k)
      <3>1. ~Holds(c, k) /\ ConsumeNonce(d)
        BY <1>2, <2>3, NewHolder DEF Alone
      <3>2. c # d => pc'[c] = pc[c] /\ form' = form
        BY <1>2, <2>3, NewHolder
      <3>3. QED
        BY <1>2, <3>1, <3>2 DEF Holds
    <2>4. QED
      BY <2>1, <2>2, <2>3
  <1>3. QED
    BY <1>1, <1>2 DEF Alone

\* A step changes the counts of a nonce only by a call that holds it.
LEMMA CountsChange ==
  ASSUME IInv, [Next]_vars, NEW k \in Keys
  PROVE  \/ /\ effects'[k] = effects[k] /\ receipts'[k] = receipts[k]
            /\ k \in wasted => k \in wasted'
            /\ \A c \in Callers : Holds(c, k) =>
                 IF Holds(c, k)' THEN pc'[c] = pc[c] ELSE k \in wasted'
         \/ \E c \in Callers :
              /\ Holds(c, k) /\ pc[c] = "execute"
              /\ effects'[k] = effects[k] + 1 /\ receipts'[k] = receipts[k]
              /\ \/ k \in wasted' /\ ~Holds(c, k)'
                 \/ Holds(c, k)' /\ pc'[c] = "receipt"
         \/ \E c \in Callers :
              /\ Holds(c, k) /\ pc[c] = "receipt" /\ ~Holds(c, k)'
              /\ effects'[k] = effects[k] /\ receipts'[k] = receipts[k] + 1
  <1> DEFINE Same == /\ effects'[k] = effects[k] /\ receipts'[k] = receipts[k]
                     /\ k \in wasted => k \in wasted'
                     /\ \A c \in Callers : Holds(c, k) =>
                          IF Holds(c, k)' THEN pc'[c] = pc[c] ELSE k \in wasted'
  <1> USE DEF IInv, TypeOK, Goto, Return, Threads, Holds
  <1>1. ASSUME NEW i \in Issuers, NEW p \in Forms, NEW self \in BOOLEAN,
               RequestPermit(i, p, self)
        PROVE  Same
    BY <1>1 DEF RequestPermit
  <1>2. ASSUME NEW i \in Issuers, IssueStep(i) PROVE Same
    BY <1>2 DEF IssueStep, CheckSeen, Sign, RecordNonce
  <1>3. ASSUME NEW c \in Callers, NEW p \in Forms, NEW x \in Calls, Present(c, p, x)
        PROVE  Same
    BY <1>3 DEF Present
  <1>4. ASSUME NEW c \in Callers, Verify(c) \/ ConsumeNonce(c) PROVE Same
    BY <1>4 DEF Verify, ConsumeNonce
  <1>5. ASSUME NEW c \in Callers, Execute(c), form[c].key = k
        PROVE  /\ Holds(c, k) /\ pc[c] = "execute"
               /\ effects'[k] = effects[k] + 1 /\ receipts'[k] = receipts[k]
               /\ Holds(c, k)' /\ pc'[c] = "receipt"
    BY <1>5 DEF Execute, Effect
  <1>6. ASSUME NEW c \in Callers, Execute(c) \/ ExecuteRaises(c) \/ SignReceipt(c),
               form[c].key # k
        PROVE  Same
    BY <1>6 DEF Execute, ExecuteRaises, SignReceipt, Effect
  <1>7. ASSUME NEW c \in Callers, ExecuteRaises(c), form[c].key = k
        PROVE  \/ Same
               \/ /\ Holds(c, k) /\ pc[c] = "execute"
                  /\ effects'[k] = effects[k] + 1 /\ receipts'[k] = receipts[k]
                  /\ k \in wasted' /\ ~Holds(c, k)'
    <2>1. /\ k \in wasted' /\ receipts' = receipts
          /\ Holds(c, k) /\ ~Holds(c, k)' /\ pc[c] = "execute"
      BY <1>7 DEF ExecuteRaises
    <2>2. CASE effects' = effects
      BY <1>7, <2>1, <2>2 DEF ExecuteRaises
    <2>3. CASE Effect(c)
      BY <1>7, <2>1, <2>3 DEF Effect
    <2>4. QED
      BY <1>7, <2>2, <2>3 DEF ExecuteRaises
  <1>8. ASSUME NEW c \in Callers, SignReceipt(c), form[c].key = k
        PROVE  /\ Holds(c, k) /\ pc[c] = "receipt" /\ ~Holds(c, k)'
               /\ effects'[k] = effects[k] /\ receipts'[k] = receipts[k] + 1
    BY <1>8 DEF SignReceipt
  <1>9. ASSUME NEW t \in Threads, Die(t) PROVE Same
    BY <1>9 DEF Die
  <1>10. CASE UNCHANGED <<pc, form, effects, receipts, wasted>>
    BY <1>10
  <1>11. QED
    BY <1>1, <1>2, <1>3, <1>4, <1>5, <1>6, <1>7, <1>8, <1>9, <1>10
    DEF Next, CallStep, Lapse, vars

LEMMA LivesStep ==
  ASSUME Shared, UseInv, [Next]_vars
  PROVE  Lives'
  <1> SUFFICES ASSUME NEW k \in Keys PROVE Quiet(k)' \/ Ran(k)' \/ Done(k)'
    BY DEF Lives
  <1> USE DEF UseInv
  <1>0. /\ Spent(k) => Spent(k)'
        /\ \A c \in Callers : Holds(c, k)' /\ ~Holds(c, k) => ~Spent(k) /\ pc'[c] = "execute"
        /\ \A c \in Callers : Holds(c, k)' => Spent(k)'
        /\ \A c, d \in Callers : Holds(c, k)' /\ Holds(d, k)' => c = d
    BY SpentStays, NewHolder, AloneStep DEF Alone
  <1>1. CASE /\ effects'[k] = effects[k] /\ receipts'[k] = receipts[k]
             /\ k \in wasted => k \in wasted'
             /\ \A c \in Callers : Holds(c, k) =>
                  IF Holds(c, k)' THEN pc'[c] = pc[c] ELSE k \in wasted'
    BY <1>0, <1>1 DEF Lives, Quiet, Ran, Done
  <1>2. ASSUME NEW c \in Callers, Holds(c, k), pc[c] = "execute",
               effects'[k] = effects[k] + 1, receipts'[k] = receipts[k],
               \/ k \in wasted' /\ ~Holds(c, k)'
               \/ Holds(c, k)' /\ pc'[c] = "receipt"
        PROVE  Ran(k)'
    <2>1. Quiet(k) /\ Spent(k) /\ Spent(k)'
      BY <1>0, <1>2 DEF Lives, Ran, Done, Alone
    <2>2. ASSUME NEW d \in Callers, Holds(d, k)' PROVE d = c
      BY <1>0, <1>2, <2>1, <2>2 DEF Alone
    <2>3. QED
      BY <1>2, <2>1, <2>2 DEF Ran, Quiet
  <1>3. ASSUME NEW c \in Callers, Holds(c, k), pc[c] = "receipt", ~Holds(c, k)',
               effects'[k] = effects[k], receipts'[k] = receipts[k] + 1
        PROVE  Done(k)'
    <2>1. Ran(k) /\ Spent(k) /\ Spent(k)'
      BY <1>0, <1>3 DEF Lives, Quiet, Done, Alone
    <2>2. ASSUME NEW d \in Callers PROVE ~Holds(d, k)'
      BY <1>0, <1>3, <2>1 DEF Alone
    <2>3. QED
      BY <1>3, <2>1, <2>2 DEF Done, Ran
  <1>4. QED
    BY <1>1, <1>2, <1>3, CountsChange

LEMMA UseInvCorrect ==
  ASSUME Shared
  PROVE  Spec => []UseInv
  <1>1. Init => UseInv
    <2> SUFFICES ASSUME Init PROVE UseInv
      OBVIOUS
    <2>1. IInv
      BY InitIInv
    <2>2. \A c \in Callers, k \in Keys : ~Holds(c, k)
      BY DEF Init, Holds, Threads
    <2>3. QED
      BY <2>1, <2>2 DEF Init, UseInv, Alone, Lives, Quiet
  <1>2. UseInv /\ [Next]_vars => UseInv'
    BY IInvStep, AloneStep, LivesStep DEF UseInv
  <1>3. QED
    BY <1>1, <1>2, PTL DEF Spec

\* Callers that share a nonce store get one effect out of a nonce, however many
\* permits carry it, whatever the store's kind and whoever dies.
THEOREM EffectsAreSingleUse ==
  ASSUME Shared
  PROVE  Spec => EffectIsSingleUse
  <1>1. Init => Use!Init
    BY DEF Init, Use!Init
  <1>2. UseInv /\ UseInv' /\ [Next]_vars => [Use!Next]_effects
    <2> SUFFICES ASSUME UseInv, UseInv', [Next]_vars, effects' # effects PROVE Use!Next
      OBVIOUS
    <2>1. PICK c \in Callers : Effect(c) /\ pc[c] = "execute"
      BY DEF Next, IssueStep, CallStep, RequestPermit, CheckSeen, Sign, RecordNonce, Present,
             Verify, ConsumeNonce, Execute, ExecuteRaises, SignReceipt, Die, Lapse, vars
    <2>2. form[c].key \in Keys
      BY <2>1, FormFields DEF UseInv, IInv, Checked, Threads
    <2>3. effects[form[c].key] = 0
      BY <2>1, <2>2 DEF UseInv, Lives, Quiet, Ran, Done, Holds
    <2>4. effects' = [effects EXCEPT ![form[c].key] = 1]
      BY <2>1, <2>3 DEF Effect
    <2>5. QED
      BY <2>2, <2>3, <2>4 DEF Use!Next, Use!Act
  <1>3. QED
    BY UseInvCorrect, <1>1, <1>2, PTL DEF Spec, EffectIsSingleUse, Use!Spec

\* Receipts and effects tally, nonce by nonce; what lacks its receipt is on its way
\* to it or died or raised.
THEOREM ReceiptsTally ==
  ASSUME Shared
  PROVE  Spec => []ReceiptsMatchEffects
  <1>1. UseInv => ReceiptsMatchEffects
    BY DEF UseInv, Lives, Quiet, Ran, Done, Holds, ReceiptsMatchEffects
  <1>2. QED
    BY UseInvCorrect, <1>1, PTL

(***************************************************************************)
(* Reuse, when issuing leaves no mark in the stores calls are dispatched   *)
(* on: they are other stores than the issuers', or in memory, where record *)
(* and consume keep apart.                                                 *)
(***************************************************************************)
Separate == ~FileStore \/ \A i \in Issuers, c \in Callers : StoreOf[i] # StoreOf[c]

\* A tool that is back has left its effect.
Returned == \A c \in Callers : pc[c] = "receipt" => effects[form[c].key] > 0

\* What a caller's store refuses, some call has consumed.
Marked == \A c \in Callers, k \in Keys : ~Consumable(Store(c), k) => Dispatched(k)

\* Who was told so presented a permit, and its nonce has been consumed.
ReuseFounded ==
  \A c \in Callers :
    outcome[c] = "reused" => \E k \in Keys : form[c].key = k /\ Dispatched(k)

ReuseInv == IInv /\ Returned /\ Marked /\ ReuseFounded

LEMMA EffectsCount ==
  ASSUME TypeOK, NEW c \in Callers, NEW k \in Keys, form[c].key \in Keys, Effect(c)
  PROVE  effects'[k] = IF k = form[c].key THEN effects[k] + 1 ELSE effects[k]
  BY DEF Effect, TypeOK

\* What was dispatched stays so: its call ends with an effect or a wasted nonce.
LEMMA DispatchedStays ==
  ASSUME IInv, Returned, [Next]_vars, NEW k \in Keys, Dispatched(k)
  PROVE  Dispatched(k)'
  <1> USE DEF IInv, TypeOK, Goto, Return, Threads, Dispatched
  <1>1. ASSUME NEW i \in Issuers, NEW p \in Forms, NEW self \in BOOLEAN,
               RequestPermit(i, p, self)
        PROVE  Dispatched(k)'
    BY <1>1, ExecutorAssumption DEF RequestPermit
  <1>2. ASSUME NEW i \in Issuers, IssueStep(i) PROVE Dispatched(k)'
    BY <1>2, ExecutorAssumption DEF IssueStep, CheckSeen, Sign, RecordNonce
  <1>3. ASSUME NEW c \in Callers, NEW p \in Forms, NEW x \in Calls, Present(c, p, x)
        PROVE  Dispatched(k)'
    BY <1>3 DEF Present
  <1>4. ASSUME NEW c \in Callers, Verify(c) \/ ConsumeNonce(c) PROVE Dispatched(k)'
    BY <1>4 DEF Verify, ConsumeNonce
  <1>5. ASSUME NEW c \in Callers, Execute(c) PROVE Dispatched(k)'
    <2>1. form[c].key \in Keys
      BY <1>5, FormFields DEF Execute, Checked
    <2>2. effects'[k] = IF k = form[c].key THEN effects[k] + 1 ELSE effects[k]
      BY <1>5, <2>1, EffectsCount DEF Execute
    <2>3. QED
      BY <1>5, <2>2 DEF Execute
  <1>6. ASSUME NEW c \in Callers, ExecuteRaises(c) PROVE Dispatched(k)'
    <2>1. form[c].key \in Keys /\ wasted' = wasted \cup {form[c].key}
      BY <1>6, FormFields DEF ExecuteRaises, Checked
    <2>2. effects[k] > 0 => effects'[k] > 0
      BY <1>6, <2>1, EffectsCount DEF ExecuteRaises
    <2>3. \A d \in Callers : d # c => pc'[d] = pc[d] /\ form'[d] = form[d]
      BY <1>6 DEF ExecuteRaises
    <2>4. CASE effects[k] > 0 \/ k \in wasted \/ form[c].key = k
      BY <2>1, <2>2, <2>4
    <2>5. CASE \E d \in Callers : d # c /\ pc[d] \in {"execute", "receipt"} /\ form[d].key = k
      BY <2>3, <2>5
    <2>6. QED
      BY <2>4, <2>5
  <1>7. ASSUME NEW c \in Callers, SignReceipt(c) PROVE Dispatched(k)'
    BY <1>7 DEF SignReceipt, Returned
  <1>8. ASSUME NEW t \in Threads, Die(t) PROVE Dispatched(k)'
    BY <1>8 DEF Die
  <1>9. CASE UNCHANGED <<pc, form, effects, wasted>>
    BY <1>9
  <1>10. QED
    BY <1>1, <1>2, <1>3, <1>4, <1>5, <1>6, <1>7, <1>8, <1>9 DEF Next, CallStep, Lapse, vars

LEMMA ReturnedStep == IInv /\ Returned /\ [Next]_vars => Returned'
  <1> SUFFICES ASSUME IInv, Returned, [Next]_vars, NEW c \in Callers, pc'[c] = "receipt"
               PROVE  effects'[form'[c].key] > 0
    BY DEF Returned
  <1> USE DEF IInv, TypeOK, Goto, Return, Threads
  <1>1. ASSUME NEW d \in Callers, Execute(d) \/ ExecuteRaises(d)
        PROVE  effects'[form'[c].key] > 0
    <2>1. form[d].key \in Keys /\ form' = form
      BY <1>1, FormFields DEF Execute, ExecuteRaises, Checked
    <2>2. form[c].key \in Keys
      BY <1>1, <2>1, FormFields DEF Execute, ExecuteRaises, Checked
    <2>3. CASE Effect(d)
      <3>1. effects'[form[c].key] >= effects[form[c].key]
        BY <2>1, <2>2, <2>3, EffectsCount
      <3>2. c = d => effects'[form[c].key] > 0
        BY <2>1, <2>2, <2>3, EffectsCount
      <3>3. c # d => effects[form[c].key] > 0
        BY <1>1 DEF Execute, ExecuteRaises, Returned
      <3>4. effects[form[c].key] \in Nat /\ effects'[form[c].key] \in Nat
        BY <2>2, IInvStep
      <3>5. QED
        BY <2>1, <3>1, <3>2, <3>3, <3>4
    <2>4. CASE ExecuteRaises(d) /\ UNCHANGED effects
      BY <2>1, <2>4 DEF ExecuteRaises, Returned
    <2>5. QED
      BY <1>1, <2>3, <2>4 DEF Execute, ExecuteRaises
  <1>2. CASE UNCHANGED effects /\ pc[c] = "receipt" /\ form'[c] = form[c]
    BY <1>2 DEF Returned
  <1>3. ASSUME NEW i \in Issuers, NEW p \in Forms, NEW self \in BOOLEAN,
               RequestPermit(i, p, self)
        PROVE  UNCHANGED effects /\ pc[c] = "receipt" /\ form'[c] = form[c]
    BY <1>3, ExecutorAssumption DEF RequestPermit
  <1>4. ASSUME NEW i \in Issuers, IssueStep(i)
        PROVE  UNCHANGED effects /\ pc[c] = "receipt" /\ form'[c] = form[c]
    BY <1>4, ExecutorAssumption DEF IssueStep, CheckSeen, Sign, RecordNonce
  <1>5. ASSUME NEW d \in Callers, NEW p \in Forms, NEW x \in Calls, Present(d, p, x)
        PROVE  UNCHANGED effects /\ pc[c] = "receipt" /\ form'[c] = form[c]
    BY <1>5 DEF Present
  <1>6. ASSUME NEW d \in Callers, Verify(d) \/ ConsumeNonce(d) \/ SignReceipt(d)
        PROVE  UNCHANGED effects /\ pc[c] = "receipt" /\ form'[c] = form[c]
    BY <1>6 DEF Verify, ConsumeNonce, SignReceipt
  <1>7. ASSUME NEW t \in Threads, Die(t)
        PROVE  UNCHANGED effects /\ pc[c] = "receipt" /\ form'[c] = form[c]
    BY <1>7 DEF Die
  <1>8. CASE UNCHANGED <<pc, form, effects>>
    BY <1>2, <1>8
  <1>9. QED
    BY <1>1, <1>2, <1>3, <1>4, <1>5, <1>6, <1>7, <1>8 DEF Next, CallStep, Lapse, vars

\* A key that a caller's store newly refuses is the one just consumed, and held.
LEMMA MarkedStep ==
  ASSUME Separate, IInv, Returned, Marked, [Next]_vars
  PROVE  Marked'
  <1> SUFFICES ASSUME NEW c \in Callers, NEW k \in Keys, ~Consumable(stores'[StoreOf[c]], k)
               PROVE  Dispatched(k)'
    BY DEF Marked, Store
  <1> USE DEF IInv, TypeOK
  <1>1. StoreOf[c] \in StoreNames
    BY ExecutorAssumption
  <1>2. CASE stores'[StoreOf[c]] = stores[StoreOf[c]]
    BY <1>2, DispatchedStays DEF Marked, Store
  <1>3. ASSUME NEW d \in Callers, ConsumeNonce(d), stores' # stores PROVE Dispatched(k)'
    <2>1. /\ form[d].key \in Keys /\ form' = form /\ pc'[d] = "execute"
          /\ stores' = [stores EXCEPT ![StoreOf[d]] = Consume(@, form[d].key)]
      BY <1>3, FormFields DEF ConsumeNonce, Checked, Threads, Goto
    <2>2. CASE k = form[d].key
      BY <2>1, <2>2 DEF Dispatched
    <2>3. CASE k # form[d].key
      <3>1. ~Consumable(stores[StoreOf[c]], k)
        BY <1>1, <2>1, <2>3 DEF Consumable, Consume
      <3>2. QED
        BY <3>1, DispatchedStays DEF Marked, Store
    <2>4. QED
      BY <2>2, <2>3
  <1>4. ASSUME NEW i \in Issuers, RecordNonce(i) PROVE Dispatched(k)'
    <2>1. stores' = [stores EXCEPT ![StoreOf[i]] = Record(@, form[i].key)]
      BY <1>4 DEF RecordNonce
    <2>2. CASE StoreOf[i] # StoreOf[c]
      BY <1>1, <1>2, <2>1, <2>2
    <2>3. CASE StoreOf[i] = StoreOf[c]
      <3>1. ~FileStore
        BY <2>3 DEF Separate
      <3>2. stores'[StoreOf[c]] = Record(stores[StoreOf[c]], form[i].key)
        BY <1>1, <2>1, <2>3
      <3>3. stores'[StoreOf[c]].consumed = stores[StoreOf[c]].consumed
        BY <3>1, <3>2 DEF Record
      <3> QED
        BY <3>3, DispatchedStays DEF Marked, Store, Consumable
    <2> QED
      BY <2>2, <2>3
  <1>5. QED
    BY <1>2, <1>3, <1>4
    DEF Next, IssueStep, CallStep, RequestPermit, CheckSeen, Sign, Present, Verify,
        ConsumeNonce, Execute, ExecuteRaises, SignReceipt, Die, Lapse, vars

\* Only the compare-and-set says "reused" to a caller; its form stays till it calls again.
LEMMA ReusedBefore ==
  ASSUME IInv, [Next]_vars, NEW c \in Callers, outcome'[c] = "reused"
  PROVE  \/ outcome[c] = "reused" /\ form'[c] = form[c]
         \/ /\ form[c] \in Forms /\ ~Consumable(Store(c), form[c].key)
            /\ form'[c] = form[c]
  <1> DEFINE Old == outcome[c] = "reused" /\ form'[c] = form[c]
  <1> USE DEF IInv, TypeOK, Goto, Return, Threads
  <1>1. ASSUME NEW i \in Issuers, NEW p \in Forms, NEW self \in BOOLEAN,
               RequestPermit(i, p, self)
        PROVE  Old
    BY <1>1, ExecutorAssumption DEF RequestPermit
  <1>2. ASSUME NEW i \in Issuers, IssueStep(i) PROVE Old
    BY <1>2, ExecutorAssumption DEF IssueStep, CheckSeen, Sign, RecordNonce
  <1>3. ASSUME NEW d \in Callers, NEW p \in Forms, NEW x \in Calls, Present(d, p, x)
        PROVE  Old
    BY <1>3 DEF Present
  <1>4. ASSUME NEW d \in Callers, Verify(d) \/ Execute(d) \/ ExecuteRaises(d) \/ SignReceipt(d)
        PROVE  Old
    BY <1>4 DEF Verify, Execute, ExecuteRaises, SignReceipt
  <1>5. ASSUME NEW d \in Callers, ConsumeNonce(d)
        PROVE  \/ Old
               \/ /\ form[c] \in Forms /\ ~Consumable(Store(c), form[c].key)
                  /\ form'[c] = form[c]
    <2>1. form' = form /\ form[d] \in Forms
      BY <1>5 DEF ConsumeNonce, Checked
    <2>2. c # d => outcome'[c] = outcome[c]
      BY <1>5 DEF ConsumeNonce
    <2>3. c = d => outcome[c] = "reused" \/ ~Consumable(Store(c), form[c].key)
      BY <1>5 DEF ConsumeNonce
    <2>4. QED
      BY <2>1, <2>2, <2>3
  <1>6. ASSUME NEW t \in Threads, Die(t) PROVE Old
    BY <1>6 DEF Die
  <1>7. CASE UNCHANGED <<form, outcome>>
    BY <1>7
  <1>8. QED
    BY <1>1, <1>2, <1>3, <1>4, <1>5, <1>6, <1>7 DEF Next, CallStep, Lapse, vars

LEMMA ReuseInvStep ==
  ASSUME Separate, ReuseInv, [Next]_vars
  PROVE  ReuseInv'
  <1>1. ASSUME NEW c \in Callers, outcome'[c] = "reused"
        PROVE  \E k \in Keys : form'[c].key = k /\ Dispatched(k)'
    <2>1. /\ form'[c] = form[c]
          /\ \E k \in Keys : form[c].key = k /\ Dispatched(k)
      BY <1>1, ReusedBefore, FormFields DEF ReuseInv, ReuseFounded, Marked
    <2>2. PICK k \in Keys : form[c].key = k /\ Dispatched(k)
      BY <2>1
    <2>3. Dispatched(k)'
      BY <2>2, DispatchedStays DEF ReuseInv
    <2>4. QED
      BY <2>1, <2>2, <2>3
  <1>2. ReuseFounded'
    BY <1>1 DEF ReuseFounded
  <1>3. QED
    BY <1>2, IInvStep, ReturnedStep, MarkedStep DEF ReuseInv

\* As long as issuing leaves no mark in the store calls are dispatched on, a permit
\* is called already dispatched only if some call has spent its nonce.
THEOREM ReuseIsDispatch ==
  ASSUME Separate
  PROVE  Spec => []ReuseMeansDispatched
  <1>1. Init => ReuseInv
    <2> SUFFICES ASSUME Init PROVE ReuseInv
      OBVIOUS
    <2>1. IInv
      BY InitIInv
    <2>2. \A c \in Callers, k \in Keys : Consumable(Store(c), k)
      BY ExecutorAssumption DEF Init, Consumable, Store, EmptyStore
    <2>3. QED
      BY <2>1, <2>2 DEF Init, ReuseInv, Returned, Marked, ReuseFounded, Threads
  <1>2. ReuseInv /\ [Next]_vars => ReuseInv'
    BY ReuseInvStep
  <1>3. ReuseInv => ReuseMeansDispatched
    BY DEF ReuseInv, ReuseFounded, ReuseMeansDispatched
  <1>4. QED
    BY <1>1, <1>2, <1>3, PTL DEF Spec

(***************************************************************************)
(* One FileNonceStore for everybody.                                       *)
(***************************************************************************)
OneStore == \A t, u \in Threads : StoreOf[t] = StoreOf[u]

\* A permit's nonce is marked in every store before the permit is returned.
Premarked == \A p \in permits, t \in Threads : ~Consumable(Store(t), p.key)

NothingRan ==
  /\ \A c \in Callers : pc[c] \notin {"execute", "receipt"}
  /\ \A k \in Keys : effects[k] = 0 /\ receipts[k] = 0

\* FileNonceStore.record leaves the mark that consume looks for.
LEMMA RecordMarks ==
  ASSUME FileStore, NEW S, NEW k
  PROVE  ~Consumable(Record(S, k), k)
  BY DEF Record, Consumable

LEMMA PremarkedStep ==
  ASSUME FileStore, OneStore, IInv, Premarked, NothingRan, [Next]_vars
  PROVE  Premarked' /\ NothingRan'
  <1> USE DEF IInv, TypeOK, Goto, Return, Threads
  <1>1. ASSUME NEW i \in Issuers, RecordNonce(i) PROVE Premarked' /\ NothingRan'
    <2>1. form[i] \in Forms /\ form[i].key \in Keys
      BY <1>1, FormFields DEF RecordNonce, Checked
    <2>2. /\ stores' = [stores EXCEPT ![StoreOf[i]] = Record(@, form[i].key)]
          /\ permits' = permits \cup {form[i]}
      BY <1>1 DEF RecordNonce
    <2>3. \A t \in Threads : stores'[StoreOf[t]] = Record(stores[StoreOf[t]], form[i].key)
      BY <2>2, ExecutorAssumption DEF OneStore
    <2>4. \A t \in Threads : stores[StoreOf[t]] \in Stores(Keys)
      BY ExecutorAssumption
    <2>5. ASSUME NEW p \in permits', NEW t \in Threads
          PROVE  ~Consumable(stores'[StoreOf[t]], p.key)
      <3>1. CASE p = form[i]
        BY <2>3, <3>1, RecordMarks
      <3>2. CASE p \in permits
        <4>1. p.key \in Keys /\ ~Consumable(stores[StoreOf[t]], p.key)
          BY <3>2, FormFields DEF Premarked, Store
        <4> QED
          BY <2>1, <2>3, <2>4, <4>1, StoreOps
      <3> QED
        BY <2>2, <3>1, <3>2
    <2>6. NothingRan'
      BY <1>1, ExecutorAssumption DEF RecordNonce, NothingRan
    <2> QED
      BY <2>5, <2>6 DEF Premarked, Store
  <1>2. ASSUME NEW c \in Callers, ConsumeNonce(c) PROVE Premarked' /\ NothingRan'
    <2>1. ~Consumable(Store(c), form[c].key)
      BY <1>2 DEF ConsumeNonce, Checked, Premarked
    <2> QED
      BY <1>2, <2>1 DEF ConsumeNonce, Premarked, NothingRan, Store
  <1>3. ASSUME NEW c \in Callers, Execute(c) \/ ExecuteRaises(c) \/ SignReceipt(c) PROVE FALSE
    BY <1>3 DEF Execute, ExecuteRaises, SignReceipt, NothingRan
  <1>4. ASSUME NEW i \in Issuers, NEW p \in Forms, NEW self \in BOOLEAN,
               RequestPermit(i, p, self)
        PROVE  Premarked' /\ NothingRan'
    BY <1>4, ExecutorAssumption DEF RequestPermit, Premarked, NothingRan, Store
  <1>5. ASSUME NEW i \in Issuers, CheckSeen(i) \/ Sign(i) PROVE Premarked' /\ NothingRan'
    BY <1>5, ExecutorAssumption DEF CheckSeen, Sign, Premarked, NothingRan, Store
  <1>6. ASSUME NEW c \in Callers, NEW p \in Forms, NEW x \in Calls, Present(c, p, x)
        PROVE  Premarked' /\ NothingRan'
    BY <1>6 DEF Present, Premarked, NothingRan, Store
  <1>7. ASSUME NEW c \in Callers, Verify(c) PROVE Premarked' /\ NothingRan'
    BY <1>7 DEF Verify, Premarked, NothingRan, Store
  <1>8. ASSUME NEW t \in Threads, Die(t) PROVE Premarked' /\ NothingRan'
    BY <1>8 DEF Die, Premarked, NothingRan, Store
  <1>9. CASE UNCHANGED <<pc, stores, permits, effects, receipts>>
    BY <1>9 DEF Premarked, NothingRan, Store
  <1>10. QED
    BY <1>1, <1>2, <1>3, <1>4, <1>5, <1>6, <1>7, <1>8, <1>9
    DEF Next, IssueStep, CallStep, Lapse, vars

\* One FileNonceStore given to issue_permit and consume_and_execute alike refuses
\* every permit it helped to issue: record and consume leave the same mark, so no
\* tool ever runs and no receipt is ever signed.
THEOREM OneFileStoreRunsNothing ==
  ASSUME FileStore, OneStore
  PROVE  Spec => []NothingRan
  <1>1. Init => Premarked /\ NothingRan
    BY DEF Init, Premarked, NothingRan, Threads
  <1>2. IInv /\ Premarked /\ NothingRan /\ [Next]_vars => (Premarked /\ NothingRan)'
    BY PremarkedStep
  <1>3. QED
    BY InitIInv, IInvStep, <1>1, <1>2, PTL DEF Spec

(***************************************************************************)
(* The stages of a run that the two functions take.                        *)
(***************************************************************************)
\* Action a was admitted and a permit of it issued; a tool ran on such a permit.
Issued(a) == a \in Admitted /\ \E p \in permits : p.action = a
Performed(a) == \E e \in performed : e.action = a

Stage(a) == IF Performed(a) THEN 2 ELSE IF Issued(a) THEN 1 ELSE 0

Lifecycle == INSTANCE RunLifecycle WITH stage <- [a \in Actions |-> Stage(a)]

\* A step that moves one action to the next stage, or none.
Moves(b) ==
  /\ Stage(b) < 4 /\ Stage(b)' = Stage(b) + 1
  /\ \A a \in Actions \ {b} : Stage(a)' = Stage(a)

Rests == \A a \in Actions : Stage(a)' = Stage(a)

LEMMA StageStep == IInv /\ [Next]_vars => Rests \/ \E b \in Actions : Moves(b)
  <1> SUFFICES ASSUME IInv, [Next]_vars PROVE Rests \/ \E b \in Actions : Moves(b)
    OBVIOUS
  <1> USE DEF Rests, Moves, Stage
  <1>1. ASSUME NEW i \in Issuers, RecordNonce(i)
        PROVE  Rests \/ \E b \in Actions : Moves(b)
    <2>1. form[i] \in Forms /\ form[i].action \in Actions /\ form[i].action \in Admitted
      BY <1>1, FormFields DEF RecordNonce, IInv, Checked, Threads
    <2>2. permits' = permits \cup {form[i]} /\ performed' = performed
      BY <1>1 DEF RecordNonce
    <2>3. \A a \in Actions : /\ Issued(a)' <=> Issued(a) \/ a = form[i].action
                             /\ Performed(a)' <=> Performed(a)
      BY <2>1, <2>2 DEF Issued, Performed
    <2> QED
      BY <2>1, <2>3
  <1>2. ASSUME NEW c \in Callers, Execute(c) \/ ExecuteRaises(c), Effect(c)
        PROVE  Rests \/ \E b \in Actions : Moves(b)
    <2> DEFINE done == [key |-> form[c].key, action |-> form[c].action, call |-> call[c],
                        by |-> IdentityOf[c], late |-> late[c]]
    <2>1. form[c] \in permits /\ form[c].action \in Actions /\ form[c].action \in Admitted
      BY <1>2, FormFields DEF Execute, ExecuteRaises, IInv, TypeOK, Checked, Threads
    <2>2. /\ performed' = performed \cup {done} /\ permits' = permits
          /\ done.action = form[c].action
      BY <1>2 DEF Execute, ExecuteRaises, Effect
    <2> HIDE DEF done
    <2>3. \A a \in Actions : /\ Performed(a)' <=> Performed(a) \/ a = form[c].action
                             /\ Issued(a)' <=> Issued(a)
      BY <2>2 DEF Issued, Performed
    <2>4. Issued(form[c].action)
      BY <2>1 DEF Issued
    <2> QED
      BY <2>1, <2>3, <2>4
  <1>3. CASE UNCHANGED <<permits, performed>>
    BY <1>3 DEF Issued, Performed
  <1>4. QED
    BY <1>1, <1>2, <1>3
    DEF Next, IssueStep, CallStep, RequestPermit, CheckSeen, Sign, Present, Verify,
        ConsumeNonce, Execute, ExecuteRaises, SignReceipt, Die, Lapse, vars

\* issue_permit and consume_and_execute take an action from planned to admitted to
\* dispatched and skip neither, whoever dies and whatever is forged: no tool runs, and
\* no receipt is signed, to the account of an action that was not admitted and issued a
\* permit before. The account is the permit's action_digest, which is what Assurance
\* takes the later stages of RunLifecycle on; AdmittedCallsOnly is about the call.
THEOREM FirstStagesInOrder == Spec => Lifecycle!Spec
  <1> DEFINE S == [a \in Actions |-> Stage(a)]
  <1>1. Init => Lifecycle!Init
    BY DEF Init, Lifecycle!Init, Stage, Issued, Performed
  <1>2. IInv /\ [Next]_vars => [Lifecycle!Next]_S
    <2> SUFFICES ASSUME IInv, [Next]_vars PROVE [Lifecycle!Next]_S
      OBVIOUS
    <2>1. CASE Rests
      BY <2>1 DEF Rests
    <2>2. ASSUME NEW b \in Actions, Moves(b) PROVE Lifecycle!Advance(b)
      <3>1. S[b] < 4
        BY <2>2 DEF Moves
      <3>2. S' = [S EXCEPT ![b] = @ + 1]
        BY <2>2 DEF Moves
      <3> QED
        BY <3>1, <3>2 DEF Lifecycle!Advance
    <2> QED
      BY <2>1, <2>2, StageStep DEF Lifecycle!Next
  <1>3. QED
    BY InitIInv, IInvStep, <1>1, <1>2, PTL DEF Spec, Lifecycle!Spec

(***************************************************************************)
(* Callers with stores of their own.                                       *)
(***************************************************************************)
CallerStores == {StoreOf[c] : c \in Callers}

\* The callers' stores that have nonce k consumed, and the calls about to run with it.
SpentIn(k) == {n \in CallerStores : ~Consumable(stores[n], k)}
About(k) == {c \in Callers : pc[c] = "execute" /\ form[c].key = k}

\* Whatever ran under a nonce, or is about to, has consumed it in a store of its own.
Budget == \A k \in Keys : effects[k] + Cardinality(About(k)) <= Cardinality(SpentIn(k))

Finite == IsFiniteSet(Callers) /\ IsFiniteSet(StoreNames)

LEMMA SubsetSizes ==
  ASSUME NEW S, IsFiniteSet(S), NEW T \in SUBSET S
  PROVE  /\ IsFiniteSet(T)
         /\ Cardinality(T) \in Nat /\ Cardinality(S) \in Nat
         /\ Cardinality(T) <= Cardinality(S)
  BY FS_Subset, FS_CardinalityType

\* Both sets of the budget are finite, before and after a step.
LEMMA FiniteBudget ==
  ASSUME Finite, NEW k \in Keys
  PROVE  /\ IsFiniteSet(CallerStores)
         /\ SpentIn(k) \in SUBSET CallerStores /\ SpentIn(k)' \in SUBSET CallerStores
         /\ IsFiniteSet(SpentIn(k)) /\ IsFiniteSet(SpentIn(k)')
         /\ IsFiniteSet(About(k)) /\ IsFiniteSet(About(k)')
  <1>1. CallerStores \in SUBSET StoreNames
    BY ExecutorAssumption DEF CallerStores
  <1>2. SpentIn(k) \in SUBSET CallerStores /\ SpentIn(k)' \in SUBSET CallerStores
    BY DEF SpentIn
  <1>3. About(k) \in SUBSET Callers /\ About(k)' \in SUBSET Callers
    BY DEF About
  <1>4. IsFiniteSet(CallerStores)
    BY <1>1, SubsetSizes DEF Finite
  <1>5. QED
    BY <1>2, <1>3, <1>4, SubsetSizes DEF Finite

\* Counting: a budget is kept when its store side grows and its other side does not.
LEMMA BudgetKept ==
  ASSUME NEW A, NEW B \in SUBSET A, IsFiniteSet(A),
         NEW T, NEW S \in SUBSET T, IsFiniteSet(T),
         NEW e \in Nat, e + Cardinality(A) <= Cardinality(S)
  PROVE  e + Cardinality(B) <= Cardinality(T)
  <1>1. /\ Cardinality(A) \in Nat /\ Cardinality(B) \in Nat
        /\ Cardinality(B) <= Cardinality(A)
    BY SubsetSizes
  <1>2. /\ Cardinality(T) \in Nat /\ Cardinality(S) \in Nat
        /\ Cardinality(S) <= Cardinality(T)
    BY SubsetSizes
  <1>3. QED
    BY <1>1, <1>2

\* A caller that consumes a nonce is one more about to run, in one more store.
LEMMA BudgetTaken ==
  ASSUME NEW A, NEW c, IsFiniteSet(A), c \notin A,
         NEW T, NEW S \in SUBSET T, IsFiniteSet(T), NEW n \in T, n \notin S,
         NEW e \in Nat, e + Cardinality(A) <= Cardinality(S)
  PROVE  e + Cardinality(A \cup {c}) <= Cardinality(T)
  <1>1. /\ Cardinality(A \cup {c}) = Cardinality(A) + 1 /\ Cardinality(A) \in Nat
        /\ S \cup {n} \in SUBSET T
    BY FS_AddElement, FS_CardinalityType
  <1>2. IsFiniteSet(S) /\ Cardinality(S) \in Nat
    BY SubsetSizes
  <1>3. Cardinality(S \cup {n}) = Cardinality(S) + 1
    BY <1>2, FS_AddElement
  <1>4. Cardinality(S \cup {n}) <= Cardinality(T) /\ Cardinality(T) \in Nat
    BY <1>1, SubsetSizes
  <1>5. QED
    BY <1>1, <1>2, <1>3, <1>4

\* A caller that runs is one less about to.
LEMMA BudgetUsed ==
  ASSUME NEW A, NEW c \in A, IsFiniteSet(A),
         NEW T, NEW S \in SUBSET T, IsFiniteSet(T),
         NEW e \in Nat, e + Cardinality(A) <= Cardinality(S),
         NEW d \in {e, e + 1}
  PROVE  d + Cardinality(A \ {c}) <= Cardinality(T)
  <1>1. Cardinality(A \ {c}) = Cardinality(A) - 1 /\ Cardinality(A) \in Nat
    BY FS_RemoveElement, FS_CardinalityType
  <1>2. /\ Cardinality(T) \in Nat /\ Cardinality(S) \in Nat
        /\ Cardinality(S) <= Cardinality(T)
    BY SubsetSizes
  <1>3. QED
    BY <1>1, <1>2

\* A store never forgets a mark, whichever thread uses it.
LEMMA MarksStay ==
  ASSUME IInv, [Next]_vars, NEW k \in Keys
  PROVE  SpentIn(k) \subseteq SpentIn(k)'
  <1> SUFFICES ASSUME NEW n \in CallerStores, ~Consumable(stores[n], k)
               PROVE  ~Consumable(stores'[n], k)
    BY DEF SpentIn
  <1> USE DEF IInv, TypeOK
  <1>1. n \in StoreNames
    BY ExecutorAssumption DEF CallerStores
  <1>2. ASSUME NEW d \in Callers, ConsumeNonce(d), stores' # stores
        PROVE  ~Consumable(stores'[n], k)
    <2>1. form[d].key \in Keys
      BY <1>2, FormFields DEF ConsumeNonce, Checked, Threads
    <2>2. stores'[n] \in {stores[n], Consume(stores[n], form[d].key)}
      BY <1>1, <1>2 DEF ConsumeNonce
    <2>3. QED
      BY <1>1, <2>1, <2>2, StoreOps
  <1>3. ASSUME NEW i \in Issuers, RecordNonce(i) PROVE ~Consumable(stores'[n], k)
    <2>1. form[i].key \in Keys
      BY <1>3, FormFields DEF RecordNonce, Checked, Threads
    <2>2. stores'[n] \in {stores[n], Record(stores[n], form[i].key)}
      BY <1>1, <1>3 DEF RecordNonce
    <2>3. QED
      BY <1>1, <2>1, <2>2, StoreOps
  <1>4. QED
    BY <1>2, <1>3
    DEF Next, IssueStep, CallStep, RequestPermit, CheckSeen, Sign, Present, Verify,
        ConsumeNonce, Execute, ExecuteRaises, SignReceipt, Die, Lapse, vars

LEMMA BudgetStep ==
  ASSUME Finite, IInv, Budget, [Next]_vars
  PROVE  Budget'
  <1> SUFFICES ASSUME NEW k \in Keys
               PROVE  effects'[k] + Cardinality(About(k)') <= Cardinality(SpentIn(k)')
    BY DEF Budget
  <1> DEFINE Kept == effects'[k] = effects[k] /\ About(k)' \subseteq About(k)
  <1> USE DEF IInv, TypeOK, Goto, Return, Threads
  <1>0. /\ SpentIn(k) \in SUBSET SpentIn(k)' /\ effects[k] \in Nat
        /\ effects[k] + Cardinality(About(k)) <= Cardinality(SpentIn(k))
        /\ IsFiniteSet(SpentIn(k)') /\ IsFiniteSet(About(k))
    BY MarksStay, FiniteBudget DEF Budget
  <1>1. ASSUME Kept
        PROVE  effects'[k] + Cardinality(About(k)') <= Cardinality(SpentIn(k)')
    <2>1. About(k)' \in SUBSET About(k) /\ effects'[k] = effects[k]
      BY <1>1
    <2>2. effects[k] + Cardinality(About(k)') <= Cardinality(SpentIn(k)')
      BY <1>0, <2>1, BudgetKept
    <2>3. QED
      BY <2>1, <2>2
  <1>2. ASSUME NEW i \in Issuers, NEW p \in Forms, NEW self \in BOOLEAN,
               RequestPermit(i, p, self)
        PROVE  Kept
    BY <1>2, ExecutorAssumption DEF RequestPermit, About
  <1>3. ASSUME NEW i \in Issuers, IssueStep(i) PROVE Kept
    BY <1>3 DEF IssueStep, CheckSeen, Sign, RecordNonce, About
  <1>4. ASSUME NEW c \in Callers, NEW p \in Forms, NEW x \in Calls, Present(c, p, x)
        PROVE  Kept
    BY <1>4 DEF Present, About
  <1>5. ASSUME NEW c \in Callers, Verify(c) \/ SignReceipt(c) PROVE Kept
    BY <1>5 DEF Verify, SignReceipt, About
  <1>6. ASSUME NEW c \in Callers, ConsumeNonce(c)
        PROVE  effects'[k] + Cardinality(About(k)') <= Cardinality(SpentIn(k)')
    <2>1. UNCHANGED <<effects, form>> /\ form[c].key \in Keys
      BY <1>6, FormFields DEF ConsumeNonce, Checked
    <2>2. CASE form[c].key = k /\ Consumable(Store(c), k)
      <3>1. /\ pc'[c] = "execute" /\ \A d \in Callers \ {c} : pc'[d] = pc[d]
            /\ pc[c] = "consume"
            /\ stores' = [stores EXCEPT ![StoreOf[c]] = Consume(@, k)]
        BY <1>6, <2>2 DEF ConsumeNonce
      <3>2. About(k)' = About(k) \cup {c} /\ c \notin About(k)
        BY <2>1, <2>2, <3>1 DEF About
      <3>3. StoreOf[c] \in StoreNames /\ StoreOf[c] \in CallerStores
        BY ExecutorAssumption DEF CallerStores
      <3>4. stores'[StoreOf[c]] = Consume(stores[StoreOf[c]], k)
        BY <3>1, <3>3
      <3>5. ~Consumable(stores'[StoreOf[c]], k)
        BY <3>4 DEF Consume, Consumable
      <3>6. StoreOf[c] \in SpentIn(k)' /\ StoreOf[c] \notin SpentIn(k)
        BY <2>2, <3>3, <3>5 DEF SpentIn, Store
      <3>7. effects[k] + Cardinality(About(k) \cup {c}) <= Cardinality(SpentIn(k)')
        BY <1>0, <3>2, <3>6, BudgetTaken
      <3>8. QED
        BY <2>1, <3>2, <3>7
    <2>3. CASE ~(form[c].key = k /\ Consumable(Store(c), k))
      BY <1>1, <1>6, <2>1, <2>3 DEF ConsumeNonce, About
    <2>4. QED
      BY <2>2, <2>3
  <1>7. ASSUME NEW c \in Callers, Execute(c) \/ ExecuteRaises(c)
        PROVE  effects'[k] + Cardinality(About(k)') <= Cardinality(SpentIn(k)')
    <2>1. /\ form' = form /\ form[c].key \in Keys /\ pc[c] = "execute" /\ pc'[c] # "execute"
          /\ \A d \in Callers \ {c} : pc'[d] = pc[d]
      BY <1>7, FormFields DEF Execute, ExecuteRaises, Checked
    <2>2. CASE form[c].key = k
      <3>1. c \in About(k) /\ About(k)' = About(k) \ {c}
        BY <2>1, <2>2 DEF About
      <3>2. effects'[k] \in {effects[k], effects[k] + 1}
        BY <1>7, <2>1, <2>2 DEF Execute, ExecuteRaises, Effect
      <3>3. effects'[k] + Cardinality(About(k) \ {c}) <= Cardinality(SpentIn(k)')
        BY <1>0, <3>1, <3>2, BudgetUsed
      <3>4. QED
        BY <3>1, <3>3
    <2>3. CASE form[c].key # k
      <3>1. effects'[k] = effects[k]
        BY <1>7, <2>1, <2>3 DEF Execute, ExecuteRaises, Effect
      <3>2. About(k)' \subseteq About(k)
        BY <2>1, <2>3 DEF About
      <3>3. QED
        BY <1>1, <3>1, <3>2
    <2>4. QED
      BY <2>2, <2>3
  <1>8. ASSUME NEW t \in Threads, Die(t) PROVE Kept
    BY <1>8 DEF Die, About
  <1>9. CASE UNCHANGED <<pc, form, effects>>
    BY <1>1, <1>9 DEF About
  <1>10. QED
    BY <1>1, <1>2, <1>3, <1>4, <1>5, <1>6, <1>7, <1>8, <1>9 DEF Next, CallStep, Lapse, vars

\* Executors that do not share a nonce store, each process its own, can dispatch one
\* nonce more than once, and no oftener than they have stores between them.
THEOREM OneEffectPerStore ==
  ASSUME Finite
  PROVE  Spec => [](\A k \in Keys : effects[k] <= Cardinality(CallerStores))
  <1>1. Init => Budget
    <2> SUFFICES ASSUME Init, NEW k \in Keys
                 PROVE  effects[k] + Cardinality(About(k)) <= Cardinality(SpentIn(k))
      BY DEF Budget
    <2>1. About(k) = {} /\ effects[k] = 0
      BY DEF Init, About, Threads
    <2>2. Cardinality(About(k)) = 0
      BY <2>1, FS_EmptySet
    <2>3. Cardinality(SpentIn(k)) \in Nat
      BY FiniteBudget, FS_CardinalityType
    <2>4. QED
      BY <2>1, <2>2, <2>3
  <1>2. IInv /\ Budget /\ [Next]_vars => Budget'
    BY BudgetStep
  <1>3. IInv /\ Budget => \A k \in Keys : effects[k] <= Cardinality(CallerStores)
    <2> SUFFICES ASSUME IInv, Budget, NEW k \in Keys
                 PROVE  effects[k] <= Cardinality(CallerStores)
      OBVIOUS
    <2>1. /\ Cardinality(SpentIn(k)) <= Cardinality(CallerStores)
          /\ Cardinality(SpentIn(k)) \in Nat /\ Cardinality(CallerStores) \in Nat
      BY FiniteBudget, SubsetSizes
    <2>2. Cardinality(About(k)) \in Nat /\ effects[k] \in Nat
      BY FiniteBudget, FS_CardinalityType DEF IInv, TypeOK
    <2>3. QED
      BY <2>1, <2>2 DEF Budget
  <1>4. QED
    BY InitIInv, IInvStep, <1>1, <1>2, <1>3, PTL DEF Spec
================================================================================
