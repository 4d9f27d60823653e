-------------------------- MODULE HaltApprovalProofs --------------------------
(***************************************************************************)
(* Proofs about HaltApproval: type correctness, single use of a receipt as *)
(* a refinement of SingleUse, that refusals burn nothing, and that scope   *)
(* next-action holds when the calls of a run are made one at a time.       *)
(***************************************************************************)
EXTENDS HaltApproval, TLAPS

Committed(t) == pc[t] \in {"mark", "send"}

\* Past Verify, the presented receipt is a human's and names this agent.
Checked ==
  \A t \in Threads :
    pc[t] \in {"seen", "scope", "consume", "mark", "send"} =>
      /\ presented[t] \in Receipts
      /\ ReceiptInfo[presented[t]].agent = AgentOf[t]
      /\ ReceiptInfo[presented[t]].humanKey
      /\ pc[t] = "mark" => IsNextAction(presented[t])

\* The store of the agent a receipt names.
HomeStore(r) == stores[StoreOf[ReceiptInfo[r].agent]]

\* A thread on its way to send has consumed its receipt, and is alone with it.
Paid ==
  /\ \A t \in Threads :
       Committed(t) => ~Consumable(HomeStore(presented[t]), Key(presented[t]))
  /\ \A t, u \in Threads :
       Committed(t) /\ Committed(u) /\ t # u => presented[t] # presented[u]

\* A receipt that got its halt is consumed, and nobody is on the way with it.
Settled ==
  \A r \in Receipts :
    \/ dispatched[r] = 0
    \/ /\ dispatched[r] = 1
       /\ ~Consumable(HomeStore(r), Key(r))
       /\ \A t \in Threads : Committed(t) => presented[t] # r

IInv == TypeOK /\ Checked /\ Paid /\ Settled

\* Keys of different receipts differ, and none is a marker's.
LEMMA KeysDiffer ==
  ASSUME NEW r \in Receipts, NEW q \in Receipts
  PROVE  /\ Key(r) \in Keys /\ MarkerKey(r) \in Keys
         /\ Key(r) = Key(q) => r = q
         /\ Key(r) # MarkerKey(q)
         /\ \A run \in Runs : Key(r) # <<run, Marker>>
  BY HaltAssumption DEF Key, MarkerKey, Keys, Info

LEMMA StoreOps ==
  ASSUME NEW S \in Stores(Keys), NEW k \in Keys, NEW j \in Keys
  PROVE  /\ Consume(S, k) \in Stores(Keys) /\ Record(S, k) \in Stores(Keys)
         /\ Consumable(Consume(S, k), j) <=> Consumable(S, j) /\ j # k
         /\ ~Consumable(S, j) => ~Consumable(Record(S, k), j)
         /\ ~Consumable(Record(S, k), j) => ~Consumable(S, j) \/ j = k
         /\ Seen(Record(S, k), j) <=> Seen(S, j) \/ j = k
         /\ Seen(Consume(S, k), j) => Seen(S, j) \/ j = k
         /\ Seen(S, j) => Seen(Consume(S, k), j)
  BY FileStoreAssumption
  DEF Stores, Consume, Record, Consumable, Seen

LEMMA InitIInv == Init => IInv
  <1> SUFFICES ASSUME Init PROVE IInv
    OBVIOUS
  <1>1. (CHOOSE m \in Makers : TRUE) \in Makers
    BY HaltAssumption
  <1>2. TypeOK
    BY HaltAssumption, <1>1 DEF Init, TypeOK, Stores, EmptyStore
  <1>3. QED
    BY <1>2 DEF Init, IInv, Checked, Paid, Settled, Committed

LEMMA TypeStep == TypeOK /\ Checked /\ [Next]_vars => TypeOK'
  <1> SUFFICES ASSUME TypeOK, Checked, [Next]_vars PROVE TypeOK'
    OBVIOUS
  <1> USE HaltAssumption DEF TypeOK, Goto, Deny
  <1>1. ASSUME NEW t \in Threads, NEW m \in Makers, NEW r \in Receipts \cup {NoReceipt},
               Call(t, m, r)
        PROVE  TypeOK'
    BY <1>1 DEF Call
  <1>2. ASSUME NEW t \in Threads, Verify(t) PROVE TypeOK'
    BY <1>2 DEF Verify
  <1>3. ASSUME NEW t \in Threads, CheckSeen(t) PROVE TypeOK'
    BY <1>3 DEF CheckSeen
  <1>4. ASSUME NEW t \in Threads, CheckScope(t) PROVE TypeOK'
    BY <1>4 DEF CheckScope
  <1>5. ASSUME NEW t \in Threads, ConsumeNonce(t) PROVE TypeOK'
    <2>1. Consume(Store(t), Key(presented[t])) \in Stores(Keys)
      BY <1>5, KeysDiffer, StoreOps DEF ConsumeNonce, Checked, Store, StoreIn
    <2>2. QED
      BY <1>5, <2>1 DEF ConsumeNonce, Store, StoreIn
  <1>6. ASSUME NEW t \in Threads, MarkScope(t) PROVE TypeOK'
    <2>1. Record(Store(t), MarkerKey(presented[t])) \in Stores(Keys)
      BY <1>6, KeysDiffer, StoreOps DEF MarkScope, Checked, Store, StoreIn
    <2>2. QED
      BY <1>6, <2>1 DEF MarkScope, Store, StoreIn
  <1>7. ASSUME NEW t \in Threads, Send(t) PROVE TypeOK'
    BY <1>7 DEF Send, Checked
  <1>8. ASSUME NEW t \in Threads, Die(t) PROVE TypeOK'
    BY <1>8 DEF Die, Checked
  <1>9. ASSUME NEW r \in Lapsing, Lapse(r) PROVE TypeOK'
    BY <1>9 DEF Lapse
  <1>10. CASE UNCHANGED vars
    BY <1>10 DEF vars
  <1>11. QED
    BY <1>1, <1>2, <1>3, <1>4, <1>5, <1>6, <1>7, <1>8, <1>9, <1>10 DEF Next, Step

LEMMA CheckedStep == TypeOK /\ Checked /\ [Next]_vars => Checked'
  <1> SUFFICES ASSUME TypeOK, Checked, [Next]_vars PROVE Checked'
    OBVIOUS
  <1> USE DEF TypeOK, Checked, Goto, Deny
  <1>1. ASSUME NEW t \in Threads, NEW m \in Makers, NEW r \in Receipts \cup {NoReceipt},
               Call(t, m, r)
        PROVE  Checked'
    BY <1>1 DEF Call
  <1>2. ASSUME NEW t \in Threads, Verify(t) PROVE Checked'
    BY <1>2, HaltAssumption DEF Verify, Acceptable
  <1>3. ASSUME NEW t \in Threads, CheckSeen(t) PROVE Checked'
    BY <1>3 DEF CheckSeen
  <1>4. ASSUME NEW t \in Threads, CheckScope(t) PROVE Checked'
    BY <1>4 DEF CheckScope
  <1>5. ASSUME NEW t \in Threads, ConsumeNonce(t) PROVE Checked'
    BY <1>5 DEF ConsumeNonce
  <1>6. ASSUME NEW t \in Threads, MarkScope(t) PROVE Checked'
    BY <1>6 DEF MarkScope
  <1>7. ASSUME NEW t \in Threads, Send(t) PROVE Checked'
    BY <1>7 DEF Send
  <1>8. ASSUME NEW t \in Threads, Die(t) PROVE Checked'
    BY <1>8 DEF Die
  <1>9. ASSUME NEW r \in Lapsing, Lapse(r) PROVE Checked'
    BY <1>9 DEF Lapse
  <1>10. CASE UNCHANGED vars
    BY <1>10 DEF vars
  <1>11. QED
    BY <1>1, <1>2, <1>3, <1>4, <1>5, <1>6, <1>7, <1>8, <1>9, <1>10 DEF Next, Step

\* A thread past Verify works on the home store of its receipt.
LEMMA AtHome ==
  ASSUME Checked, TypeOK, NEW t \in Threads,
         pc[t] \in {"seen", "scope", "consume", "mark", "send"}
  PROVE  /\ presented[t] \in Receipts
         /\ StoreIn(t) = StoreOf[ReceiptInfo[presented[t]].agent]
         /\ StoreIn(t) \in StoreNames
         /\ Store(t) = HomeStore(presented[t])
         /\ Store(t) \in Stores(Keys)
  BY HaltAssumption DEF Checked, TypeOK, StoreIn, Store, HomeStore

\* No step makes a consumed key consumable again.
Spent(n, k) == ~Consumable(stores[n], k)

LEMMA SpentStaysSpent ==
  ASSUME TypeOK, Checked, [Next]_vars, NEW n \in StoreNames, NEW k \in Keys, Spent(n, k)
  PROVE  Spent(n, k)'
  <1> USE DEF TypeOK, Spent
  <1>1. ASSUME NEW t \in Threads, ConsumeNonce(t) PROVE Spent(n, k)'
    <2>1. CASE UNCHANGED stores
      BY <2>1 DEF Consumable
    <2>2. CASE stores' = [stores EXCEPT ![StoreIn(t)] = Consume(@, Key(presented[t]))]
      <3>1. Key(presented[t]) \in Keys /\ Store(t) \in Stores(Keys)
        BY <1>1, AtHome, KeysDiffer DEF ConsumeNonce
      <3>2. ~Consumable(Store(t), k) => ~Consumable(Consume(Store(t), Key(presented[t])), k)
        BY <3>1, StoreOps
      <3>3. QED
        BY <2>2, <3>2 DEF Store, Consumable
    <2>3. QED
      BY <1>1, <2>1, <2>2 DEF ConsumeNonce
  <1>2. ASSUME NEW t \in Threads, MarkScope(t) PROVE Spent(n, k)'
    <2>1. MarkerKey(presented[t]) \in Keys /\ Store(t) \in Stores(Keys)
      BY <1>2, AtHome, KeysDiffer DEF MarkScope
    <2>2. ~Consumable(Store(t), k) => ~Consumable(Record(Store(t), MarkerKey(presented[t])), k)
      BY <2>1, StoreOps
    <2>3. QED
      BY <1>2, <2>2 DEF MarkScope, Store, Consumable
  <1>3. CASE UNCHANGED stores
    BY <1>3 DEF Consumable
  <1>4. QED
    BY <1>1, <1>2, <1>3
    DEF Next, Step, Call, Verify, CheckSeen, CheckScope, Send, Die, Lapse, vars

HomeKeySpent(r) == ~Consumable(HomeStore(r), Key(r))

LEMMA HomeKeyStaysSpent ==
  ASSUME TypeOK, Checked, [Next]_vars, NEW r \in Receipts, HomeKeySpent(r)
  PROVE  HomeKeySpent(r)'
  <1>1. StoreOf[ReceiptInfo[r].agent] \in StoreNames /\ Key(r) \in Keys
    BY HaltAssumption, KeysDiffer DEF Info
  <1>2. QED
    BY <1>1, SpentStaysSpent DEF HomeKeySpent, HomeStore, Spent

\* The step on which a receipt is paid: its key was consumable and is not now.
LEMMA ConsumeSpends ==
  ASSUME TypeOK, Checked, NEW t \in Threads, ConsumeNonce(t), Committed(t)'
  PROVE  /\ Consumable(HomeStore(presented[t]), Key(presented[t]))
         /\ HomeKeySpent(presented[t])'
  <1>1. /\ presented[t] \in Receipts /\ Key(presented[t]) \in Keys
        /\ Store(t) = HomeStore(presented[t]) /\ Store(t) \in Stores(Keys)
        /\ StoreIn(t) = StoreOf[ReceiptInfo[presented[t]].agent]
        /\ StoreIn(t) \in StoreNames
    BY AtHome, KeysDiffer DEF ConsumeNonce
  <1>2. /\ Consumable(Store(t), Key(presented[t]))
        /\ stores' = [stores EXCEPT ![StoreIn(t)] = Consume(@, Key(presented[t]))]
        /\ presented' = presented
    BY DEF ConsumeNonce, Committed, Goto, Deny, TypeOK
  <1>3. ~Consumable(Consume(Store(t), Key(presented[t])), Key(presented[t]))
    BY <1>1, StoreOps
  <1>4. HomeStore(presented[t])' = Consume(Store(t), Key(presented[t]))
    BY <1>1, <1>2 DEF HomeStore, Store, TypeOK
  <1>5. QED
    BY <1>1, <1>2, <1>3, <1>4 DEF HomeKeySpent, Consumable, Key

\* Any other way to be committed is to have been committed with that receipt.
LEMMA CommittedBefore ==
  ASSUME TypeOK, [Next]_vars, NEW u \in Threads, Committed(u)', ~ConsumeNonce(u)
  PROVE  Committed(u) /\ presented'[u] = presented[u]
  <1> USE DEF TypeOK, Committed, Goto, Deny
  <1>1. ASSUME NEW t \in Threads, NEW m \in Makers, NEW r \in Receipts \cup {NoReceipt},
               Call(t, m, r)
        PROVE  Committed(u) /\ presented'[u] = presented[u]
    BY <1>1 DEF Call
  <1>2. ASSUME NEW t \in Threads, Verify(t) \/ CheckSeen(t) \/ CheckScope(t)
        PROVE  Committed(u) /\ presented'[u] = presented[u]
    BY <1>2 DEF Verify, CheckSeen, CheckScope
  <1>3. ASSUME NEW t \in Threads, ConsumeNonce(t)
        PROVE  Committed(u) /\ presented'[u] = presented[u]
    <2>1. t # u
      BY <1>3
    <2>2. QED
      BY <1>3, <2>1 DEF ConsumeNonce
  <1>4. ASSUME NEW t \in Threads, MarkScope(t) \/ Send(t) \/ Die(t)
        PROVE  Committed(u) /\ presented'[u] = presented[u]
    BY <1>4 DEF MarkScope, Send, Die
  <1>5. CASE UNCHANGED <<pc, presented>>
    BY <1>5
  <1>6. QED
    BY <1>1, <1>2, <1>3, <1>4, <1>5 DEF Next, Step, Lapse, vars

LEMMA PaidStep == IInv /\ [Next]_vars => Paid'
  <1> SUFFICES ASSUME IInv, [Next]_vars PROVE Paid'
    OBVIOUS
  <1> USE DEF IInv
  <1>1. ASSUME NEW u \in Threads, Committed(u)' PROVE HomeKeySpent(presented[u])'
    <2>1. CASE ConsumeNonce(u)
      BY <1>1, <2>1, ConsumeSpends
    <2>2. CASE ~ConsumeNonce(u)
      <3>1. Committed(u) /\ presented'[u] = presented[u]
        BY <1>1, <2>2, CommittedBefore
      <3>2. presented[u] \in Receipts /\ HomeKeySpent(presented[u])
        BY <3>1, AtHome DEF Paid, HomeKeySpent, Committed
      <3>3. \A q \in Receipts : HomeKeySpent(q) => HomeKeySpent(q)'
        BY HomeKeyStaysSpent
      <3>4. ~Consumable(stores'[StoreOf[ReceiptInfo[presented'[u]].agent]], Key(presented'[u]))
        BY <3>1, <3>2, <3>3 DEF HomeKeySpent, HomeStore, Consumable, Key
      <3>5. QED
        BY <3>4 DEF HomeKeySpent, HomeStore, Consumable, Key
    <2>3. QED
      BY <2>1, <2>2
  <1>2. ASSUME NEW t \in Threads, NEW u \in Threads, Committed(t)', Committed(u)', t # u
        PROVE  presented'[t] # presented'[u]
    <2>1. CASE ConsumeNonce(t)
      <3>1. ~ConsumeNonce(u)
        BY <1>2, <2>1 DEF ConsumeNonce, Goto, Deny, Committed, TypeOK
      <3>2. Committed(u) /\ presented'[u] = presented[u] /\ presented'[t] = presented[t]
        BY <1>2, <2>1, <3>1, CommittedBefore DEF ConsumeNonce
      <3>3. HomeKeySpent(presented[u]) /\ ~HomeKeySpent(presented[t])
        BY <1>2, <2>1, <3>2, ConsumeSpends DEF Paid, HomeKeySpent
      <3>4. QED
        BY <3>2, <3>3
    <2>2. CASE ConsumeNonce(u)
      <3>1. ~ConsumeNonce(t)
        BY <1>2, <2>2 DEF ConsumeNonce, Goto, Deny, Committed, TypeOK
      <3>2. Committed(t) /\ presented'[u] = presented[u] /\ presented'[t] = presented[t]
        BY <1>2, <2>2, <3>1, CommittedBefore DEF ConsumeNonce
      <3>3. HomeKeySpent(presented[t]) /\ ~HomeKeySpent(presented[u])
        BY <1>2, <2>2, <3>2, ConsumeSpends DEF Paid, HomeKeySpent
      <3>4. QED
        BY <3>2, <3>3
    <2>3. CASE ~ConsumeNonce(t) /\ ~ConsumeNonce(u)
      BY <1>2, <2>3, CommittedBefore DEF Paid
    <2>4. QED
      BY <2>1, <2>2, <2>3
  <1>3. QED
    BY <1>1, <1>2 DEF Paid, HomeKeySpent

LEMMA SettledStep == IInv /\ [Next]_vars => Settled'
  <1> SUFFICES ASSUME IInv, [Next]_vars, NEW r \in Receipts
               PROVE  \/ dispatched'[r] = 0
                      \/ /\ dispatched'[r] = 1
                         /\ HomeKeySpent(r)'
                         /\ \A t \in Threads : Committed(t)' => presented'[t] # r
    BY DEF Settled, HomeKeySpent
  <1> USE DEF IInv
  <1>1. ASSUME NEW t \in Threads, Send(t), presented[t] = r
        PROVE  /\ dispatched'[r] = 1
               /\ HomeKeySpent(r)'
               /\ \A u \in Threads : Committed(u)' => presented'[u] # r
    <2>1. Committed(t) /\ HomeKeySpent(r)
      BY <1>1 DEF Send, Committed, Paid, HomeKeySpent
    <2>2. dispatched[r] = 0
      BY <1>1, <2>1 DEF Settled
    <2>3. dispatched'[r] = 1
      BY <1>1, <2>2 DEF Send, TypeOK
    <2>4. \A u \in Threads : Committed(u)' => u # t /\ Committed(u) /\ presented'[u] = presented[u]
      BY <1>1 DEF Send, Goto, Committed, TypeOK
    <2>5. QED
      BY <1>1, <2>1, <2>3, <2>4, HomeKeyStaysSpent DEF Paid
  <1>2. ASSUME ~ \E t \in Threads : Send(t) /\ presented[t] = r
        PROVE  dispatched'[r] = dispatched[r]
    BY <1>2
    DEF Next, Step, Call, Verify, CheckSeen, CheckScope, ConsumeNonce, MarkScope, Send,
        Die, Lapse, vars, Deny, TypeOK
  <1>3. ASSUME dispatched[r] = 1, dispatched'[r] = 1
        PROVE  HomeKeySpent(r)' /\ \A t \in Threads : Committed(t)' => presented'[t] # r
    <2>1. HomeKeySpent(r) /\ \A t \in Threads : Committed(t) => presented[t] # r
      BY <1>3 DEF Settled, HomeKeySpent
    <2>2. HomeKeySpent(r)'
      BY <2>1, HomeKeyStaysSpent
    <2>3. ASSUME NEW t \in Threads, Committed(t)' PROVE presented'[t] # r
      <3>1. CASE ConsumeNonce(t)
        <4>1. ~HomeKeySpent(presented[t]) /\ presented' = presented
          BY <2>3, <3>1, ConsumeSpends DEF HomeKeySpent, ConsumeNonce
        <4>2. QED
          BY <2>1, <4>1
      <3>2. CASE ~ConsumeNonce(t)
        BY <2>1, <2>3, <3>2, CommittedBefore
      <3>3. QED
        BY <3>1, <3>2
    <2>4. QED
      BY <2>2, <2>3
  <1>4. QED
    BY <1>1, <1>2, <1>3 DEF Settled

LEMMA IInvStep == IInv /\ [Next]_vars => IInv'
  BY TypeStep, CheckedStep, PaidStep, SettledStep DEF IInv

\* Every variable keeps its type, for any threads, agents, stores and receipts.
THEOREM TypeCorrect == Spec => []TypeOK
  <1>1. IInv => TypeOK
    BY DEF IInv
  <1>2. QED
    BY InitIInv, IInvStep, <1>1, PTL DEF Spec

\* No interleaving of halt() calls, on either kind of store, shared or not, and no
\* death of a caller makes one approval receipt good for two halts.
THEOREM ReceiptsAreSingleUse == Spec => ReceiptIsSingleUse
  <1>1. Init => Use!Init
    BY DEF Init, Use!Init
  <1>2. IInv /\ [Next]_vars => [Use!Next]_dispatched
    <2> SUFFICES ASSUME IInv, [Next]_vars, dispatched' # dispatched PROVE Use!Next
      OBVIOUS
    <2>1. PICK t \in Threads : Send(t)
      BY DEF Next, Step, Call, Verify, CheckSeen, CheckScope, ConsumeNonce, MarkScope,
             Die, Lapse, vars, Deny
    <2>2. Committed(t) /\ presented[t] \in Receipts
      BY <2>1, AtHome DEF Send, Committed, IInv
    <2>3. dispatched[presented[t]] = 0
      BY <2>2 DEF IInv, Settled
    <2>4. dispatched' = [dispatched EXCEPT ![presented[t]] = 1]
      BY <2>1, <2>3 DEF Send
    <2>5. QED
      BY <2>2, <2>3, <2>4 DEF Use!Next, Use!Act
  <1>3. QED
    BY InitIInv, IInvStep, <1>1, <1>2, PTL DEF Spec, ReceiptIsSingleUse, Use!Spec

LEMMA SpentForStays ==
  ASSUME IInv, [Next]_vars, NEW r \in Receipts, SpentFor(r)
  PROVE  SpentFor(r)'
  <1> USE DEF IInv, TypeOK, SpentFor, Goto, Deny
  <1>1. ASSUME NEW t \in Threads, NEW m \in Makers, NEW q \in Receipts \cup {NoReceipt},
               Call(t, m, q)
        PROVE  SpentFor(r)'
    BY <1>1 DEF Call
  <1>2. ASSUME NEW t \in Threads, Verify(t) \/ CheckSeen(t) \/ CheckScope(t) \/ ConsumeNonce(t)
        PROVE  SpentFor(r)'
    BY <1>2 DEF Verify, CheckSeen, CheckScope, ConsumeNonce
  <1>3. ASSUME NEW t \in Threads, MarkScope(t) PROVE SpentFor(r)'
    BY <1>3 DEF MarkScope
  <1>4. ASSUME NEW t \in Threads, Send(t) PROVE SpentFor(r)'
    <2>1. presented[t] \in Receipts /\ dispatched[presented[t]] = 0
      BY <1>4, AtHome DEF Send, Settled, Committed
    <2>2. QED
      BY <1>4, <2>1 DEF Send
  <1>5. ASSUME NEW t \in Threads, Die(t) PROVE SpentFor(r)'
    BY <1>5 DEF Die
  <1>6. CASE UNCHANGED <<pc, presented, dispatched, burnt>>
    BY <1>6
  <1>7. QED
    BY <1>1, <1>2, <1>3, <1>4, <1>5, <1>6 DEF Next, Step, Lapse, vars

\* A key a step spends is that of a receipt just committed; a marker it leaves is
\* left by a committed thread.
LEMMA NewlySpent ==
  ASSUME IInv, [Next]_vars, NEW n \in StoreNames, NEW r \in Receipts,
         Consumable(stores[n], Key(r)), ~Consumable(stores'[n], Key(r))
  PROVE  ReceiptInfo[r].humanKey /\ SpentFor(r)'
  <1> USE DEF IInv, TypeOK
  <1>0. stores' # stores
    BY DEF Consumable
  <1>1. PICK t \in Threads : ConsumeNonce(t) \/ MarkScope(t)
    BY <1>0 DEF Next, Step, Call, Verify, CheckSeen, CheckScope, Send, Die, Lapse, vars
  <1>2. /\ presented[t] \in Receipts /\ ReceiptInfo[presented[t]].humanKey
        /\ StoreIn(t) \in StoreNames /\ Store(t) = stores[StoreIn(t)]
        /\ Store(t) \in Stores(Keys)
    BY <1>1, AtHome DEF ConsumeNonce, MarkScope, Checked, Store
  <1>3. CASE MarkScope(t)
    <2>1. ~Consumable(Record(Store(t), MarkerKey(presented[t])), Key(r))
           => ~Consumable(Store(t), Key(r))
      BY <1>2, KeysDiffer, StoreOps
    <2>2. QED
      BY <1>2, <1>3, <2>1 DEF MarkScope, Consumable
  <1>4. CASE ConsumeNonce(t)
    <2>1. Consumable(Consume(Store(t), Key(presented[t])), Key(r))
           <=> Consumable(Store(t), Key(r)) /\ Key(r) # Key(presented[t])
      BY <1>2, KeysDiffer, StoreOps
    <2>2. presented[t] = r
      BY <1>0, <1>2, <1>4, <2>1, KeysDiffer DEF ConsumeNonce, Consumable
    <2>3. pc'[t] \in {"mark", "send"} /\ presented' = presented
      BY <1>0, <1>4 DEF ConsumeNonce, Goto
    <2>4. QED
      BY <1>2, <2>2, <2>3 DEF SpentFor
  <1>5. QED
    BY <1>1, <1>3, <1>4

LEMMA NewlyMarked ==
  ASSUME IInv, [Next]_vars, NEW n \in StoreNames, NEW run \in Runs,
         ~Seen(stores[n], <<run, Marker>>), Seen(stores'[n], <<run, Marker>>)
  PROVE  \E r \in Receipts :
           IsNextAction(r) /\ ReceiptInfo[r].run = run /\ SpentFor(r)'
  <1> USE DEF IInv, TypeOK
  <1>0. stores' # stores /\ <<run, Marker>> \in Keys
    BY DEF Seen, Keys
  <1>1. PICK t \in Threads : ConsumeNonce(t) \/ MarkScope(t)
    BY <1>0 DEF Next, Step, Call, Verify, CheckSeen, CheckScope, Send, Die, Lapse, vars
  <1>2. /\ presented[t] \in Receipts
        /\ StoreIn(t) \in StoreNames /\ Store(t) = stores[StoreIn(t)]
        /\ Store(t) \in Stores(Keys)
    BY <1>1, AtHome DEF ConsumeNonce, MarkScope, Store
  <1>3. CASE ConsumeNonce(t)
    <2>1. Seen(Consume(Store(t), Key(presented[t])), <<run, Marker>>)
           => Seen(Store(t), <<run, Marker>>)
      BY <1>0, <1>2, KeysDiffer, StoreOps
    <2>2. QED
      BY <1>0, <1>2, <1>3, <2>1 DEF ConsumeNonce, Seen
  <1>4. CASE MarkScope(t)
    <2>1. Seen(Record(Store(t), MarkerKey(presented[t])), <<run, Marker>>)
           <=> Seen(Store(t), <<run, Marker>>) \/ <<run, Marker>> = MarkerKey(presented[t])
      BY <1>0, <1>2, KeysDiffer, StoreOps
    <2>2. ReceiptInfo[presented[t]].run = run
      BY <1>2, <1>4, <2>1 DEF MarkScope, Seen, MarkerKey
    <2>3. pc'[t] = "send" /\ presented' = presented /\ IsNextAction(presented[t])
      BY <1>4 DEF MarkScope, Goto, Checked
    <2>4. QED
      BY <1>2, <2>2, <2>3 DEF SpentFor
  <1>5. QED
    BY <1>1, <1>3, <1>4

\* A refused call leaves the receipt and its run's next-action allowance as good as
\* they were: what is spent was spent for a halt that is sent, is about to be, or
\* died with its caller.
THEOREM RefusalsBurnNothing == Spec => []RefusalBurnsNothing
  <1>1. Init => RefusalBurnsNothing
    BY DEF Init, RefusalBurnsNothing, EmptyStore, Consumable, Seen
  <1>2. IInv /\ [Next]_vars /\ RefusalBurnsNothing => RefusalBurnsNothing'
    <2> SUFFICES ASSUME IInv, [Next]_vars, RefusalBurnsNothing, NEW n \in StoreNames
                 PROVE  /\ \A r \in Receipts : ~Consumable(stores'[n], Key(r)) =>
                             ReceiptInfo[r].humanKey /\ SpentFor(r)'
                        /\ \A run \in Runs : Seen(stores'[n], <<run, Marker>>) =>
                             \E r \in Receipts : /\ IsNextAction(r)
                                                 /\ ReceiptInfo[r].run = run
                                                 /\ SpentFor(r)'
      BY DEF RefusalBurnsNothing, Consumable, Seen, Key, IsNextAction
    <2>1. ASSUME NEW r \in Receipts, ~Consumable(stores'[n], Key(r))
          PROVE  ReceiptInfo[r].humanKey /\ SpentFor(r)'
      BY <2>1, NewlySpent, SpentForStays DEF RefusalBurnsNothing
    <2>2. ASSUME NEW run \in Runs, Seen(stores'[n], <<run, Marker>>)
          PROVE  \E r \in Receipts :
                   IsNextAction(r) /\ ReceiptInfo[r].run = run /\ SpentFor(r)'
      <3>1. CASE Seen(stores[n], <<run, Marker>>)
        BY <3>1, SpentForStays DEF RefusalBurnsNothing
      <3>2. CASE ~Seen(stores[n], <<run, Marker>>)
        BY <2>2, <3>2, NewlyMarked
      <3>3. QED
        BY <3>1, <3>2
    <2>3. QED
      BY <2>1, <2>2
  <1>3. QED
    BY InitIInv, IInvStep, <1>1, <1>2, PTL DEF Spec

(***************************************************************************)
(* Scope next-action: one halt per run and nonce store, but for calls that *)
(* overlap between the look for the marker and the mark.                   *)
(***************************************************************************)
Home(r) == StoreOf[ReceiptInfo[r].agent]

\* Receipts that draw on one allowance: of one run, for agents on one store.
SameAllowance(q, r) ==
  /\ IsNextAction(q) /\ IsNextAction(r)
  /\ ReceiptInfo[q].run = ReceiptInfo[r].run
  /\ Home(q) = Home(r)

\* Two calls that have both found the allowance unspent, and not marked it yet.
Overlap ==
  \E t, u \in Threads :
    /\ t # u
    /\ pc[t] \in {"consume", "mark"} /\ pc[u] \in {"consume", "mark"}
    /\ SameAllowance(presented[t], presented[u])

OneNextActionPerAllowance ==
  \A r, q \in Receipts :
    SameAllowance(r, q) /\ dispatched[r] > 0 /\ dispatched[q] > 0 => r = q

\* A sent next-action halt left its run's marker; a call that passed CheckScope has
\* the run to itself until it marks it, and then until it sends.
Allowance ==
  /\ \A r \in Receipts :
       IsNextAction(r) /\ dispatched[r] > 0 => Seen(HomeStore(r), MarkerKey(r))
  /\ \A t \in Threads :
       pc[t] \in {"consume", "mark"} /\ IsNextAction(presented[t]) =>
         ~Seen(HomeStore(presented[t]), MarkerKey(presented[t]))
  /\ \A t \in Threads :
       pc[t] = "send" /\ IsNextAction(presented[t]) =>
         /\ Seen(HomeStore(presented[t]), MarkerKey(presented[t]))
         /\ \A q \in Receipts : SameAllowance(q, presented[t]) => dispatched[q] = 0
         /\ \A u \in Threads :
              pc[u] = "send" /\ SameAllowance(presented[u], presented[t]) => u = t

LEMMA StoreGrows ==
  ASSUME IInv, [Next]_vars, NEW r \in Receipts, Seen(HomeStore(r), MarkerKey(r))
  PROVE  Seen(stores'[StoreOf[ReceiptInfo[r].agent]], MarkerKey(r))
  <1> USE DEF IInv, TypeOK
  <1>1. CASE stores' = stores
    BY <1>1 DEF Seen, HomeStore
  <1>2. CASE stores' # stores
    <2>1. PICK t \in Threads : ConsumeNonce(t) \/ MarkScope(t)
      BY <1>2 DEF Next, Step, Call, Verify, CheckSeen, CheckScope, Send, Die, Lapse, vars
    <2>2. /\ presented[t] \in Receipts /\ StoreIn(t) \in StoreNames
          /\ Store(t) = stores[StoreIn(t)] /\ Store(t) \in Stores(Keys)
      BY <2>1, AtHome DEF ConsumeNonce, MarkScope, Store
    <2>3. /\ Seen(Store(t), MarkerKey(r))
               => Seen(Consume(Store(t), Key(presented[t])), MarkerKey(r))
          /\ Seen(Store(t), MarkerKey(r))
               => Seen(Record(Store(t), MarkerKey(presented[t])), MarkerKey(r))
      BY <2>2, KeysDiffer, StoreOps
    <2>0. StoreOf[ReceiptInfo[r].agent] \in StoreNames
      BY HaltAssumption DEF Info
    <2>4. CASE ConsumeNonce(t)
      BY <1>2, <2>0, <2>2, <2>3, <2>4 DEF ConsumeNonce, HomeStore, Seen
    <2>5. CASE MarkScope(t)
      BY <2>0, <2>2, <2>3, <2>5 DEF MarkScope, HomeStore, Seen
    <2>6. QED
      BY <2>1, <2>4, <2>5
  <1>3. QED
    BY <1>1, <1>2

\* Only the mark of the same allowance is a run's marker in its store.
LEMMA MarkedBySame ==
  ASSUME IInv, [Next]_vars, NEW r \in Receipts, ~Seen(stores[Home(r)], MarkerKey(r)),
         Seen(stores'[Home(r)], MarkerKey(r))
  PROVE  \E t \in Threads :
           /\ MarkScope(t) /\ presented[t] \in Receipts /\ IsNextAction(presented[t])
           /\ ReceiptInfo[presented[t]].run = ReceiptInfo[r].run
           /\ Home(presented[t]) = Home(r)
  <1> USE DEF IInv, TypeOK
  <1>1. PICK t \in Threads : ConsumeNonce(t) \/ MarkScope(t)
    BY DEF Next, Step, Call, Verify, CheckSeen, CheckScope, Send, Die, Lapse, vars, Seen
  <1>2. /\ presented[t] \in Receipts /\ StoreIn(t) \in StoreNames
        /\ Store(t) = stores[StoreIn(t)] /\ Store(t) \in Stores(Keys)
        /\ StoreIn(t) = Home(presented[t])
    BY <1>1, AtHome DEF ConsumeNonce, MarkScope, Store, Home
  <1>3. Home(r) \in StoreNames
    BY HaltAssumption DEF Info, Home
  <1>4. CASE ConsumeNonce(t)
    <2>1. Seen(Consume(Store(t), Key(presented[t])), MarkerKey(r)) => Seen(Store(t), MarkerKey(r))
      BY <1>2, KeysDiffer, StoreOps
    <2>2. QED
      BY <1>2, <1>3, <1>4, <2>1 DEF ConsumeNonce, Seen
  <1>5. CASE MarkScope(t)
    <2>1. Seen(Record(Store(t), MarkerKey(presented[t])), MarkerKey(r))
            => Seen(Store(t), MarkerKey(r)) \/ MarkerKey(r) = MarkerKey(presented[t])
      BY <1>2, KeysDiffer, StoreOps
    <2>2. Home(r) = StoreIn(t) /\ MarkerKey(r) = MarkerKey(presented[t])
      BY <1>2, <1>3, <1>5, <2>1 DEF MarkScope, Seen
    <2>3. QED
      BY <1>2, <1>5, <2>2 DEF MarkScope, Checked, MarkerKey
  <1>6. QED
    BY <1>1, <1>4, <1>5

\* Where a thread stands after a step, it came to from where it stood.
LEMMA CameFrom ==
  ASSUME IInv, [Next]_vars, NEW t \in Threads
  PROVE  /\ pc'[t] \in {"consume", "mark"} =>
              \/ CheckScope(t)
              \/ pc[t] \in {"consume", "mark"} /\ presented'[t] = presented[t]
         /\ pc'[t] = "send" /\ IsNextAction(presented'[t]) =>
              \/ MarkScope(t)
              \/ pc[t] = "send" /\ presented'[t] = presented[t]
  <1> USE DEF IInv, TypeOK, Goto, Deny
  <1>1. ASSUME NEW u \in Threads, Step(u), u = t
        PROVE  /\ pc'[t] \in {"consume", "mark"} =>
                    \/ CheckScope(t)
                    \/ pc[t] \in {"consume", "mark"} /\ presented'[t] = presented[t]
               /\ pc'[t] = "send" /\ IsNextAction(presented'[t]) => MarkScope(t)
    BY <1>1 DEF Step, Verify, CheckSeen, ConsumeNonce, MarkScope, CheckScope, Send, IsNextAction
  <1>2. ASSUME NEW u \in Threads, Step(u), u # t
        PROVE  pc'[t] = pc[t] /\ presented'[t] = presented[t]
    BY <1>2 DEF Step, Verify, CheckSeen, CheckScope, ConsumeNonce, MarkScope, Send
  <1>3. ASSUME NEW u \in Threads, NEW m \in Makers, NEW r \in Receipts \cup {NoReceipt},
               Call(u, m, r)
        PROVE  pc'[t] \in {"consume", "mark", "send"} =>
                 pc'[t] = pc[t] /\ presented'[t] = presented[t]
    BY <1>3 DEF Call
  <1>4. ASSUME NEW u \in Threads, Die(u)
        PROVE  pc'[t] \in {"consume", "mark", "send"} =>
                 pc'[t] = pc[t] /\ presented'[t] = presented[t]
    BY <1>4 DEF Die
  <1>5. CASE UNCHANGED <<pc, presented>>
    BY <1>5
  <1>6. QED
    BY <1>1, <1>2, <1>3, <1>4, <1>5 DEF Next, Lapse, vars

LEMMA AllowanceStep ==
  ASSUME ~Overlap, IInv, Allowance, [Next]_vars
  PROVE  Allowance'
  <1> USE DEF IInv, TypeOK
  <1>1. ASSUME NEW r \in Receipts, IsNextAction(r), dispatched'[r] > 0
        PROVE  Seen(stores'[Home(r)], MarkerKey(r))
    <2>1. CASE dispatched[r] > 0
      BY <1>1, <2>1, StoreGrows DEF Allowance, Home
    <2>2. CASE ~(dispatched[r] > 0)
      <3>1. PICK t \in Threads : Send(t)
        BY <1>1, <2>2 DEF Next, Step, Call, Verify, CheckSeen, CheckScope, ConsumeNonce,
             MarkScope, Die, Lapse, vars, Deny
      <3>2. presented[t] = r
        BY <1>1, <2>2, <3>1 DEF Send
      <3>3. QED
        BY <1>1, <3>1, <3>2, StoreGrows DEF Send, Allowance, Home
    <2>3. QED
      BY <2>1, <2>2
  <1>2. ASSUME NEW t \in Threads, pc'[t] \in {"consume", "mark"}, IsNextAction(presented'[t])
        PROVE  ~Seen(stores'[Home(presented'[t])], MarkerKey(presented'[t]))
    <2>1. CASE CheckScope(t)
      BY <1>2, <2>1, AtHome DEF CheckScope, HomeStore, Home, Seen, MarkerKey, Goto, Deny
    <2>2. CASE pc[t] \in {"consume", "mark"} /\ presented'[t] = presented[t]
      <3>1. presented[t] \in Receipts
        BY <2>2, AtHome
      <3>2. ~Seen(stores[Home(presented[t])], MarkerKey(presented[t]))
        BY <1>2, <2>2 DEF Allowance, HomeStore, Home
      <3>3. SUFFICES ASSUME Seen(stores'[Home(presented[t])], MarkerKey(presented[t]))
                     PROVE  FALSE
        BY <2>2
      <3>4. PICK u \in Threads :
              /\ MarkScope(u) /\ presented[u] \in Receipts /\ IsNextAction(presented[u])
              /\ ReceiptInfo[presented[u]].run = ReceiptInfo[presented[t]].run
              /\ Home(presented[u]) = Home(presented[t])
        BY <3>1, <3>2, <3>3, MarkedBySame
      <3>5. u # t
        BY <1>2, <3>4 DEF MarkScope, Goto
      <3>6. QED
        BY <1>2, <2>2, <3>4, <3>5 DEF Overlap, SameAllowance, MarkScope
    <2>3. QED
      BY <1>2, <2>1, <2>2, CameFrom
  <1>3. ASSUME NEW t \in Threads, pc'[t] = "send", IsNextAction(presented'[t])
        PROVE  /\ Seen(stores'[Home(presented'[t])], MarkerKey(presented'[t]))
               /\ \A q \in Receipts : SameAllowance(q, presented'[t]) => dispatched'[q] = 0
               /\ \A u \in Threads :
                    pc'[u] = "send" /\ SameAllowance(presented'[u], presented'[t]) => u = t
    <2>1. CASE MarkScope(t)
      <3>1. /\ presented[t] \in Receipts /\ StoreIn(t) \in StoreNames
            /\ Store(t) = stores[StoreIn(t)] /\ Store(t) \in Stores(Keys)
            /\ Store(t) = HomeStore(presented[t]) /\ StoreIn(t) = Home(presented[t])
        BY <2>1, AtHome DEF MarkScope, Store, Home
      <3>2. Seen(Record(Store(t), MarkerKey(presented[t])), MarkerKey(presented[t]))
        BY <3>1, KeysDiffer, StoreOps
      <3>3. ~Seen(Store(t), MarkerKey(presented[t]))
        BY <1>3, <2>1, <3>1 DEF MarkScope, Allowance
      <3>4. ASSUME NEW q \in Receipts, SameAllowance(q, presented[t])
            PROVE  HomeStore(q) = Store(t) /\ MarkerKey(q) = MarkerKey(presented[t])
        BY <3>1, <3>4 DEF HomeStore, Home, SameAllowance, MarkerKey
      <3>5. ASSUME NEW q \in Receipts, SameAllowance(q, presented[t])
            PROVE  dispatched[q] = 0
        BY <3>3, <3>4, <3>5 DEF Allowance, SameAllowance
      <3>6. ASSUME NEW u \in Threads, pc'[u] = "send", u # t,
                   SameAllowance(presented'[u], presented'[t])
            PROVE  FALSE
        <4>1. pc[u] = "send" /\ presented' = presented
          BY <2>1, <3>6 DEF MarkScope, Goto
        <4>2. presented[u] \in Receipts
          BY <4>1, AtHome
        <4>3. Seen(HomeStore(presented[u]), MarkerKey(presented[u]))
          BY <3>6, <4>1 DEF Allowance, SameAllowance
        <4>4. QED
          BY <3>3, <3>4, <3>6, <4>1, <4>2, <4>3
      <3>7. QED
        BY <2>1, <3>1, <3>2, <3>5, <3>6 DEF MarkScope, Seen
    <2>2. CASE pc[t] = "send" /\ presented'[t] = presented[t] /\ ~MarkScope(t)
      <3>1. presented[t] \in Receipts
        BY <2>2, AtHome
      <3>2. /\ Seen(HomeStore(presented[t]), MarkerKey(presented[t]))
            /\ \A q \in Receipts : SameAllowance(q, presented[t]) => dispatched[q] = 0
            /\ \A u \in Threads :
                 pc[u] = "send" /\ SameAllowance(presented[u], presented[t]) => u = t
        BY <1>3, <2>2 DEF Allowance
      <3>3. Seen(stores'[Home(presented[t])], MarkerKey(presented[t]))
        BY <3>1, <3>2, StoreGrows DEF Home
      <3>4. ASSUME NEW q \in Receipts, SameAllowance(q, presented[t])
            PROVE  dispatched'[q] = 0
        <4>1. CASE dispatched'[q] = dispatched[q]
          BY <3>2, <3>4, <4>1
        <4>2. CASE dispatched'[q] # dispatched[q]
          <5>1. PICK u \in Threads : Send(u)
            BY <4>2 DEF Next, Step, Call, Verify, CheckSeen, CheckScope, ConsumeNonce,
                 MarkScope, Die, Lapse, vars, Deny
          <5>2. presented[u] = q /\ pc[u] = "send" /\ pc'[u] = "idle"
            BY <4>2, <5>1 DEF Send, Goto
          <5>3. u = t
            BY <3>2, <3>4, <5>2
          <5>4. QED
            BY <1>3, <5>2, <5>3
        <4>3. QED
          BY <4>1, <4>2
      <3>5. ASSUME NEW u \in Threads, pc'[u] = "send",
                   SameAllowance(presented'[u], presented[t])
            PROVE  u = t
        <4>1. CASE pc[u] = "send" /\ presented'[u] = presented[u]
          BY <3>2, <3>5, <4>1
        <4>2. CASE MarkScope(u)
          <5>1. presented[u] \in Receipts /\ presented' = presented
            BY <4>2, AtHome DEF MarkScope
          <5>2. ~Seen(HomeStore(presented[u]), MarkerKey(presented[u]))
            BY <3>5, <4>2, <5>1 DEF MarkScope, Allowance, SameAllowance
          <5>3. /\ HomeStore(presented[u]) = HomeStore(presented[t])
                /\ MarkerKey(presented[u]) = MarkerKey(presented[t])
            BY <3>5, <5>1 DEF HomeStore, Home, SameAllowance, MarkerKey
          <5>4. QED
            BY <3>2, <5>2, <5>3
        <4>3. QED
          BY <3>5, <4>1, <4>2, CameFrom DEF SameAllowance
      <3>6. QED
        BY <2>2, <3>3, <3>4, <3>5
    <2>3. QED
      BY <1>3, <2>1, <2>2, CameFrom
  <1>4. QED
    BY <1>1, <1>2, <1>3
    DEF Allowance, HomeStore, Home, Seen, MarkerKey, IsNextAction, SameAllowance

LEMMA AllowanceKept ==
  /\ Init => Allowance /\ OneNextActionPerAllowance
  /\ IInv /\ ~Overlap /\ Allowance /\ OneNextActionPerAllowance /\ [Next]_vars
       => Allowance' /\ OneNextActionPerAllowance'
  <1>1. Init => Allowance /\ OneNextActionPerAllowance
    BY DEF Init, Allowance, OneNextActionPerAllowance
  <1>2. ASSUME IInv, ~Overlap, Allowance, OneNextActionPerAllowance, [Next]_vars
        PROVE  OneNextActionPerAllowance'
    <2>1. CASE dispatched' = dispatched
      BY <1>2, <2>1 DEF OneNextActionPerAllowance, SameAllowance, IsNextAction, Home
    <2>2. CASE dispatched' # dispatched
      <3>1. PICK t \in Threads : Send(t)
        BY <1>2, <2>2 DEF Next, Step, Call, Verify, CheckSeen, CheckScope, ConsumeNonce,
             MarkScope, Die, Lapse, vars, Deny
      <3>2. /\ presented[t] \in Receipts
            /\ \A q \in Receipts : SameAllowance(q, presented[t]) => dispatched[q] = 0
            /\ dispatched' = [dispatched EXCEPT ![presented[t]] = @ + 1]
        BY <1>2, <3>1, AtHome DEF Send, Allowance, SameAllowance, IInv
      <3>3. ASSUME NEW r \in Receipts, NEW q \in Receipts, SameAllowance(r, q),
                   dispatched'[r] > 0, dispatched'[q] > 0, r # q
            PROVE  FALSE
        <4>1. CASE presented[t] \notin {r, q}
          BY <1>2, <3>2, <3>3, <4>1 DEF OneNextActionPerAllowance, IInv, TypeOK
        <4>2. CASE presented[t] \in {r, q}
          BY <1>2, <3>2, <3>3, <4>2 DEF SameAllowance, IInv, TypeOK
        <4>3. QED
          BY <4>1, <4>2
      <3>4. QED
        BY <3>3 DEF OneNextActionPerAllowance, SameAllowance, IsNextAction, Home
    <2>3. QED
      BY <2>1, <2>2
  <1>3. QED
    BY <1>1, <1>2, AllowanceStep

\* The rule "exactly one halt per run" breaks in one way only: two calls stand together
\* between the look for the marker and the mark.  Whatever else overlaps, dies or
\* lapses, the next-action receipts of a run yield one halt between them, in each
\* nonce store; agents on stores of their own do not see each other's markers.
THEOREM OnlyOverlapsBreakTheAllowance ==
  Spec /\ []~Overlap => []OneNextActionPerAllowance
  BY InitIInv, IInvStep, AllowanceKept, PTL DEF Spec

Serial == \A t, u \in Threads : t = u
Shared == \A a, b \in Agents : StoreOf[a] = StoreOf[b]

\* With one call at a time and one store for all agents, a run's next-action
\* receipts yield one halt between them: what the rule needs and the code leaves
\* to its deployment.
THEOREM NextActionHoldsSerially ==
  ASSUME Serial, Shared
  PROVE  Spec => []OneNextActionPerRun
  <1>1. ~Overlap
    BY DEF Serial, Overlap
  <1>2. OneNextActionPerAllowance => OneNextActionPerRun
    BY HaltAssumption
    DEF Shared, OneNextActionPerAllowance, OneNextActionPerRun, SameAllowance, Home, Info
  <1>3. QED
    BY <1>1, <1>2, InitIInv, IInvStep, AllowanceKept, PTL DEF Spec

\* A sent next-action halt, and one about to be sent, left its run's marker.
MarkLeft ==
  /\ \A r \in Receipts :
       IsNextAction(r) /\ dispatched[r] > 0 => Seen(HomeStore(r), MarkerKey(r))
  /\ \A t \in Threads :
       pc[t] = "send" /\ IsNextAction(presented[t]) =>
         Seen(HomeStore(presented[t]), MarkerKey(presented[t]))

LEMMA MarkLeftStep ==
  ASSUME IInv, MarkLeft, [Next]_vars
  PROVE  MarkLeft'
  <1> USE DEF IInv, TypeOK, Goto, Deny
  <1> USE DEF Home
  <1>1. ASSUME NEW r \in Receipts, IsNextAction(r), dispatched'[r] > 0
        PROVE  Seen(stores'[Home(r)], MarkerKey(r))
    <2>1. CASE dispatched[r] > 0
      BY <1>1, <2>1, StoreGrows DEF MarkLeft
    <2>2. CASE ~(dispatched[r] > 0)
      <3>1. PICK t \in Threads : Send(t)
        BY <1>1, <2>2 DEF Next, Step, Call, Verify, CheckSeen, CheckScope, ConsumeNonce,
             MarkScope, Die, Lapse, vars
      <3>2. presented[t] = r
        BY <1>1, <2>2, <3>1 DEF Send
      <3>3. QED
        BY <1>1, <3>1, <3>2, StoreGrows DEF Send, MarkLeft
    <2>3. QED
      BY <2>1, <2>2
  <1>2. ASSUME NEW t \in Threads, pc'[t] = "send", IsNextAction(presented'[t])
        PROVE  Seen(stores'[Home(presented'[t])], MarkerKey(presented'[t]))
    <2>1. CASE MarkScope(t)
      <3>1. /\ presented[t] \in Receipts /\ StoreIn(t) \in StoreNames
            /\ Store(t) = stores[StoreIn(t)] /\ Store(t) \in Stores(Keys)
            /\ StoreIn(t) = Home(presented[t])
        BY <2>1, AtHome DEF MarkScope, Store
      <3>2. Seen(Record(Store(t), MarkerKey(presented[t])), MarkerKey(presented[t]))
        BY <3>1, KeysDiffer, StoreOps
      <3>3. QED
        BY <2>1, <3>1, <3>2 DEF MarkScope, Seen
    <2>2. CASE pc[t] = "send" /\ presented'[t] = presented[t]
      <3>1. presented[t] \in Receipts
        BY <2>2, AtHome
      <3>2. Seen(HomeStore(presented[t]), MarkerKey(presented[t]))
        BY <1>2, <2>2 DEF MarkLeft
      <3>3. QED
        BY <2>2, <3>1, <3>2, StoreGrows
    <2>3. MarkScope(t) \/ (pc[t] = "send" /\ presented'[t] = presented[t])
      <3>1. ASSUME NEW u \in Threads, Step(u)
            PROVE  MarkScope(t) \/ (pc[t] = "send" /\ presented'[t] = presented[t])
        <4>1. CASE u = t
          BY <1>2, <3>1, <4>1
          DEF Step, Verify, CheckSeen, CheckScope, ConsumeNonce, Send, IsNextAction
        <4>2. CASE u # t
          BY <1>2, <3>1, <4>2
          DEF Step, Verify, CheckSeen, CheckScope, ConsumeNonce, MarkScope, Send
        <4>3. QED
          BY <4>1, <4>2
      <3>2. ASSUME NEW u \in Threads,
                   Die(u) \/ \E m \in Makers, r \in Receipts \cup {NoReceipt} : Call(u, m, r)
            PROVE  pc[t] = "send" /\ presented'[t] = presented[t]
        BY <1>2, <3>2 DEF Die, Call
      <3>3. CASE UNCHANGED <<pc, presented>>
        BY <1>2, <3>3
      <3>4. QED
        BY <3>1, <3>2, <3>3 DEF Next, Lapse, vars
    <2>4. QED
      BY <2>1, <2>2, <2>3
  <1>3. QED
    BY <1>1, <1>2 DEF MarkLeft, HomeStore, Seen, MarkerKey, IsNextAction

\* Where the agents share a store, a run's next-action allowance is broken only by
\* calls that overlap: once a next-action halt was sent, no other passes the check.
THEOREM SentHaltsLeaveTheMark ==
  ASSUME Shared
  PROVE  Spec => LaterCallsFindTheMark
  <1> DEFINE Barred == \A t \in Threads, r \in Receipts :
                         /\ pc[t] = "scope" /\ pc'[t] = "consume"
                         /\ IsNextAction(presented[t])
                         /\ IsNextAction(r) /\ dispatched[r] > 0
                         => ReceiptInfo[r].run # ReceiptInfo[presented[t]].run
  <1>1. Init => MarkLeft
    BY DEF Init, MarkLeft
  <1>2. IInv /\ MarkLeft /\ [Next]_vars => [Barred]_vars
    <2> SUFFICES ASSUME IInv, MarkLeft, Next, NEW t \in Threads, NEW r \in Receipts,
                        pc[t] = "scope", pc'[t] = "consume", IsNextAction(presented[t]),
                        IsNextAction(r), dispatched[r] > 0,
                        ReceiptInfo[r].run = ReceiptInfo[presented[t]].run
                 PROVE  FALSE
      OBVIOUS
    <2>1. CheckScope(t)
      BY DEF Next, Step, Call, Verify, CheckSeen, CheckScope, ConsumeNonce, MarkScope, Send,
             Die, Lapse, Goto, Deny, IInv, TypeOK
    <2>2. ~Seen(Store(t), MarkerKey(presented[t]))
      BY <2>1 DEF CheckScope, Goto, Deny, IInv, TypeOK
    <2>3. HomeStore(r) = Store(t) /\ MarkerKey(r) = MarkerKey(presented[t])
      BY AtHome, HaltAssumption DEF Shared, HomeStore, MarkerKey, Info, IInv
    <2>4. QED
      BY <2>2, <2>3 DEF MarkLeft
  <1>3. IInv /\ MarkLeft /\ [Next]_vars => MarkLeft'
    BY MarkLeftStep
  <1>4. QED
    BY InitIInv, IInvStep, <1>1, <1>2, <1>3, PTL DEF Spec, LaterCallsFindTheMark

================================================================================
