----------------------------- MODULE HaltApproval -----------------------------
(***************************************************************************)
(* ComplianceAgent.halt in authenticated mode, with                        *)
(* _verify_halt_approval taken step by step (a2a_compliance/channel.py).   *)
(*                                                                         *)
(* Threads present human approval receipts; a thread belongs to a          *)
(* compliance agent and an agent has a nonce store, its own by default or  *)
(* one it shares.  A thread may die between any two steps.                 *)
(***************************************************************************)
EXTENDS Naturals, NonceStore

CONSTANTS
  Threads,       \* callers of halt()
  Agents,        \* compliance agents, by session id
  AgentOf,       \* AgentOf[t]: the agent thread t calls halt() on
  StoreNames, StoreOf,   \* StoreOf[a]: the nonce store agent a was given
  Makers,
  Receipts,      \* the human approval receipts in circulation
  ReceiptInfo,   \* what each of them says, see Info
  Runs,
  Overseen,      \* pairs <<agent, maker>> that authorize() allows to halt
  Lapsing,       \* the receipts that may expire or be revoked
  Marker,        \* __halt:next-action-scope-used__, the per-run marker nonce
  NoReceipt,
  MaxCalls,      \* bound: how many halt() calls are made
  MaxDeaths      \* bound: how many of them die halfway

\* A receipt names its run, its scope, the halt it approves (sender and maker,
\* the fields of halt_digest), the identity its key is bound to, and whether
\* that key is bound to the human role and to the approver it names.
Info == [run : Runs, scope : {"next-action", "session", "other"},
         agent : Agents, maker : Makers, approver : Agents \cup Makers \cup {"human"},
         humanKey : BOOLEAN]

ASSUME HaltAssumption ==
  /\ Makers # {}
  /\ AgentOf \in [Threads -> Agents]
  /\ StoreOf \in [Agents -> StoreNames]
  /\ ReceiptInfo \in [Receipts -> Info]
  /\ Overseen \subseteq Agents \X Makers
  /\ Lapsing \subseteq Receipts
  /\ Marker \notin Receipts
  /\ NoReceipt \notin Receipts
  /\ MaxCalls \in Nat /\ MaxDeaths \in Nat

VARIABLES
  pc,          \* pc[t]: the check thread t is about to make
  presented,   \* presented[t]: the receipt of its current or last call
  target,      \* target[t]: the maker of its current or last call
  outcome,     \* outcome[t]: how its last call ended
  stores,      \* the nonce stores
  lapsed,      \* receipts that have expired or been revoked
  calls,       \* calls made so far
  deaths,      \* calls that died halfway so far
  dispatched,  \* history: dispatched[r], halts sent on the strength of r
  burnt        \* history: receipts consumed by a call that then died

vars == <<pc, presented, target, outcome, stores, lapsed, calls, deaths, dispatched, burnt>>

\* A receipt has a nonce of its own: the key of the receipt, and that of a run's
\* marker.  Both are (run_id, nonce) pairs in the store.
Key(r) == <<ReceiptInfo[r].run, r>>
\* Mutant of MarkerKey: run and nonce swapped.
MarkerKeySwapped(r) == <<Marker, ReceiptInfo[r].run>>

MarkerKey(r) == <<ReceiptInfo[r].run, Marker>>
Keys == Runs \X (Receipts \cup {Marker})

StoreIn(t) == StoreOf[AgentOf[t]]
Store(t) == stores[StoreIn(t)]

Init ==
  /\ pc = [t \in Threads |-> "idle"]
  /\ presented = [t \in Threads |-> NoReceipt]
  /\ target = [t \in Threads |-> CHOOSE m \in Makers : TRUE]
  /\ outcome = [t \in Threads |-> "none"]
  /\ stores = [n \in StoreNames |-> EmptyStore]
  /\ lapsed = {}
  /\ calls = 0
  /\ deaths = 0
  /\ dispatched = [r \in Receipts |-> 0]
  /\ burnt = {}
--------------------------------------------------------------------------------
Goto(t, label) == pc' = [pc EXCEPT ![t] = label]

\* The call returns without a dispatch, giving a reason.
Deny(t, reason) ==
  /\ Goto(t, "idle")
  /\ outcome' = [outcome EXCEPT ![t] = reason]

\* halt(maker, approval): role authority comes first.
Call(t, m, r) ==
  /\ pc[t] = "idle"
  /\ calls < MaxCalls
  /\ calls' = calls + 1
  /\ presented' = [presented EXCEPT ![t] = r]
  /\ target' = [target EXCEPT ![t] = m]
  /\ IF <<AgentOf[t], m>> \in Overseen
     THEN Goto(t, "verify") /\ outcome' = [outcome EXCEPT ![t] = "none"]
     ELSE Deny(t, "unauthorized")
  /\ UNCHANGED <<stores, lapsed, deaths, dispatched, burnt>>

\* verify_human_approval, then the digest, approver and scope checks.
Acceptable(t, r) ==
  /\ r # NoReceipt
  /\ ReceiptInfo[r].humanKey
  /\ r \notin lapsed
  /\ ReceiptInfo[r].approver # AgentOf[t]
  /\ ReceiptInfo[r].agent = AgentOf[t] /\ ReceiptInfo[r].maker = target[t]
  /\ ReceiptInfo[r].approver # target[t]
  /\ ReceiptInfo[r].scope \in {"next-action", "session"}

Verify(t) ==
  /\ pc[t] = "verify"
  /\ IF Acceptable(t, presented[t])
     THEN Goto(t, "seen") /\ UNCHANGED outcome
     ELSE Deny(t, "unverified")
  /\ UNCHANGED <<presented, target, stores, lapsed, calls, deaths, dispatched, burnt>>

CheckSeen(t) ==
  /\ pc[t] = "seen"
  /\ IF Seen(Store(t), Key(presented[t]))
     THEN Deny(t, "already-used")
     ELSE Goto(t, "scope") /\ UNCHANGED outcome
  /\ UNCHANGED <<presented, target, stores, lapsed, calls, deaths, dispatched, burnt>>

IsNextAction(r) == ReceiptInfo[r].scope = "next-action"

\* Mutant of CheckScope: the nonce is consumed before the refusal.
CheckScopeBurns(t) ==
  /\ pc[t] = "scope"
  /\ IF IsNextAction(presented[t]) /\ Seen(Store(t), MarkerKey(presented[t]))
     THEN /\ Deny(t, "scope-used")
          /\ stores' = [stores EXCEPT ![StoreIn(t)] = Consume(@, Key(presented[t]))]
     ELSE Goto(t, "consume") /\ UNCHANGED <<outcome, stores>>
  /\ UNCHANGED <<presented, target, lapsed, calls, deaths, dispatched, burnt>>

CheckScope(t) ==
  /\ pc[t] = "scope"
  /\ IF IsNextAction(presented[t]) /\ Seen(Store(t), MarkerKey(presented[t]))
     THEN Deny(t, "scope-used")
     ELSE Goto(t, "consume") /\ UNCHANGED outcome
  /\ UNCHANGED <<presented, target, stores, lapsed, calls, deaths, dispatched, burnt>>

\* Mutant of ConsumeNonce: a record, not a compare-and-set.
ConsumeNonceBlindly(t) ==
  /\ pc[t] = "consume"
  /\ stores' = [stores EXCEPT ![StoreIn(t)] = Consume(@, Key(presented[t]))]
  /\ Goto(t, IF IsNextAction(presented[t]) THEN "mark" ELSE "send")
  /\ UNCHANGED <<presented, target, outcome, lapsed, calls, deaths, dispatched, burnt>>

ConsumeNonce(t) ==
  /\ pc[t] = "consume"
  /\ IF Consumable(Store(t), Key(presented[t]))
     THEN /\ stores' = [stores EXCEPT ![StoreIn(t)] = Consume(@, Key(presented[t]))]
          /\ Goto(t, IF IsNextAction(presented[t]) THEN "mark" ELSE "send")
          /\ UNCHANGED outcome
     ELSE Deny(t, "already-used") /\ UNCHANGED stores
  /\ UNCHANGED <<presented, target, lapsed, calls, deaths, dispatched, burnt>>

\* Mutants of MarkScope: it leaves no mark, or refuses where there is one already.
MarkScopeForgotten(t) ==
  /\ pc[t] = "mark"
  /\ Goto(t, "send")
  /\ UNCHANGED <<presented, target, outcome, stores, lapsed, calls, deaths, dispatched, burnt>>

MarkScopeRefuses(t) ==
  /\ pc[t] = "mark"
  /\ IF Seen(Store(t), MarkerKey(presented[t]))
     THEN Deny(t, "scope-used")
     ELSE Goto(t, "send") /\ UNCHANGED outcome
  /\ stores' = [stores EXCEPT ![StoreIn(t)] = Record(@, MarkerKey(presented[t]))]
  /\ UNCHANGED <<presented, target, lapsed, calls, deaths, dispatched, burnt>>

MarkScope(t) ==
  /\ pc[t] = "mark"
  /\ stores' = [stores EXCEPT ![StoreIn(t)] = Record(@, MarkerKey(presented[t]))]
  /\ Goto(t, "send")
  /\ UNCHANGED <<presented, target, outcome, lapsed, calls, deaths, dispatched, burnt>>

\* The halt envelope goes into the maker's mailbox.
Send(t) ==
  /\ pc[t] = "send"
  /\ dispatched' = [dispatched EXCEPT ![presented[t]] = @ + 1]
  /\ Goto(t, "idle")
  /\ outcome' = [outcome EXCEPT ![t] = "dispatched"]
  /\ UNCHANGED <<presented, target, stores, lapsed, calls, deaths, burnt>>

\* The thread dies inside halt(); the stores survive.
Die(t) ==
  /\ pc[t] # "idle"
  /\ deaths < MaxDeaths
  /\ deaths' = deaths + 1
  /\ Deny(t, "died")
  /\ burnt' = IF pc[t] \in {"mark", "send"} THEN burnt \cup {presented[t]} ELSE burnt
  /\ UNCHANGED <<presented, target, stores, lapsed, calls, dispatched>>

Lapse(r) ==
  /\ r \in Lapsing \ lapsed
  /\ lapsed' = lapsed \cup {r}
  /\ UNCHANGED <<pc, presented, target, outcome, stores, calls, deaths, dispatched, burnt>>

Step(t) ==
  \/ Verify(t)
  \/ CheckSeen(t)
  \/ CheckScope(t)
  \/ ConsumeNonce(t)
  \/ MarkScope(t)
  \/ Send(t)

Next ==
  \/ \E t \in Threads :
       \/ \E m \in Makers, r \in Receipts \cup {NoReceipt} : Call(t, m, r)
       \/ Step(t)
       \/ Die(t)
  \/ \E r \in Lapsing : Lapse(r)

Spec == Init /\ [][Next]_vars

\* halt() is straight-line code: a thread that does not die runs it to its end.
FairSpec == Spec /\ \A t \in Threads : WF_vars(Step(t))
--------------------------------------------------------------------------------
TypeOK ==
  /\ pc \in [Threads -> {"idle", "verify", "seen", "scope", "consume", "mark", "send"}]
  /\ presented \in [Threads -> Receipts \cup {NoReceipt}]
  /\ target \in [Threads -> Makers]
  /\ outcome \in [Threads -> {"none", "unauthorized", "unverified", "already-used",
                              "scope-used", "dispatched", "died"}]
  /\ stores \in [StoreNames -> Stores(Keys)]
  /\ lapsed \subseteq Lapsing
  /\ calls \in 0 .. MaxCalls
  /\ deaths \in 0 .. MaxDeaths
  /\ dispatched \in [Receipts -> Nat]
  /\ burnt \subseteq Receipts

\* A receipt authorises at most one halt, whatever the interleaving of the calls
\* that present it and wherever they die: the promise of SingleUse.
Use == INSTANCE SingleUse WITH Tokens <- Receipts, acts <- dispatched
ReceiptIsSingleUse == Use!Spec

\* Whatever a receipt paid with its nonce, it got: once a nonce is consumed the
\* receipt has been good for the halt it was presented for, and its halt was
\* sent, is about to be sent, or died with its caller.  A run's next-action
\* allowance, too, goes only with such a receipt.  No refusal burns a nonce.
SpentFor(r) ==
  \/ dispatched[r] = 1
  \/ \E t \in Threads : pc[t] \in {"mark", "send"} /\ presented[t] = r
  \/ r \in burnt

RefusalBurnsNothing ==
  \A n \in StoreNames :
    /\ \A r \in Receipts :
         ~Consumable(stores[n], Key(r)) => ReceiptInfo[r].humanKey /\ SpentFor(r)
    /\ \A run \in Runs :
         Seen(stores[n], <<run, Marker>>) =>
           \E r \in Receipts : /\ IsNextAction(r) /\ ReceiptInfo[r].run = run
                              /\ SpentFor(r)

\* Scope next-action is good for one halt per run, however many receipts there
\* are (README.md: "authorises exactly one halt per run").
OneNextActionPerRun ==
  \A r, q \in Receipts :
    /\ IsNextAction(r) /\ dispatched[r] > 0
    /\ IsNextAction(q) /\ dispatched[q] > 0
    /\ ReceiptInfo[r].run = ReceiptInfo[q].run
    => r = q

\* The allowance breaks only when calls overlap: none passes the scope check after a
\* next-action halt of its run was sent, whatever other calls do or die of meanwhile.
LaterCallsFindTheMark ==
  [][\A t \in Threads, r \in Receipts :
       /\ pc[t] = "scope" /\ pc'[t] = "consume"
       /\ IsNextAction(presented[t])
       /\ IsNextAction(r) /\ dispatched[r] > 0
       => ReceiptInfo[r].run # ReceiptInfo[presented[t]].run]_vars

\* Of the calls that reach the compare-and-set with one receipt, one wins: if
\* none of them dies, the halt is sent.
SomePresentationWins ==
  \A r \in Receipts :
    (\E t \in Threads : pc[t] = "consume" /\ presented[t] = r)
      ~> (dispatched[r] = 1 \/ deaths > 0)
================================================================================
