--------------------------- MODULE MediatedExecutor ---------------------------
(***************************************************************************)
(* A permit's life: issue_permit (wire/admission.py) signs and records it, *)
(* consume_and_execute (wire/executor.py) spends it on one tool call and   *)
(* signs the receipt.  Both are taken step by step, by concurrent threads  *)
(* that may die, and the tool may raise.                                   *)
(*                                                                         *)
(* A permit says two things of what it is for: action_digest, taken from   *)
(* the admission result, and constraints (tool, arguments_digest), taken   *)
(* from the caller of issue_permit.  The executor compares the call with   *)
(* the constraints alone, and no code compares the two with each other.    *)
(***************************************************************************)
EXTENDS Naturals, NonceStore

CONSTANTS
  Issuers,       \* threads in issue_permit
  Callers,       \* threads in consume_and_execute
  StoreNames,
  StoreOf,       \* StoreOf[t]: the nonce store thread t is given
  IdentityOf,    \* IdentityOf[c]: the executor identity c proves possession of
  Keys,          \* (run_id, nonce) pairs
  Actions,       \* action digests, as planned and admitted
  Admitted,      \* the actions whose admission decision is ADMITTED
  Calls,         \* (tool, arguments) pairs, what the executor is asked to run
  Unbound,       \* constraints without a tool or without an arguments_digest
  Forms,         \* the permits somebody may ask for, or forge, see Form
  Lapsing,       \* those of them that may expire or be revoked
  Anyone, Half,  \* aud and cnf both missing; only one of them there
  NoForm,
  MaxIssues, MaxCalls,   \* bounds: how many calls of each function are made
  MaxMishaps             \* bound: threads that die and tools that raise

Form == [key : Keys, action : Actions, binds : Calls \cup {Unbound},
         grade : {"advisory", "mediated", "platform"},
         aud : {IdentityOf[c] : c \in Callers} \cup {Anyone, Half}]

ASSUME ExecutorAssumption ==
  /\ Issuers \cap Callers = {}
  /\ StoreOf \in [Issuers \cup Callers -> StoreNames]
  /\ Forms \subseteq Form
  /\ Calls # {} /\ Unbound \notin Calls
  /\ Lapsing \subseteq Forms
  /\ NoForm \notin Forms
  /\ MaxIssues \in Nat /\ MaxCalls \in Nat /\ MaxMishaps \in Nat

VARIABLES
  pc,          \* pc[t]: the next step of thread t
  form,        \* form[t]: the permit it asks for or presents
  call,        \* call[c]: the tool and arguments c asks to be executed
  outcome,     \* outcome[t]: how its last call ended
  stores,      \* the nonce stores
  lapsed,      \* permits that have expired or been revoked
  issues, presentations, mishaps,   \* counters, bounded
  permits,     \* the signed permits issue_permit has returned
  effects,     \* history: effects[k], how often a tool ran under nonce k
  late,        \* history: late[c], had c's permit lapsed when c made its call
  performed,   \* history: what ran, under which permit's action, by whom, how late
  receipts,    \* history: receipts[k], how many receipts were returned for k
  wasted       \* history: nonces consumed by a call that ended without receipt

vars == <<pc, form, call, late, outcome, stores, lapsed, issues, presentations, mishaps,
          permits, effects, performed, receipts, wasted>>

Threads == Issuers \cup Callers
Store(t) == stores[StoreOf[t]]

Init ==
  /\ pc = [t \in Threads |-> "idle"]
  /\ form = [t \in Threads |-> NoForm]
  /\ call = [c \in Callers |-> CHOOSE x \in Calls : TRUE]
  /\ late = [c \in Callers |-> FALSE]
  /\ outcome = [t \in Threads |-> "none"]
  /\ stores = [n \in StoreNames |-> EmptyStore]
  /\ lapsed = {}
  /\ issues = 0 /\ presentations = 0 /\ mishaps = 0
  /\ permits = {}
  /\ effects = [k \in Keys |-> 0]
  /\ performed = {}
  /\ receipts = [k \in Keys |-> 0]
  /\ wasted = {}

Goto(t, label) == pc' = [pc EXCEPT ![t] = label]

Return(t, result) == Goto(t, "idle") /\ outcome' = [outcome EXCEPT ![t] = result]
--------------------------------------------------------------------------------
(* issue_permit *)

\* The decision must be ADMITTED and the issuer not the approver of the run; what
\* the permit binds is the caller's and asked of nobody.
RequestPermit(i, p, selfApproved) ==
  /\ pc[i] = "idle"
  /\ issues < MaxIssues
  /\ issues' = issues + 1
  /\ form' = [form EXCEPT ![i] = p]
  /\ IF p.action \in Admitted /\ ~selfApproved
     THEN Goto(i, "seen") /\ outcome' = [outcome EXCEPT ![i] = "none"]
     ELSE Return(i, "refused")
  /\ UNCHANGED <<call, late, stores, lapsed, presentations, mishaps, permits, effects,
                 performed, receipts, wasted>>

CheckSeen(i) ==
  /\ pc[i] = "seen"
  /\ IF Seen(Store(i), form[i].key)
     THEN Return(i, "reused")
     ELSE Goto(i, "sign") /\ UNCHANGED outcome
  /\ UNCHANGED <<form, call, late, stores, lapsed, issues, presentations, mishaps, permits,
                 effects, performed, receipts, wasted>>

\* aud without cnf, or cnf without aud, is refused; the nonce is not recorded yet.
Sign(i) ==
  /\ pc[i] = "sign"
  /\ IF form[i].aud = Half
     THEN Return(i, "refused")
     ELSE Goto(i, "record") /\ UNCHANGED outcome
  /\ UNCHANGED <<form, call, late, stores, lapsed, issues, presentations, mishaps, permits,
                 effects, performed, receipts, wasted>>

\* Mutant of RecordNonce: nothing is returned.
RecordOnly(i) ==
  /\ pc[i] = "record"
  /\ stores' = [stores EXCEPT ![StoreOf[i]] = Record(@, form[i].key)]
  /\ permits' = permits \cup {NoForm}
  /\ Return(i, "issued")
  /\ UNCHANGED <<form, call, late, lapsed, issues, presentations, mishaps, effects, performed,
                 receipts, wasted>>

RecordNonce(i) ==
  /\ pc[i] = "record"
  /\ stores' = [stores EXCEPT ![StoreOf[i]] = Record(@, form[i].key)]
  /\ permits' = permits \cup {form[i]}
  /\ Return(i, "issued")
  /\ UNCHANGED <<form, call, late, lapsed, issues, presentations, mishaps, effects, performed,
                 receipts, wasted>>
--------------------------------------------------------------------------------
(* consume_and_execute *)

Present(c, p, x) ==
  /\ pc[c] = "idle"
  /\ presentations < MaxCalls
  /\ presentations' = presentations + 1
  /\ form' = [form EXCEPT ![c] = p]
  /\ call' = [call EXCEPT ![c] = x]
  /\ late' = [late EXCEPT ![c] = p \in lapsed]
  /\ outcome' = [outcome EXCEPT ![c] = "none"]
  /\ Goto(c, "verify")
  /\ UNCHANGED <<stores, lapsed, issues, mishaps, permits, effects, performed, receipts,
                 wasted>>

\* Mutant of Authentic: expiry and revocation are not looked at.
Genuine(p) == p \in permits

\* verify, grade, sender constraint and match, none of which leaves a mark.
Authentic(p) == p \in permits /\ p \notin lapsed
SenderAllowed(c, p) == p.aud \in {Anyone, IdentityOf[c]}
Matches(c, p) == p.binds = call[c]

\* Mutant of Verify: a refusal, too, has consumed the nonce.
VerifyConsumes(c) ==
  /\ pc[c] = "verify"
  /\ IF /\ Authentic(form[c])
        /\ form[c].grade \in {"mediated", "platform"}
        /\ SenderAllowed(c, form[c])
        /\ Matches(c, form[c])
     THEN Goto(c, "consume") /\ UNCHANGED <<outcome, stores>>
     ELSE /\ Return(c, "refused")
          /\ stores' = [stores EXCEPT ![StoreOf[c]] = Consume(@, form[c].key)]
  /\ UNCHANGED <<form, call, late, lapsed, issues, presentations, mishaps, permits, effects,
                 performed, receipts, wasted>>

Verify(c) ==
  /\ pc[c] = "verify"
  /\ IF /\ Authentic(form[c])
        /\ form[c].grade \in {"mediated", "platform"}
        /\ SenderAllowed(c, form[c])
        /\ Matches(c, form[c])
     THEN Goto(c, "consume") /\ UNCHANGED outcome
     ELSE Return(c, "refused")
  /\ UNCHANGED <<form, call, late, stores, lapsed, issues, presentations, mishaps, permits,
                 effects, performed, receipts, wasted>>

\* Mutant of ConsumeNonce: a record, not a compare-and-set.
ConsumeNonceBlindly(c) ==
  /\ pc[c] = "consume"
  /\ stores' = [stores EXCEPT ![StoreOf[c]] = Consume(@, form[c].key)]
  /\ Goto(c, "execute")
  /\ UNCHANGED <<form, call, late, outcome, lapsed, issues, presentations, mishaps, permits,
                 effects, performed, receipts, wasted>>

ConsumeNonce(c) ==
  /\ pc[c] = "consume"
  /\ IF Consumable(Store(c), form[c].key)
     THEN /\ stores' = [stores EXCEPT ![StoreOf[c]] = Consume(@, form[c].key)]
          /\ Goto(c, "execute")
          /\ UNCHANGED outcome
     ELSE Return(c, "reused") /\ UNCHANGED stores
  /\ UNCHANGED <<form, call, late, lapsed, issues, presentations, mishaps, permits, effects,
                 performed, receipts, wasted>>

\* The tool runs.
Effect(c) ==
  /\ effects' = [effects EXCEPT ![form[c].key] = @ + 1]
  /\ performed' = performed \cup {[key |-> form[c].key, action |-> form[c].action,
                                   call |-> call[c], by |-> IdentityOf[c],
                                   late |-> late[c]]}

Execute(c) ==
  /\ pc[c] = "execute"
  /\ Effect(c)
  /\ Goto(c, "receipt")
  /\ UNCHANGED <<form, call, late, outcome, stores, lapsed, issues, presentations, mishaps,
                 permits, receipts, wasted>>

\* Mutant of ExecuteRaises: the receipt is signed whatever the tool did.
ExecuteRaisesSigned(c) ==
  /\ pc[c] = "execute"
  /\ mishaps < MaxMishaps
  /\ mishaps' = mishaps + 1
  /\ Effect(c) \/ UNCHANGED <<effects, performed>>
  /\ receipts' = [receipts EXCEPT ![form[c].key] = @ + 1]
  /\ wasted' = wasted
  /\ Return(c, "receipt")
  /\ UNCHANGED <<form, call, late, stores, lapsed, issues, presentations, permits>>

\* The tool raises, before or after it had its effect: the exception goes through.
ExecuteRaises(c) ==
  /\ pc[c] = "execute"
  /\ mishaps < MaxMishaps
  /\ mishaps' = mishaps + 1
  /\ Effect(c) \/ UNCHANGED <<effects, performed>>
  /\ wasted' = wasted \cup {form[c].key}
  /\ Return(c, "raised")
  /\ UNCHANGED <<form, call, late, stores, lapsed, issues, presentations, permits, receipts>>

SignReceipt(c) ==
  /\ pc[c] = "receipt"
  /\ receipts' = [receipts EXCEPT ![form[c].key] = @ + 1]
  /\ Return(c, "receipt")
  /\ UNCHANGED <<form, call, late, stores, lapsed, issues, presentations, mishaps, permits,
                 effects, performed, wasted>>
--------------------------------------------------------------------------------
\* A thread dies halfway; the stores survive, an unreturned permit does not.
Die(t) ==
  /\ pc[t] # "idle"
  /\ mishaps < MaxMishaps
  /\ mishaps' = mishaps + 1
  /\ wasted' = IF pc[t] \in {"execute", "receipt"} THEN wasted \cup {form[t].key} ELSE wasted
  /\ Return(t, "died")
  /\ UNCHANGED <<form, call, late, stores, lapsed, issues, presentations, permits, effects,
                 performed, receipts>>

Lapse(p) ==
  /\ p \in Lapsing \ lapsed
  /\ lapsed' = lapsed \cup {p}
  /\ UNCHANGED <<pc, form, call, late, outcome, stores, issues, presentations, mishaps, permits,
                 effects, performed, receipts, wasted>>

IssueStep(i) == CheckSeen(i) \/ Sign(i) \/ RecordNonce(i)

CallStep(c) == Verify(c) \/ ConsumeNonce(c) \/ Execute(c) \/ SignReceipt(c)

Next ==
  \/ \E i \in Issuers :
       \/ \E p \in Forms, selfApproved \in BOOLEAN : RequestPermit(i, p, selfApproved)
       \/ IssueStep(i)
  \/ \E c \in Callers :
       \/ \E p \in Forms, x \in Calls : Present(c, p, x)
       \/ CallStep(c)
       \/ ExecuteRaises(c)
  \/ \E t \in Threads : Die(t)
  \/ \E p \in Lapsing : Lapse(p)

Spec == Init /\ [][Next]_vars

\* Both functions are straight-line code; the tool returns or raises.
FairSpec == Spec /\ \A c \in Callers : WF_vars(CallStep(c))
--------------------------------------------------------------------------------
TypeOK ==
  /\ pc \in [Threads -> {"idle", "seen", "sign", "record",
                         "verify", "consume", "execute", "receipt"}]
  /\ form \in [Threads -> Forms \cup {NoForm}]
  /\ call \in [Callers -> Calls]
  /\ late \in [Callers -> BOOLEAN]
  /\ outcome \in [Threads -> {"none", "refused", "reused", "issued", "raised", "receipt",
                              "died"}]
  /\ stores \in [StoreNames -> Stores(Keys)]
  /\ lapsed \subseteq Lapsing
  /\ issues \in 0 .. MaxIssues
  /\ presentations \in 0 .. MaxCalls
  /\ mishaps \in 0 .. MaxMishaps
  /\ permits \subseteq Forms
  /\ effects \in [Keys -> Nat]
  /\ performed \subseteq [key : Keys, action : Actions, call : Calls,
                          by : {IdentityOf[c] : c \in Callers}, late : BOOLEAN]
  /\ receipts \in [Keys -> Nat]
  /\ wasted \subseteq Keys

\* A nonce is good for one effect, whatever permits were signed with it, whoever
\* presents them and wherever calls die: the promise of SingleUse.
Use == INSTANCE SingleUse WITH Tokens <- Keys, acts <- effects
EffectIsSingleUse == Use!Spec

\* Whatever ran is a call that the constraints of an issued permit bind, for the
\* executor the permit is good for and of a grade that authorises it; its receipt is
\* put to the account of an admitted action; and no permit is of use to a call made
\* after it lapsed, though it may lapse between its verification and the effect.
\* That the call is the admitted action is not said: nothing compares the two.
OnlyPermittedEffects ==
  \A e \in performed :
    /\ e.action \in Admitted
    /\ ~e.late
    /\ \E p \in permits :
         /\ p.key = e.key /\ p.action = e.action /\ p.binds = e.call
         /\ p.grade # "advisory"
         /\ p.aud \in {Anyone, e.by}

\* A receipt stands for an effect that happened, one for one; an effect without a
\* receipt is one whose call is about to sign it, died or saw the tool raise.
ReceiptsMatchEffects ==
  \A k \in Keys :
    \/ receipts[k] = effects[k]
    \/ /\ receipts[k] < effects[k]
       /\ \/ k \in wasted
          \/ \E c \in Callers : pc[c] = "receipt" /\ form[c].key = k

\* "nonce already consumed: this permit has already been dispatched" is said only
\* of a nonce some call did consume.
Dispatched(k) ==
  \/ effects[k] > 0
  \/ k \in wasted
  \/ \E c \in Callers : pc[c] \in {"execute", "receipt"} /\ form[c].key = k

ReuseMeansDispatched ==
  \A c \in Callers : outcome[c] = "reused" => Dispatched(form[c].key)

\* Of the calls that reach the compare-and-set with a nonce, one gets its receipt
\* if nothing goes wrong, and none waits forever.
SomeCallGetsReceipt ==
  \A k \in Keys :
    (\E c \in Callers : pc[c] = "consume" /\ form[c].key = k)
      ~> (receipts[k] = 1 \/ mishaps > 0)
================================================================================
