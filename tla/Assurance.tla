------------------------------- MODULE Assurance -------------------------------
(***************************************************************************)
(* What follows the dispatch: wire/reconciliation.py compares effects,     *)
(* wire/obligations.py records discharges, wire/certification.py signs the *)
(* certificate, wire/audit_chain.py checks the finished run.               *)
(*                                                                         *)
(* They are pure functions of the objects a host hands them; the state is  *)
(* the signed objects in circulation, and a host may call any of them with *)
(* any of these, at any time, in any selection and order.  An object       *)
(* stands for its digest.  A permit is good for one dispatch (see          *)
(* MediatedExecutor), so a tool receipt is named by its permit.            *)
(***************************************************************************)
EXTENDS Naturals, Sequences, FiniteSets

CONSTANTS
  Permits,       \* the permits that may be issued
  Actions, ActionOf,   \* ActionOf[p]: the action a permit, and its receipt, binds
  Tools, ToolOf,       \* ToolOf[p]: the tool it binds
  Enforcing,     \* the permits of grade mediated or platform
  Principals,    \* identities, each with a key of its own
  IssuerOf,      \* IssuerOf[p]: who issues p
  RecorderOf,    \* RecorderOf[p]: who executes p and signs the receipt
  Effects, None,
  Intentions,    \* the intended_effects a host may declare: partial functions
                 \* from Tools to Effects
  Blocking,      \* the blocking obligations
  Source,        \* the mandatory source
  Lapsing,       \* the objects that may expire, be revoked or go stale
  MaxReconciliations, MaxCertificates, MaxReceipts   \* bounds

ASSUME AssuranceAssumption ==
  /\ ActionOf \in [Permits -> Actions]
  /\ ToolOf \in [Permits -> Tools]
  /\ Enforcing \subseteq Permits
  /\ IssuerOf \in [Permits -> Principals] /\ RecorderOf \in [Permits -> Principals]
  /\ None \notin Effects \cup Permits
  /\ MaxReconciliations \in Nat /\ MaxCertificates \in Nat /\ MaxReceipts \in Nat

VARIABLES
  issued,      \* the permits issue_permit has signed
  effect,      \* effect[p]: the effect the dispatch of p had, None before it
  reported,    \* reported[p]: the effect its receipt reports
  observed,    \* the permits whose effect the host has observed
  stray,       \* has the host observed an effect that no receipt explains
  discharges,  \* the discharge receipts, <<obligation, action>>
  recs,        \* the signed reconciliations, in the order of signing
  certs,       \* the signed certificates
  lapsed       \* what has expired, been revoked or gone stale

vars == <<issued, effect, reported, observed, stray, discharges, recs, certs, lapsed>>

Ran == {p \in Permits : reported[p] # None}

Init ==
  /\ issued = {}
  /\ effect = [p \in Permits |-> None]
  /\ reported = [p \in Permits |-> None]
  /\ observed = {}
  /\ stray = FALSE
  /\ discharges = {}
  /\ recs = <<>>
  /\ certs = {}
  /\ lapsed = {}

\* verify() of an object that was signed by a key bound to its type.
Valid(kind, x) == <<kind, x>> \notin lapsed

Enforceable(p) == p \in issued /\ Valid("permit", p) /\ p \in Enforcing
--------------------------------------------------------------------------------
(* Before: the objects these functions are given *)

\* admit and issue_permit.
Issue(p) ==
  /\ p \notin issued
  /\ issued' = issued \cup {p}
  /\ UNCHANGED <<effect, reported, observed, stray, discharges, recs, certs, lapsed>>

\* consume_and_execute.  A receipt reports what the executor says it did.
Dispatch(p, done, said) ==
  /\ Enforceable(p)
  /\ p \notin Ran
  /\ effect' = [effect EXCEPT ![p] = done]
  /\ reported' = [reported EXCEPT ![p] = said]
  /\ UNCHANGED <<issued, observed, stray, discharges, recs, certs, lapsed>>

\* Mutant of Observe: an observation of what was never dispatched.
ObserveUndispatched(p) ==
  /\ p \in Permits \ observed
  /\ observed' = observed \cup {p}
  /\ UNCHANGED <<issued, effect, reported, stray, discharges, recs, certs, lapsed>>

\* The host observes the effect of a dispatch, or one of no dispatch.
Observe(p) ==
  /\ p \in Ran \ observed
  /\ observed' = observed \cup {p}
  /\ UNCHANGED <<issued, effect, reported, stray, discharges, recs, certs, lapsed>>

ObserveStray ==
  /\ ~stray
  /\ stray' = TRUE
  /\ UNCHANGED <<issued, effect, reported, observed, discharges, recs, certs, lapsed>>

\* issue_discharge_receipt.
Discharge(o, a) ==
  /\ <<o, a>> \notin discharges
  /\ discharges' = discharges \cup {<<o, a>>}
  /\ UNCHANGED <<issued, effect, reported, observed, stray, recs, certs, lapsed>>

Lapse(x) ==
  /\ x \in Lapsing \ lapsed
  /\ lapsed' = lapsed \cup {x}
  /\ UNCHANGED <<issued, effect, reported, observed, stray, discharges, recs, certs>>
--------------------------------------------------------------------------------
(* reconcile *)

\* The receipts that verify and bind the permit's action; the others are invalid.
Bound(p, given) ==
  {r \in given : Valid("receipt", r) /\ ActionOf[r] = ActionOf[p]}

\* Mutant of EffectsMatch: what the tool says of itself is enough.
ToolExitIsEnough(r, intended) ==
  ToolOf[r] \in DOMAIN intended => reported[r] = intended[ToolOf[r]]

EffectsMatch(r, intended) ==
  /\ r \in observed
  /\ reported[r] = effect[r]
  /\ ToolOf[r] \in DOMAIN intended => reported[r] = intended[ToolOf[r]]

\* Nothing invalid, no residual.
Clean(p, given, intended) ==
  /\ Bound(p, given) = given
  /\ given # {}
  /\ \A r \in given : EffectsMatch(r, intended)
  /\ ~stray
  /\ DOMAIN intended \subseteq {ToolOf[r] : r \in given}

\* A permit that is not good gets no reconciliation; everything else does, and the
\* outcome is in the record.  covers is history: the record names no receipts.
Reconcile(p, given, intended, by) ==
  /\ Enforceable(p)
  /\ Len(recs) < MaxReconciliations
  /\ recs' = Append(recs, [action |-> ActionOf[p], clean |-> Clean(p, given, intended),
                           covers |-> Bound(p, given), by |-> by])
  /\ UNCHANGED <<issued, effect, reported, observed, stray, discharges, certs, lapsed>>
--------------------------------------------------------------------------------
(* certify *)

Discharged(a) ==
  \A o \in Blocking : <<o, a>> \in discharges /\ Valid("discharge", <<o, a>>)

\* The certifier is not the issuer, not the reconciler and no executor.
Independent(by, p, given, i) ==
  /\ by \notin {IssuerOf[p], recs[i].by}
  /\ \A k \in DOMAIN given : by # RecorderOf[given[k]]

\* Mutant of Certify: any reconciliation of the action will do.
CertifyResidual(p, given, i, by) ==
  /\ Enforceable(p)
  /\ given # <<>>
  /\ \A k \in DOMAIN given :
       Valid("receipt", given[k]) /\ ActionOf[given[k]] = ActionOf[p]
  /\ Valid("reconciliation", i)
  /\ recs[i].action = ActionOf[p]
  /\ Discharged(ActionOf[p])
  /\ Valid("source", Source)
  /\ Independent(by, p, given, i)
  /\ Cardinality(certs) < MaxCertificates
  /\ certs' = certs \cup {[permit |-> p, receipts |-> given, rec |-> i, by |-> by]}
  /\ UNCHANGED <<issued, effect, reported, observed, stray, discharges, recs, lapsed>>

Certify(p, given, i, by) ==
  /\ Enforceable(p)
  /\ given # <<>>
  /\ \A k \in DOMAIN given :
       Valid("receipt", given[k]) /\ ActionOf[given[k]] = ActionOf[p]
  /\ Valid("reconciliation", i)
  /\ recs[i].action = ActionOf[p]
  /\ recs[i].clean
  /\ Discharged(ActionOf[p])
  /\ Valid("source", Source)
  /\ Independent(by, p, given, i)
  /\ Cardinality(certs) < MaxCertificates
  /\ certs' = certs \cup {[permit |-> p, receipts |-> given, rec |-> i, by |-> by]}
  /\ UNCHANGED <<issued, effect, reported, observed, stray, discharges, recs, lapsed>>
--------------------------------------------------------------------------------
(* audit_chain_verify: of a run's objects and its certificate c *)

\* consume_and_execute writes no prev_digest.
PrevOf(r) == None

\* Mutant of Chained: receipts that verify one by one will do.
ChainedSingly(given) ==
  /\ given # <<>>
  /\ \A k \in DOMAIN given : Valid("receipt", given[k])

\* verify_chain: each receipt names its predecessor, so that of the receipts the
\* executor builds no two pass together.
Chained(given) ==
  /\ given # <<>>
  /\ \A k \in DOMAIN given : Valid("receipt", given[k])
  /\ \A k \in DOMAIN given : PrevOf(given[k]) = IF k = 1 THEN None ELSE given[k - 1]

AuditPasses(p, given, i, c) ==
  /\ Chained(given)
  /\ Valid("permit", p) /\ Valid("reconciliation", i) /\ Valid("certificate", c)
  /\ c.permit = p /\ c.rec = i /\ c.receipts = given
--------------------------------------------------------------------------------
Next ==
  \/ \E p \in Permits :
       \/ Issue(p)
       \/ \E done, said \in Effects : Dispatch(p, done, said)
       \/ Observe(p)
       \/ \E given \in SUBSET Ran, intended \in Intentions, by \in Principals :
            Reconcile(p, given, intended, by)
       \/ \E n \in 1 .. MaxReceipts : \E given \in [1 .. n -> Ran] :
            \E i \in DOMAIN recs, by \in Principals : Certify(p, given, i, by)
  \/ ObserveStray
  \/ \E o \in Blocking, a \in Actions : Discharge(o, a)
  \/ \E x \in Lapsing : Lapse(x)

Spec == Init /\ [][Next]_vars
--------------------------------------------------------------------------------
Reconciliation ==
  [action : Actions, clean : BOOLEAN, covers : SUBSET Permits, by : Principals]

TypeOK ==
  /\ issued \subseteq Permits
  /\ effect \in [Permits -> Effects \cup {None}]
  /\ reported \in [Permits -> Effects \cup {None}]
  /\ observed \subseteq Ran
  /\ stray \in BOOLEAN
  /\ discharges \subseteq Blocking \X Actions
  /\ recs \in Seq(Reconciliation) /\ Len(recs) <= MaxReconciliations
  /\ certs \subseteq [permit : Permits, receipts : Seq(Permits), rec : DOMAIN recs,
                      by : Principals]
  /\ lapsed \subseteq Lapsing

\* A certificate is earned: its permit was issued, of an enforcing grade, and is of
\* the same action as its receipts and its reconciliation; that reconciliation is
\* clean and rests on at least one dispatch, and every dispatch it rests on had the
\* effect that was reported and that the host observed; every blocking obligation
\* of the action is discharged; and who signed it neither issued the permit, nor
\* reconciled, nor recorded a receipt it names.
Witnessed(r) == r \in observed \cap issued \cap Enforcing /\ reported[r] = effect[r]

Earned(c) ==
  LET a == ActionOf[c.permit]  rec == recs[c.rec] IN
  /\ c.permit \in issued \cap Enforcing
  /\ \A k \in DOMAIN c.receipts : ActionOf[c.receipts[k]] = a
  /\ rec.action = a /\ rec.clean
  /\ rec.covers # {}
  /\ \A r \in rec.covers : ActionOf[r] = a /\ Witnessed(r)
  /\ Blocking \X {a} \subseteq discharges
  /\ c.by \notin {IssuerOf[c.permit], rec.by}
  /\ \A k \in DOMAIN c.receipts : c.by # RecorderOf[c.receipts[k]]

CertificatesAreEarned == \A c \in certs : Earned(c)

\* certify takes the receipts as they come, one of them twice if need be, and what a
\* certificate rests on may lapse.  An audit, whatever it is handed next to the
\* certificate, passes neither: it vouches for an earned certificate, for objects
\* that stand, and for as many dispatches as there are receipts.
Audited(c, given, i) ==
  /\ \A j, k \in DOMAIN given : given[j] = given[k] => j = k
  /\ \A k \in DOMAIN given : given[k] \in issued /\ Valid("receipt", given[k])
  /\ c.rec = i /\ Valid("reconciliation", i) /\ Valid("permit", c.permit)
  /\ Earned(c)

AuditsVouch ==
  \A c \in certs, p \in Permits, i \in DOMAIN recs :
    \A n \in 1 .. MaxReceipts : \A given \in [1 .. n -> Ran] :
      AuditPasses(p, given, i, c) => Audited(c, given, i)

\* An action becomes certified only through the stages of RunLifecycle, in order:
\* "Reconciliation may never retroactively admit execution".
Admitted(a)   == \E p \in issued : ActionOf[p] = a
Dispatched(a) == \E p \in Ran : ActionOf[p] = a
Reconciled(a) == \E i \in DOMAIN recs : recs[i].action = a /\ recs[i].clean
Certified(a)  == \E c \in certs : ActionOf[c.permit] = a

Stage(a) ==
  IF Certified(a) THEN 4
  ELSE IF Reconciled(a) THEN 3
  ELSE IF Dispatched(a) THEN 2
  ELSE IF Admitted(a) THEN 1
  ELSE 0

Lifecycle == INSTANCE RunLifecycle WITH stage <- [a \in Actions |-> Stage(a)]
StagesInOrder == Lifecycle!Spec

\* What the documentation says and some run refutes:

\* "a successful ToolReceipt whose observed effects were mismatched fails here":
\* no certificate names a receipt whose observed effect was not the reported one.
CertifiedEffectsMatched ==
  \A c \in certs : \A k \in DOMAIN c.receipts :
    c.receipts[k] \in observed => reported[c.receipts[k]] = effect[c.receipts[k]]
================================================================================
