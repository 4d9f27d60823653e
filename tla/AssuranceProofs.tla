---------------------------- MODULE AssuranceProofs ----------------------------
(***************************************************************************)
(* Proofs about Assurance, for any permits, receipts, principals and       *)
(* obligations and any order of the calls.                                 *)
(***************************************************************************)
EXTENDS Assurance, TLAPS

\* What Append does to the sequence of reconciliations.
LEMMA AppendRec ==
  ASSUME NEW S, NEW s \in Seq(S), NEW e \in S
  PROVE  /\ Append(s, e) \in Seq(S)
         /\ Len(s) \in Nat /\ Len(Append(s, e)) = Len(s) + 1
         /\ DOMAIN Append(s, e) = 1 .. Len(s) + 1
         /\ DOMAIN s = 1 .. Len(s)
         /\ \A i \in DOMAIN s : Append(s, e)[i] = s[i]
         /\ Append(s, e)[Len(s) + 1] = e
  OBVIOUS

\* The type invariant holds at first.
LEMMA TypeInit == Init => TypeOK
  <1> SUFFICES ASSUME Init PROVE TypeOK
    OBVIOUS
  <1>1. recs \in Seq(Reconciliation) /\ Len(recs) = 0
    BY DEF Init
  <1>2. Len(recs) <= MaxReconciliations
    BY <1>1, AssuranceAssumption
  <1> QED
    BY <1>1, <1>2 DEF Init, TypeOK, Ran

\* The type invariant is inductive by itself.
LEMMA TypeNext == TypeOK /\ [Next]_vars => TypeOK'
  <1> SUFFICES ASSUME TypeOK, [Next]_vars PROVE TypeOK'
    OBVIOUS
  <1> USE DEF TypeOK, Ran
  <1>1. ASSUME NEW p \in Permits, Issue(p) PROVE TypeOK'
    BY <1>1 DEF Issue
  <1>2. ASSUME NEW p \in Permits, NEW done \in Effects, NEW said \in Effects,
               Dispatch(p, done, said)
        PROVE  TypeOK'
    <2>1. /\ effect' \in [Permits -> Effects \cup {None}]
          /\ reported' \in [Permits -> Effects \cup {None}]
      BY <1>2 DEF Dispatch
    <2>2. Ran \subseteq Ran'
      BY <1>2, AssuranceAssumption DEF Dispatch
    <2> QED
      BY <1>2, <2>1, <2>2 DEF Dispatch
  <1>3. ASSUME NEW p \in Permits, Observe(p) PROVE TypeOK'
    BY <1>3 DEF Observe
  <1>4. ASSUME NEW p \in Permits, NEW given \in SUBSET Ran, NEW intended \in Intentions,
               NEW by \in Principals, Reconcile(p, given, intended, by)
        PROVE  TypeOK'
    <2> DEFINE rec == [action |-> ActionOf[p], clean |-> Clean(p, given, intended),
                       covers |-> Bound(p, given), by |-> by]
    <2>1. Clean(p, given, intended) \in BOOLEAN
      BY DEF Clean
    <2>2. Bound(p, given) \subseteq Permits
      BY DEF Bound
    <2>3. rec \in Reconciliation
      BY <2>1, <2>2, AssuranceAssumption DEF Reconciliation
    <2>4. recs' = Append(recs, rec) /\ Len(recs) < MaxReconciliations
      BY <1>4 DEF Reconcile
    <2> HIDE DEF rec
    <2>5. recs' \in Seq(Reconciliation) /\ Len(recs') <= MaxReconciliations
      BY <2>3, <2>4, AppendRec, AssuranceAssumption
    <2>6. DOMAIN recs \subseteq DOMAIN recs'
      BY <2>3, <2>4, AppendRec
    <2>7. certs' \subseteq [permit : Permits, receipts : Seq(Permits), rec : DOMAIN recs',
                            by : Principals]
      BY <1>4, <2>6 DEF Reconcile
    <2> QED
      BY <1>4, <2>5, <2>7 DEF Reconcile
  <1>5. ASSUME NEW p \in Permits, NEW n \in 1 .. MaxReceipts, NEW given \in [1 .. n -> Ran],
               NEW i \in DOMAIN recs, NEW by \in Principals, Certify(p, given, i, by)
        PROVE  TypeOK'
    <2>1. given \in Seq(Permits)
      BY AssuranceAssumption
    <2> QED
      BY <1>5, <2>1 DEF Certify
  <1>6. CASE ObserveStray
    BY <1>6 DEF ObserveStray
  <1>7. ASSUME NEW o \in Blocking, NEW a \in Actions, Discharge(o, a) PROVE TypeOK'
    BY <1>7 DEF Discharge
  <1>8. ASSUME NEW x \in Lapsing, Lapse(x) PROVE TypeOK'
    BY <1>8 DEF Lapse
  <1>9. CASE UNCHANGED vars
    BY <1>9 DEF vars
  <1> QED
    BY <1>1, <1>2, <1>3, <1>4, <1>5, <1>6, <1>7, <1>8, <1>9 DEF Next

\* The type invariant of the assurance functions and their objects.
THEOREM TypeCorrect == Spec => []TypeOK
  BY TypeInit, TypeNext, PTL DEF Spec
--------------------------------------------------------------------------------
(* Certificates are earned *)

\* A dispatch was of an issued permit that enforces.
RanPermitted == Ran \subseteq issued \cap Enforcing

\* A clean reconciliation rests on at least one dispatch, each of its action and
\* with the effect that was reported and observed.
CleanRec(rec) ==
  rec.clean =>
    /\ rec.covers # {}
    /\ \A r \in rec.covers : ActionOf[r] = rec.action /\ Witnessed(r)

CleanIsClean == \A i \in DOMAIN recs : CleanRec(recs[i])

Inv == TypeOK /\ RanPermitted /\ CleanIsClean /\ CertificatesAreEarned

LEMMA InvInit == Init => Inv
  <1> SUFFICES ASSUME Init PROVE Inv
    OBVIOUS
  <1>1. TypeOK
    BY TypeInit
  <1>2. Ran = {}
    BY AssuranceAssumption DEF Init, Ran
  <1>3. DOMAIN recs = {}
    BY DEF Init
  <1>4. CleanIsClean
    BY <1>3 DEF CleanIsClean
  <1> QED
    BY <1>1, <1>2, <1>4 DEF Inv, RanPermitted, CertificatesAreEarned, Init

\* What has been issued, dispatched, observed, discharged or reconciled stays so,
\* and a dispatch that was witnessed stays witnessed.
Grows ==
  /\ issued \subseteq issued'
  /\ discharges \subseteq discharges'
  /\ DOMAIN recs \subseteq DOMAIN recs'
  /\ \A i \in DOMAIN recs : recs'[i] = recs[i]
  /\ \A r \in Permits : Witnessed(r) => Witnessed(r)'

LEMMA NothingIsTakenBack == Inv /\ [Next]_vars => Grows
  <1> SUFFICES ASSUME Inv, [Next]_vars PROVE Grows
    OBVIOUS
  <1> USE DEF Inv, Grows, Witnessed
  <1>1. ASSUME NEW p \in Permits, NEW done \in Effects, NEW said \in Effects,
               Dispatch(p, done, said)
        PROVE  Grows
    <2>1. ASSUME NEW r \in Permits, Witnessed(r) PROVE Witnessed(r)'
      <3>1. r \in Ran
        BY <2>1 DEF TypeOK
      <3>2. r # p
        BY <1>1, <3>1 DEF Dispatch
      <3> QED
        BY <1>1, <2>1, <3>2 DEF Dispatch, TypeOK
    <2> QED
      BY <1>1, <2>1 DEF Dispatch
  <1>2. ASSUME NEW p \in Permits, NEW given \in SUBSET Ran, NEW intended \in Intentions,
               NEW by \in Principals, Reconcile(p, given, intended, by)
        PROVE  Grows
    <2> DEFINE rec == [action |-> ActionOf[p], clean |-> Clean(p, given, intended),
                       covers |-> Bound(p, given), by |-> by]
    <2>1. recs \in Seq(Reconciliation) /\ rec \in Reconciliation
      BY AssuranceAssumption DEF Reconciliation, Clean, Bound, TypeOK, Ran
    <2>2. recs' = Append(recs, rec)
      BY <1>2 DEF Reconcile
    <2> HIDE DEF rec
    <2>3. DOMAIN recs \subseteq DOMAIN recs' /\ \A i \in DOMAIN recs : recs'[i] = recs[i]
      BY <2>1, <2>2, AppendRec
    <2> QED
      BY <1>2, <2>3 DEF Reconcile
  <1>3. CASE UNCHANGED recs /\ UNCHANGED <<effect, reported>> /\ observed \subseteq observed'
             /\ issued \subseteq issued' /\ discharges \subseteq discharges'
    BY <1>3
  <1> QED
    BY <1>1, <1>2, <1>3
    DEF Next, vars, Issue, Observe, Certify, ObserveStray, Discharge, Lapse

\* What earned a certificate stays.
LEMMA EarnedForGood ==
  ASSUME Inv, Grows, NEW c \in certs
  PROVE  Earned(c)'
  <1>1. Earned(c)
    BY DEF Inv, CertificatesAreEarned
  <1>2. c.rec \in DOMAIN recs /\ c.permit \in Permits
    BY DEF Inv, TypeOK
  <1>3. recs'[c.rec] = recs[c.rec] /\ recs[c.rec] \in Reconciliation
    BY <1>2 DEF Grows, Inv, TypeOK
  <1>4. recs[c.rec].covers \subseteq Permits
    BY <1>3 DEF Reconciliation
  <1>5. \A r \in recs'[c.rec].covers : ActionOf[r] = ActionOf[c.permit] /\ Witnessed(r)'
    BY <1>1, <1>3, <1>4 DEF Earned, Grows
  <1>6. /\ c.permit \in issued' \cap Enforcing
        /\ Blocking \X {ActionOf[c.permit]} \subseteq discharges'
    BY <1>1 DEF Earned, Grows
  <1>7. /\ \A k \in DOMAIN c.receipts : ActionOf[c.receipts[k]] = ActionOf[c.permit]
        /\ \A k \in DOMAIN c.receipts : c.by # RecorderOf[c.receipts[k]]
    BY <1>1 DEF Earned
  <1>8. /\ recs'[c.rec].action = ActionOf[c.permit] /\ recs'[c.rec].clean
        /\ recs'[c.rec].covers # {}
        /\ c.by \notin {IssuerOf[c.permit], recs'[c.rec].by}
    BY <1>1, <1>3 DEF Earned
  <1> QED
    BY <1>5, <1>6, <1>7, <1>8 DEF Earned

\* Clean reconciliations stay clean, and the new one is.
LEMMA CleanNext == Inv /\ [Next]_vars => CleanIsClean'
  <1> SUFFICES ASSUME Inv, [Next]_vars, NEW i \in DOMAIN recs' PROVE CleanRec(recs[i])'
    BY DEF CleanIsClean
  <1>0. Grows
    BY NothingIsTakenBack
  <1>1. CASE i \in DOMAIN recs
    <2>1. CleanRec(recs[i]) /\ recs'[i] = recs[i] /\ recs[i] \in Reconciliation
      BY <1>0, <1>1 DEF Inv, CleanIsClean, Grows, TypeOK
    <2>2. recs[i].covers \subseteq Permits
      BY <2>1 DEF Reconciliation
    <2> QED
      BY <1>0, <2>1, <2>2 DEF CleanRec, Grows
  <1>2. ASSUME NEW p \in Permits, NEW given \in SUBSET Ran, NEW intended \in Intentions,
               NEW by \in Principals, Reconcile(p, given, intended, by), i \notin DOMAIN recs
        PROVE  CleanRec(recs[i])'
    <2> DEFINE rec == [action |-> ActionOf[p], clean |-> Clean(p, given, intended),
                       covers |-> Bound(p, given), by |-> by]
    <2>1. recs \in Seq(Reconciliation) /\ rec \in Reconciliation
      BY AssuranceAssumption DEF Reconciliation, Clean, Bound, TypeOK, Ran, Inv
    <2>2. recs' = Append(recs, rec)
      BY <1>2 DEF Reconcile
    <2>3. rec.clean = Clean(p, given, intended) /\ rec.covers = Bound(p, given)
          /\ rec.action = ActionOf[p]
      OBVIOUS
    <2> HIDE DEF rec
    <2>4. recs'[i] = rec
      BY <1>2, <2>1, <2>2, AppendRec
    <2>5. ASSUME Clean(p, given, intended)
          PROVE  /\ Bound(p, given) # {}
                 /\ \A r \in Bound(p, given) : ActionOf[r] = ActionOf[p] /\ Witnessed(r)'
      <3>1. Bound(p, given) = given /\ given # {}
        BY <2>5 DEF Clean
      <3>2. ASSUME NEW r \in given PROVE ActionOf[r] = ActionOf[p] /\ Witnessed(r)
        <4>1. r \in issued \cap Enforcing /\ r \in Permits
          BY DEF Inv, RanPermitted, Ran
        <4> QED
          BY <2>5, <3>1, <4>1 DEF Clean, EffectsMatch, Bound, Witnessed
      <3>3. given \subseteq Permits
        BY DEF Ran
      <3> QED
        BY <1>0, <3>1, <3>2, <3>3 DEF Grows
    <2> QED
      BY <2>3, <2>4, <2>5 DEF CleanRec
  <1>3. CASE UNCHANGED recs
    BY <1>1, <1>3
  <1> QED
    BY <1>1, <1>2, <1>3
    DEF Next, vars, Issue, Dispatch, Observe, Certify, ObserveStray, Discharge, Lapse

\* A certificate signed in this step is earned.
LEMMA EarnedNext == Inv /\ [Next]_vars => CertificatesAreEarned'
  <1> SUFFICES ASSUME Inv, [Next]_vars PROVE CertificatesAreEarned'
    OBVIOUS
  <1>0. Grows
    BY NothingIsTakenBack
  <1>1. ASSUME NEW p \in Permits, NEW n \in 1 .. MaxReceipts, NEW given \in [1 .. n -> Ran],
               NEW i \in DOMAIN recs, NEW by \in Principals, Certify(p, given, i, by)
        PROVE  CertificatesAreEarned'
    <2> DEFINE c == [permit |-> p, receipts |-> given, rec |-> i, by |-> by]
    <2>1. CleanRec(recs[i]) /\ recs[i].clean /\ recs[i].action = ActionOf[p]
      BY <1>1 DEF Certify, Inv, CleanIsClean
    <2>2. Blocking \X {ActionOf[p]} \subseteq discharges
      BY <1>1 DEF Certify, Discharged
    <2>3. Earned(c)
      BY <1>1, <2>1, <2>2 DEF Earned, CleanRec, Certify, Independent, Enforceable
    <2>4. /\ UNCHANGED <<issued, effect, reported, observed, discharges, recs>>
          /\ certs' = certs \cup {c}
      BY <1>1 DEF Certify
    <2> HIDE DEF c
    <2> QED
      BY <1>0, <2>3, <2>4, EarnedForGood DEF CertificatesAreEarned, Earned, Witnessed
  <1>2. CASE UNCHANGED certs
    BY <1>0, <1>2, EarnedForGood DEF CertificatesAreEarned
  <1> QED
    BY <1>1, <1>2
    DEF Next, vars, Issue, Dispatch, Observe, Reconcile, ObserveStray, Discharge, Lapse

LEMMA InvNext == Inv /\ [Next]_vars => Inv'
  <1> SUFFICES ASSUME Inv, [Next]_vars PROVE Inv'
    OBVIOUS
  <1>1. RanPermitted'
    <2>1. ASSUME NEW p \in Permits, NEW done \in Effects, NEW said \in Effects,
                 Dispatch(p, done, said)
          PROVE  Ran' \subseteq Ran \cup {p} /\ p \in issued \cap Enforcing
      BY <2>1 DEF Dispatch, Enforceable, Ran, Inv, TypeOK
    <2>2. CASE UNCHANGED <<reported, issued>>
      BY <2>2 DEF RanPermitted, Ran, Inv
    <2>3. ASSUME NEW p \in Permits, NEW done \in Effects, NEW said \in Effects,
                 Dispatch(p, done, said)
          PROVE  RanPermitted'
      BY <2>1, <2>3 DEF Dispatch, RanPermitted, Inv
    <2>4. ASSUME NEW p \in Permits, Issue(p) PROVE RanPermitted'
      BY <2>4 DEF Issue, RanPermitted, Ran, Inv
    <2> QED
      BY <2>2, <2>3, <2>4
      DEF Next, vars, Observe, Reconcile, Certify, ObserveStray, Discharge, Lapse
  <1> QED
    BY <1>1, TypeNext, CleanNext, EarnedNext DEF Inv

\* Certificates are earned, in every order of the calls and whatever a host hands
\* them.
THEOREM CertificatesRestOnEvidence == Spec => []CertificatesAreEarned
  <1>1. Inv => CertificatesAreEarned
    BY DEF Inv
  <1> QED
    BY <1>1, InvInit, InvNext, PTL DEF Spec

\* No receipt names a predecessor, so a chain of them is one receipt long.
LEMMA ChainsAreShort ==
  ASSUME NEW n \in Nat, NEW given \in [1 .. n -> Ran], Chained(given)
  PROVE  n = 1
  <1>1. n # 0
    BY DEF Chained
  <1>2. ASSUME n > 1 PROVE FALSE
    <2>1. 2 \in DOMAIN given /\ 1 \in DOMAIN given
      BY <1>2
    <2>2. given[1] = None
      BY <2>1 DEF Chained, PrevOf
    <2>3. given[1] \in Permits
      BY <2>1 DEF Ran
    <2> QED
      BY <2>2, <2>3, AssuranceAssumption
  <1> QED
    BY <1>1, <1>2

\* Whatever an audit is handed next to a certificate, it passes only what it vouches
\* for: the certificate's own objects, standing, and a dispatch for every receipt.
THEOREM AuditsVouchForRuns == Spec => []AuditsVouch
  <1>1. Inv => AuditsVouch
    <2> SUFFICES ASSUME Inv, NEW c \in certs, NEW p \in Permits, NEW i \in DOMAIN recs,
                        NEW n \in 1 .. MaxReceipts, NEW given \in [1 .. n -> Ran],
                        AuditPasses(p, given, i, c)
                 PROVE  Audited(c, given, i)
      BY DEF AuditsVouch
    <2>1. n \in Nat
      BY AssuranceAssumption
    <2>2. n = 1
      BY <2>1, ChainsAreShort DEF AuditPasses
    <2>3. \A j, k \in DOMAIN given : given[j] = given[k] => j = k
      BY <2>2
    <2>4. \A k \in DOMAIN given : given[k] \in issued /\ Valid("receipt", given[k])
      BY DEF Inv, RanPermitted, AuditPasses, Chained
    <2>5. Earned(c)
      BY DEF Inv, CertificatesAreEarned
    <2> QED
      BY <2>3, <2>4, <2>5 DEF Audited, AuditPasses
  <1> QED
    BY <1>1, InvInit, InvNext, PTL DEF Spec
--------------------------------------------------------------------------------
(* One dispatch per action *)

\* Two permits of one action are never both dispatched: what a host keeps to that
\* asks for no second permit of an action it has run.
OneDispatchPerAction ==
  \A p, q \in Ran : ActionOf[p] = ActionOf[q] => p = q

\* The certificate names the dispatch its reconciliation rests on, and no other.
NamesWhatWasReconciled(c) ==
  \A k \in DOMAIN c.receipts : recs[c.rec].covers = {c.receipts[k]}

\* A receipt that a certificate names or a reconciliation covers is of a dispatch.
OfDispatches ==
  /\ \A c \in certs : \A k \in DOMAIN c.receipts : c.receipts[k] \in Ran
  /\ \A i \in DOMAIN recs : recs[i].covers \subseteq Ran

\* What was dispatched stays dispatched.
LEMMA RanForGood == TypeOK /\ [Next]_vars => Ran \subseteq Ran'
  <1> SUFFICES ASSUME TypeOK, [Next]_vars PROVE Ran \subseteq Ran'
    OBVIOUS
  <1>1. ASSUME NEW p \in Permits, NEW done \in Effects, NEW said \in Effects,
               Dispatch(p, done, said)
        PROVE  Ran \subseteq Ran'
    BY <1>1, AssuranceAssumption DEF Dispatch, Ran, TypeOK
  <1>2. CASE UNCHANGED reported
    BY <1>2 DEF Ran
  <1> QED
    BY <1>1, <1>2
    DEF Next, vars, Issue, Observe, Reconcile, Certify, ObserveStray, Discharge, Lapse

LEMMA OfDispatchesNext == TypeOK /\ OfDispatches /\ [Next]_vars => OfDispatches'
  <1> SUFFICES ASSUME TypeOK, OfDispatches, [Next]_vars PROVE OfDispatches'
    OBVIOUS
  <1>0. Ran \subseteq Ran'
    BY RanForGood
  <1>1. ASSUME NEW p \in Permits, NEW given \in SUBSET Ran, NEW intended \in Intentions,
               NEW by \in Principals, Reconcile(p, given, intended, by)
        PROVE  OfDispatches'
    <2> DEFINE rec == [action |-> ActionOf[p], clean |-> Clean(p, given, intended),
                       covers |-> Bound(p, given), by |-> by]
    <2>1. recs \in Seq(Reconciliation) /\ rec \in Reconciliation
      BY AssuranceAssumption DEF Reconciliation, Clean, Bound, TypeOK, Ran
    <2>2. recs' = Append(recs, rec) /\ UNCHANGED certs
      BY <1>1 DEF Reconcile
    <2>3. rec.covers \subseteq Ran
      BY DEF Bound
    <2> HIDE DEF rec
    <2>4. DOMAIN recs' = DOMAIN recs \cup {Len(recs) + 1}
      BY <2>1, <2>2, AppendRec
    <2>5. recs'[Len(recs) + 1] = rec /\ \A i \in DOMAIN recs : recs'[i] = recs[i]
      BY <2>1, <2>2, AppendRec
    <2>6. \A i \in DOMAIN recs' : recs'[i].covers \subseteq Ran'
      BY <1>0, <2>3, <2>4, <2>5 DEF OfDispatches
    <2> QED
      BY <1>0, <2>2, <2>6 DEF OfDispatches
  <1>2. ASSUME NEW p \in Permits, NEW n \in 1 .. MaxReceipts, NEW given \in [1 .. n -> Ran],
               NEW i \in DOMAIN recs, NEW by \in Principals, Certify(p, given, i, by)
        PROVE  OfDispatches'
    <2> DEFINE c == [permit |-> p, receipts |-> given, rec |-> i, by |-> by]
    <2>1. certs' = certs \cup {c} /\ UNCHANGED recs
      BY <1>2 DEF Certify
    <2>2. \A k \in DOMAIN c.receipts : c.receipts[k] \in Ran
      OBVIOUS
    <2> HIDE DEF c
    <2> QED
      BY <1>0, <2>1, <2>2 DEF OfDispatches
  <1>3. CASE UNCHANGED <<recs, certs>>
    BY <1>0, <1>3 DEF OfDispatches
  <1> QED
    BY <1>1, <1>2, <1>3
    DEF Next, vars, Issue, Dispatch, Observe, ObserveStray, Discharge, Lapse

\* Where no action is dispatched twice, a certificate names exactly the dispatch
\* that was reconciled, whatever receipts a host hands certify.
LEMMA OneDispatchNamed ==
  Inv /\ OfDispatches /\ OneDispatchPerAction => \A c \in certs : NamesWhatWasReconciled(c)
  <1> SUFFICES ASSUME Inv, OfDispatches, OneDispatchPerAction, NEW c \in certs,
                      NEW k \in DOMAIN c.receipts
               PROVE  recs[c.rec].covers = {c.receipts[k]}
    BY DEF NamesWhatWasReconciled
  <1>1. Earned(c) /\ c.rec \in DOMAIN recs
    BY DEF Inv, CertificatesAreEarned, TypeOK
  <1>2. c.receipts[k] \in Ran /\ ActionOf[c.receipts[k]] = ActionOf[c.permit]
    BY <1>1 DEF OfDispatches, Earned
  <1>3. recs[c.rec].covers # {} /\ recs[c.rec].covers \subseteq Ran
    BY <1>1 DEF OfDispatches, Earned
  <1>4. \A r \in recs[c.rec].covers : ActionOf[r] = ActionOf[c.permit]
    BY <1>1 DEF Earned
  <1>5. \A r \in recs[c.rec].covers : r = c.receipts[k]
    BY <1>2, <1>3, <1>4 DEF OneDispatchPerAction
  <1> QED
    BY <1>3, <1>5

\* What README.md says of certificates, and MCAssuranceMismatch refutes, does hold
\* where no action is dispatched twice: the receipts certify is given are then the
\* ones reconcile compared, so that no certified receipt has a mismatched effect.
THEOREM MismatchNeedsASecondDispatch ==
  Spec /\ []OneDispatchPerAction =>
    [](CertifiedEffectsMatched /\ \A c \in certs : NamesWhatWasReconciled(c))
  <1>1. Init => OfDispatches
    BY DEF Init, OfDispatches
  <1>2. Inv /\ OfDispatches /\ OneDispatchPerAction => CertifiedEffectsMatched
    <2> SUFFICES ASSUME Inv, OfDispatches, OneDispatchPerAction, NEW c \in certs,
                        NEW k \in DOMAIN c.receipts
                 PROVE  reported[c.receipts[k]] = effect[c.receipts[k]]
      BY DEF CertifiedEffectsMatched
    <2>1. c.receipts[k] \in recs[c.rec].covers
      BY OneDispatchNamed DEF NamesWhatWasReconciled
    <2> QED
      BY <2>1 DEF Inv, CertificatesAreEarned, Earned, Witnessed
  <1>3. Inv => TypeOK
    BY DEF Inv
  <1> QED
    BY <1>1, <1>2, <1>3, InvInit, InvNext, OfDispatchesNext, OneDispatchNamed, PTL DEF Spec
--------------------------------------------------------------------------------
(* The stages *)

\* A step that moves one action to the next stage.
Advances(b) ==
  /\ Stage(b) < 4 /\ Stage(b)' = Stage(b) + 1
  /\ \A a \in Actions \ {b} : Stage(a)' = Stage(a)

Stays == \A a \in Actions : Stage(a)' = Stage(a)

LEMMA StepAdvances ==
  TypeOK /\ [Next]_vars => Stays \/ \E b \in Actions : Advances(b)
  <1> SUFFICES ASSUME TypeOK, [Next]_vars PROVE Stays \/ \E b \in Actions : Advances(b)
    OBVIOUS
  <1> USE DEF Stays, Advances, Stage
  <1>1. ASSUME NEW p \in Permits, Issue(p)
        PROVE  Stays \/ \E b \in Actions : Advances(b)
    <2>1. \A a \in Actions :
            /\ Admitted(a)' <=> Admitted(a) \/ a = ActionOf[p]
            /\ Dispatched(a)' <=> Dispatched(a)
            /\ Reconciled(a)' <=> Reconciled(a)
            /\ Certified(a)' <=> Certified(a)
      BY <1>1 DEF Issue, Admitted, Dispatched, Ran, Reconciled, Certified
    <2>2. ActionOf[p] \in Actions
      BY AssuranceAssumption
    <2> QED
      BY <2>1, <2>2
  <1>2. ASSUME NEW p \in Permits, NEW done \in Effects, NEW said \in Effects,
               Dispatch(p, done, said)
        PROVE  Stays \/ \E b \in Actions : Advances(b)
    <2>1. Ran' = Ran \cup {p} /\ p \in issued
      BY <1>2, AssuranceAssumption DEF Dispatch, Enforceable, Ran, TypeOK
    <2>2. \A a \in Actions :
            /\ Admitted(a)' <=> Admitted(a)
            /\ Dispatched(a)' <=> Dispatched(a) \/ a = ActionOf[p]
            /\ Reconciled(a)' <=> Reconciled(a)
            /\ Certified(a)' <=> Certified(a)
      BY <1>2, <2>1 DEF Dispatch, Admitted, Dispatched, Reconciled, Certified
    <2>3. ActionOf[p] \in Actions /\ Admitted(ActionOf[p])
      BY <2>1, AssuranceAssumption DEF Admitted
    <2> QED
      BY <2>2, <2>3
  <1>3. ASSUME NEW p \in Permits, NEW given \in SUBSET Ran, NEW intended \in Intentions,
               NEW by \in Principals, Reconcile(p, given, intended, by)
        PROVE  Stays \/ \E b \in Actions : Advances(b)
    <2> DEFINE rec == [action |-> ActionOf[p], clean |-> Clean(p, given, intended),
                       covers |-> Bound(p, given), by |-> by]
    <2>1. recs \in Seq(Reconciliation) /\ rec \in Reconciliation
      BY AssuranceAssumption DEF Reconciliation, Clean, Bound, TypeOK, Ran
    <2>2. recs' = Append(recs, rec)
      BY <1>3 DEF Reconcile
    <2>3. rec.clean = Clean(p, given, intended) /\ rec.action = ActionOf[p]
      OBVIOUS
    <2> HIDE DEF rec
    <2>4. \A a \in Actions :
            Reconciled(a)' <=> Reconciled(a) \/ (a = ActionOf[p] /\ Clean(p, given, intended))
      <3>1. DOMAIN recs' = DOMAIN recs \cup {Len(recs) + 1}
        BY <2>1, <2>2, AppendRec
      <3>2. recs'[Len(recs) + 1] = rec /\ \A i \in DOMAIN recs : recs'[i] = recs[i]
        BY <2>1, <2>2, AppendRec
      <3> QED
        BY <2>3, <3>1, <3>2 DEF Reconciled
    <2>5. \A a \in Actions :
            /\ Admitted(a)' <=> Admitted(a)
            /\ Dispatched(a)' <=> Dispatched(a)
            /\ Certified(a)' <=> Certified(a)
      BY <1>3 DEF Reconcile, Admitted, Dispatched, Ran, Certified
    <2>6. Clean(p, given, intended) => Dispatched(ActionOf[p])
      BY DEF Clean, Bound, Dispatched
    <2>7. ActionOf[p] \in Actions
      BY AssuranceAssumption
    <2> QED
      BY <2>4, <2>5, <2>6, <2>7
  <1>4. ASSUME NEW p \in Permits, NEW n \in 1 .. MaxReceipts, NEW given \in [1 .. n -> Ran],
               NEW i \in DOMAIN recs, NEW by \in Principals, Certify(p, given, i, by)
        PROVE  Stays \/ \E b \in Actions : Advances(b)
    <2>1. \A a \in Actions :
            /\ Admitted(a)' <=> Admitted(a)
            /\ Dispatched(a)' <=> Dispatched(a)
            /\ Reconciled(a)' <=> Reconciled(a)
            /\ Certified(a)' <=> Certified(a) \/ a = ActionOf[p]
      <3> DEFINE c == [permit |-> p, receipts |-> given, rec |-> i, by |-> by]
      <3>1. c.permit = p
        OBVIOUS
      <3>2. /\ certs' = certs \cup {c}
            /\ UNCHANGED <<issued, reported, recs>>
        BY <1>4 DEF Certify
      <3> HIDE DEF c
      <3>3. \A a \in Actions : Certified(a)' <=> Certified(a) \/ a = ActionOf[p]
        BY <3>1, <3>2 DEF Certified
      <3> QED
        BY <3>2, <3>3 DEF Admitted, Dispatched, Ran, Reconciled
    <2>2. ActionOf[p] \in Actions /\ Reconciled(ActionOf[p])
      BY <1>4, AssuranceAssumption DEF Certify, Reconciled
    <2> QED
      BY <2>1, <2>2
  <1>5. CASE UNCHANGED <<issued, reported, recs, certs>>
    BY <1>5 DEF Admitted, Dispatched, Ran, Reconciled, Certified
  <1> QED
    BY <1>1, <1>2, <1>3, <1>4, <1>5 DEF Next, vars, Observe, ObserveStray, Discharge, Lapse

\* Nothing becomes certified but through admission, dispatch and a clean
\* reconciliation, in that order: Assurance implements RunLifecycle.
THEOREM StagesAreInOrder == Spec => StagesInOrder
  <1> DEFINE S == [a \in Actions |-> Stage(a)]
  <1>1. Init => Lifecycle!Init
    <2> SUFFICES ASSUME Init PROVE S = [a \in Actions |-> 0]
      BY DEF Lifecycle!Init
    <2>1. issued = {} /\ Ran = {} /\ DOMAIN recs = {} /\ certs = {}
      BY AssuranceAssumption DEF Init, Ran
    <2>2. \A a \in Actions : ~Admitted(a) /\ ~Dispatched(a) /\ ~Reconciled(a) /\ ~Certified(a)
      BY <2>1 DEF Admitted, Dispatched, Reconciled, Certified
    <2> QED
      BY <2>2 DEF Stage
  <1>2. TypeOK /\ [Next]_vars => [Lifecycle!Next]_S
    <2> SUFFICES ASSUME TypeOK, [Next]_vars PROVE [Lifecycle!Next]_S
      OBVIOUS
    <2>1. CASE Stays
      BY <2>1 DEF Stays
    <2>2. ASSUME NEW b \in Actions, Advances(b) PROVE Lifecycle!Advance(b)
      <3>1. S[b] < 4
        BY <2>2 DEF Advances
      <3>2. S' = [S EXCEPT ![b] = @ + 1]
        BY <2>2 DEF Advances
      <3> QED
        BY <3>1, <3>2 DEF Lifecycle!Advance
    <2> QED
      BY <2>1, <2>2, StepAdvances DEF Lifecycle!Next
  <1> QED
    BY <1>1, <1>2, TypeCorrect, PTL DEF Spec, StagesInOrder, Lifecycle!Spec
================================================================================
