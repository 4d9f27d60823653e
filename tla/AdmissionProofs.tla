---------------------------- MODULE AdmissionProofs ----------------------------
(***************************************************************************)
(* Theorems about Admission, for any actions, blocks, pins, receipts,      *)
(* approvals and principals, and however often what is called.             *)
(***************************************************************************)
EXTENDS Admission, TLAPS

--------------------------------------------------------------------------------
(* The inductive invariant. *)

\* What refuses an action is a matter of the action, the block and the pin alone.
Barred(a, b, pin) == Refuses(b, KindOf[a]) \/ (pin # NoPin /\ ~PinHolds(pin, b))

\* A full set of holding, genuine receipts of the action.
Examined(a) ==
  \A t \in Preflight :
    \E q \in Receipts : q.tool = t /\ q.action = a /\ q.holds /\ q.genuine

\* An authorised human's genuine approval of the action, with no more reservations.
ApprovedWithin(a, reservations) ==
  \E ap \in Approvals :
    /\ ap.action = a /\ ap.genuine
    /\ <<KindOf[a], ap.approver, ap.role>> \in Authorized
    /\ ap.reservations \subseteq reservations

\* What every admission result has to show for its decision.
Founded(r) ==
  /\ r.decision = "REFUSED" <=> Barred(r.action, r.block, r.pin)
  /\ r.decision = "ADMITTED" /\ r.profile = "loomground" => Examined(r.action)
  /\ r.decision = "ADMITTED" /\ KindOf[r.action] \in r.block.reserved
       => ApprovedWithin(r.action, r.reservations)

AllFounded == \A r \in results : Founded(r)

\* A permit is of an admitted result, and has lost none of its reservations.
Covered ==
  \A p \in permits :
    /\ p.result \in results
    /\ p.result.decision = "ADMITTED"
    /\ p.result.reservations \subseteq p.reservations

Inv == TypeOK /\ AllFounded /\ Covered
--------------------------------------------------------------------------------
(* Facts about the decision. *)

LEMMA DecisionFacts ==
  ASSUME NEW a \in Actions, NEW profile \in Profiles, NEW planned \in Blocks,
         NEW b \in Blocks, NEW pin \in Pins \cup {NoPin}, NEW given \in SUBSET Receipts,
         NEW ap \in Approvals \cup {NoApproval}, NEW acks \in SUBSET Obligations
  PROVE  LET d == Decision(a, profile, planned, b, pin, given, ap, acks)
         IN  /\ d \in {"ADMITTED", "REVIEW_REQUIRED", "REFUSED"}
             /\ d = "REFUSED" <=> Barred(a, b, pin)
             /\ d = "ADMITTED" => /\ ~Barred(a, b, pin)
                                  /\ RoutesToHuman(b, KindOf[a]) => ApprovalHolds(ap, a)
                                  /\ PreflightHolds(given, a, profile)
BY DEF Decision, Barred

LEMMA PreflightExamines ==
  ASSUME NEW a \in Actions, NEW given \in SUBSET Receipts,
         PreflightHolds(given, a, "loomground")
  PROVE  Examined(a)
BY DEF PreflightHolds, Verified, Examined

\* A reserved kind that is not barred was routed to a human.
LEMMA ReservedIsRouted ==
  ASSUME NEW a \in Actions, NEW b \in Blocks, NEW pin, ~Barred(a, b, pin),
         KindOf[a] \in b.reserved
  PROVE  RoutesToHuman(b, KindOf[a])
BY DEF Barred, Refuses, RoutesToHuman
--------------------------------------------------------------------------------
LEMMA InitInv == Init => Inv
BY AdmissionAssumption DEF AdmissionAssumption, Init, Inv, TypeOK, AllFounded, Covered

LEMMA AdmitInv ==
  ASSUME Inv,
         NEW a \in Actions, NEW profile \in Profiles, NEW planned \in Blocks,
         NEW b \in Blocks, NEW pin \in Pins \cup {NoPin}, NEW given \in SUBSET Receipts,
         NEW ap \in Approvals \cup {NoApproval}, NEW acks \in SUBSET Obligations,
         Admit(a, profile, planned, b, pin, given, ap, acks)
  PROVE  Inv'
<1> DEFINE d == Decision(a, profile, planned, b, pin, given, ap, acks)
           kept == Kept(d, RoutesToHuman(b, KindOf[a]), ap)
           new == [action |-> a, decision |-> d, block |-> b, pin |-> pin,
                   profile |-> profile, approval |-> ap, reservations |-> kept]
<1>1. /\ results' = results \cup {new}
      /\ admits < MaxAdmits /\ admits' = admits + 1
      /\ UNCHANGED <<lapsed, permits, issues>>
  BY DEF Admit
<1>2. /\ d \in {"ADMITTED", "REVIEW_REQUIRED", "REFUSED"}
      /\ d = "REFUSED" <=> Barred(a, b, pin)
      /\ d = "ADMITTED" => /\ ~Barred(a, b, pin)
                           /\ RoutesToHuman(b, KindOf[a]) => ApprovalHolds(ap, a)
                           /\ PreflightHolds(given, a, profile)
  BY DecisionFacts
<1> HIDE DEF d
<1>3. /\ kept \in SUBSET Reservations
      /\ kept # {} => d = "ADMITTED"
  BY <1>2, AdmissionAssumption DEF Kept, ApprovalHolds, AdmissionAssumption, Approval
<1>4. Founded(new)
  <2>1. d = "ADMITTED" /\ profile = "loomground" => Examined(a)
    BY <1>2, PreflightExamines
  <2>2. ASSUME d = "ADMITTED", KindOf[a] \in b.reserved PROVE ApprovedWithin(a, kept)
    <3>1. RoutesToHuman(b, KindOf[a])
      BY <1>2, <2>2, ReservedIsRouted
    <3>2. ApprovalHolds(ap, a) /\ kept = ap.reservations
      BY <1>2, <2>2, <3>1 DEF Kept
    <3>3. QED
      BY <3>2 DEF ApprovalHolds, Verified, ApprovedWithin
  <2>3. QED
    BY <1>2, <2>1, <2>2 DEF Founded
<1>5. new \in Result
  BY <1>2, <1>3 DEF Result
<1>6. TypeOK'
  <2>1. results' \subseteq Result
    BY <1>1, <1>5 DEF Inv, TypeOK
  <2>2. \A r \in results' : r.reservations # {} => r.decision = "ADMITTED"
    BY <1>1, <1>3 DEF Inv, TypeOK
  <2>3. admits' \in 0 .. MaxAdmits
    BY <1>1, AdmissionAssumption DEF Inv, TypeOK, AdmissionAssumption
  <2>4. QED
    BY <1>1, <2>1, <2>2, <2>3 DEF Inv, TypeOK
<1>7. AllFounded'
  <2> SUFFICES ASSUME NEW r \in results' PROVE Founded(r)
    BY DEF AllFounded, Founded, Barred, Examined, ApprovedWithin, Refuses, PinHolds
  <2>1. CASE r \in results
    BY <2>1 DEF Inv, AllFounded
  <2>2. CASE r = new
    BY <2>2, <1>4
  <2>3. QED
    BY <1>1, <2>1, <2>2
<1>8. Covered'
  BY <1>1 DEF Inv, Covered
<1>9. QED
  BY <1>6, <1>7, <1>8 DEF Inv

LEMMA IssuePermitInv ==
  ASSUME Inv, NEW r \in results, NEW issuer \in Principals,
         NEW ap \in Approvals \cup {NoApproval}, NEW asked \in SUBSET Reservations,
         IssuePermit(r, issuer, ap, asked)
  PROVE  Inv'
<1> DEFINE new == [result |-> r, issuer |-> issuer, reservations |-> Constrain(r, asked)]
<1>1. /\ \/ permits' = permits
         \/ r.decision = "ADMITTED" /\ permits' = permits \cup {new}
      /\ issues < MaxPermits /\ issues' = issues + 1
      /\ UNCHANGED <<lapsed, results, admits>>
  BY DEF IssuePermit
<1>2. /\ Constrain(r, asked) \in SUBSET Reservations
      /\ r.reservations \subseteq Constrain(r, asked)
  BY DEF Inv, TypeOK, Result, Constrain
<1>3. new \in Permit
  BY <1>2 DEF Inv, TypeOK, Permit
<1>4. TypeOK'
  <2>1. permits' \subseteq Permit
    BY <1>1, <1>3 DEF Inv, TypeOK
  <2>2. issues' \in 0 .. MaxPermits
    BY <1>1, AdmissionAssumption DEF Inv, TypeOK, AdmissionAssumption
  <2>3. QED
    BY <1>1, <2>1, <2>2 DEF Inv, TypeOK
<1>5. Covered'
  <2> SUFFICES ASSUME NEW p \in permits'
               PROVE  /\ p.result \in results
                      /\ p.result.decision = "ADMITTED"
                      /\ p.result.reservations \subseteq p.reservations
    BY <1>1 DEF Covered
  <2>1. CASE p \in permits
    BY <2>1 DEF Inv, Covered
  <2>2. CASE p = new /\ r.decision = "ADMITTED"
    BY <2>2, <1>2
  <2>3. QED
    BY <1>1, <2>1, <2>2
<1>6. AllFounded'
  BY <1>1 DEF Inv, AllFounded, Founded, Barred, Examined, ApprovedWithin, Refuses, PinHolds
<1>7. QED
  BY <1>4, <1>5, <1>6 DEF Inv

LEMMA InvStep == Inv /\ [Next]_vars => Inv'
<1> SUFFICES ASSUME Inv, [Next]_vars PROVE Inv'
  OBVIOUS
<1>1. ASSUME NEW x \in Lapsing, Lapse(x) PROVE Inv'
  BY <1>1 DEF Lapse, Inv, TypeOK, AllFounded, Founded, Covered, Barred, Examined,
              ApprovedWithin, Refuses, PinHolds
<1>2. CASE UNCHANGED vars
  BY <1>2 DEF vars, Inv, TypeOK, AllFounded, Founded, Covered, Barred, Examined,
              ApprovedWithin, Refuses, PinHolds
<1>3. QED
  BY <1>1, <1>2, AdmitInv, IssuePermitInv DEF Next

LEMMA InvAlways == Spec => []Inv
BY InitInv, InvStep, PTL DEF Spec
--------------------------------------------------------------------------------
\* The type invariant of what plan, admit and issue_permit leave behind.
THEOREM TypeCorrect == Spec => []TypeOK
<1>1. Inv => TypeOK
  BY DEF Inv
<1>2. QED
  BY <1>1, InvAlways, PTL

\* Whatever objects a host passes to plan, admit and issue_permit, in whatever order,
\* a permit rests on genuine evidence about its own action, and keeps the reservations
\* of the human who approved it.
THEOREM PermitsAreFounded == Spec => []PermitsRestOnEvidence
<1>1. Inv => PermitsRestOnEvidence
  <2> SUFFICES ASSUME Inv, NEW p \in permits
               PROVE  /\ p.result \in Granted
                      /\ p.result.profile = "loomground" => Examined(p.result.action)
                      /\ KindOf[p.result.action] \in p.result.block.reserved
                           => ApprovedWithin(p.result.action, p.reservations)
    BY DEF PermitsRestOnEvidence, Examined, ApprovedWithin
  <2>1. /\ p.result \in Granted /\ Founded(p.result)
        /\ p.result.reservations \subseteq p.reservations
    BY DEF Inv, Covered, AllFounded, Granted
  <2>2. ApprovedWithin(p.result.action, p.result.reservations)
          => ApprovedWithin(p.result.action, p.reservations)
    BY <2>1 DEF ApprovedWithin
  <2>3. QED
    BY <2>1, <2>2 DEF Founded, Granted
<1>2. QED
  BY <1>1, InvAlways, PTL

\* No approval, receipt, acknowledgement, profile or plan rescues what a block and its
\* pin refuse.
THEOREM RefusalsAreFinal == Spec => []RefusalIsFinal
<1>1. Inv => RefusalIsFinal
  <2> SUFFICES ASSUME Inv, NEW r \in results, NEW q \in results,
                      r.action = q.action, r.block = q.block, r.pin = q.pin,
                      r.decision = "REFUSED", q.decision = "ADMITTED"
               PROVE  FALSE
    BY DEF RefusalIsFinal
  <2>1. Barred(r.action, r.block, r.pin) /\ ~Barred(q.action, q.block, q.pin)
    BY DEF Inv, AllFounded, Founded
  <2>2. QED
    BY <2>1
<1>2. QED
  BY <1>1, InvAlways, PTL

\* Under a pin, no permit leaves the block that a policy author other than the maker
\* has signed.
THEOREM PinnedBoundariesHold == Spec => []PinnedBoundaryHolds
<1>1. Inv => PinnedBoundaryHolds
  <2> SUFFICES ASSUME Inv, NEW p \in permits, p.result.pin # NoPin
               PROVE  /\ p.result.pin.genuine
                      /\ p.result.pin.signer \in PolicyAuthors \ {Maker}
                      /\ KindOf[p.result.action] \notin p.result.pin.block.prohibited
                      /\ KindOf[p.result.action] \in
                           p.result.pin.block.actions \cup p.result.pin.block.reserved
    BY DEF PinnedBoundaryHolds
  <2>1. ~Barred(p.result.action, p.result.block, p.result.pin)
    BY DEF Inv, Covered, AllFounded, Founded
  <2>2. PinHolds(p.result.pin, p.result.block) /\ ~Refuses(p.result.block, KindOf[p.result.action])
    BY <2>1 DEF Barred
  <2>3. QED
    BY <2>2 DEF PinHolds, Refuses
<1>2. QED
  BY <1>1, InvAlways, PTL

\* An approval that has expired or been revoked admits nothing from then on.
THEOREM LapseIsHonoured == Spec => LapsedApprovalsAdmitNothing
<1> DEFINE Standing == \A r \in results' \ results :
                         r.decision = "ADMITTED" /\ KindOf[r.action] \in r.block.reserved
                           => r.approval \notin lapsed
<1>1. ASSUME NEW a \in Actions, NEW profile \in Profiles, NEW planned \in Blocks,
             NEW b \in Blocks, NEW pin \in Pins \cup {NoPin}, NEW given \in SUBSET Receipts,
             NEW ap \in Approvals \cup {NoApproval}, NEW acks \in SUBSET Obligations,
             Admit(a, profile, planned, b, pin, given, ap, acks)
      PROVE  Standing
  <2> DEFINE d == Decision(a, profile, planned, b, pin, given, ap, acks)
  <2> SUFFICES ASSUME NEW r \in results' \ results, r.decision = "ADMITTED",
                      KindOf[r.action] \in r.block.reserved
               PROVE  r.approval \notin lapsed
    OBVIOUS
  <2>1. r.action = a /\ r.decision = d /\ r.block = b /\ r.approval = ap
    BY <1>1 DEF Admit
  <2>2. ~Barred(a, b, pin) /\ (RoutesToHuman(b, KindOf[a]) => ApprovalHolds(ap, a))
    BY <2>1, DecisionFacts
  <2>3. ApprovalHolds(ap, a)
    BY <2>1, <2>2, ReservedIsRouted
  <2>4. QED
    BY <2>1, <2>3 DEF ApprovalHolds, Verified
<1>2. [Next]_vars => [Standing]_vars
  <2>1. ASSUME NEW x \in Lapsing, Lapse(x) PROVE Standing
    BY <2>1 DEF Lapse
  <2>2. ASSUME NEW r \in results, NEW issuer \in Principals,
               NEW ap \in Approvals \cup {NoApproval}, NEW asked \in SUBSET Reservations,
               IssuePermit(r, issuer, ap, asked)
        PROVE  Standing
    BY <2>2 DEF IssuePermit
  <2>3. QED
    BY <1>1, <2>1, <2>2 DEF Next
<1>3. QED
  BY <1>2, PTL DEF Spec, LapsedApprovalsAdmitNothing
--------------------------------------------------------------------------------
(* Four eyes, for hosts that keep a result and its approval together. *)

\* A permit that a step adds was issued with the approval its result was admitted on.
ApprovalIsHandedOn ==
  \A p \in permits' \ permits :
    \E asked \in SUBSET Reservations :
      IssuePermit(p.result, p.issuer, p.result.approval, asked)

\* A human other than the issuer stands behind every permit of a reserved kind, and it is
\* the one whose approval admitted the action.
FourEyes ==
  \A p \in permits :
    LET r == p.result  ap == p.result.approval IN
    /\ ap # NoApproval => ap.approver # p.issuer
    /\ KindOf[r.action] \in r.block.reserved =>
         /\ ap \in Approvals /\ ap.genuine /\ ap.action = r.action
         /\ <<KindOf[r.action], ap.approver, ap.role>> \in Authorized

\* The approval that an admitted result of a reserved kind was given is the one that
\* admitted it.
OnItsApproval ==
  \A r \in results :
    r.decision = "ADMITTED" /\ KindOf[r.action] \in r.block.reserved =>
      /\ r.approval \in Approvals /\ r.approval.genuine /\ r.approval.action = r.action
      /\ <<KindOf[r.action], r.approval.approver, r.approval.role>> \in Authorized

LEMMA OnItsApprovalStep == OnItsApproval /\ [Next]_vars => OnItsApproval'
<1> SUFFICES ASSUME OnItsApproval, [Next]_vars, NEW r \in results', r.decision = "ADMITTED",
                    KindOf[r.action] \in r.block.reserved
             PROVE  /\ r.approval \in Approvals /\ r.approval.genuine
                    /\ r.approval.action = r.action
                    /\ <<KindOf[r.action], r.approval.approver, r.approval.role>> \in Authorized
  BY DEF OnItsApproval
<1>1. CASE r \in results
  BY <1>1 DEF OnItsApproval
<1>2. ASSUME NEW a \in Actions, NEW profile \in Profiles, NEW planned \in Blocks,
             NEW b \in Blocks, NEW pin \in Pins \cup {NoPin}, NEW given \in SUBSET Receipts,
             NEW ap \in Approvals \cup {NoApproval}, NEW acks \in SUBSET Obligations,
             Admit(a, profile, planned, b, pin, given, ap, acks), r \notin results
      PROVE  /\ r.action = a /\ r.approval = ap /\ ApprovalHolds(ap, a)
  <2>1. /\ r.action = a /\ r.block = b /\ r.approval = ap
        /\ r.decision = Decision(a, profile, planned, b, pin, given, ap, acks)
    BY <1>2 DEF Admit
  <2>2. ~Barred(a, b, pin) /\ (RoutesToHuman(b, KindOf[a]) => ApprovalHolds(ap, a))
    BY <2>1, DecisionFacts
  <2>3. QED
    BY <2>1, <2>2, ReservedIsRouted
<1>3. ASSUME r \notin results
      PROVE  \E a \in Actions, ap \in Approvals \cup {NoApproval} :
               r.action = a /\ r.approval = ap /\ ApprovalHolds(ap, a)
  <2>1. results' # results
    BY <1>3
  <2>2. QED
    BY <1>2, <1>3, <2>1 DEF Next, vars, Lapse, IssuePermit
<1>4. QED
  BY <1>1, <1>3 DEF ApprovalHolds, Verified

LEMMA FourEyesStep ==
  ASSUME Inv, OnItsApproval, FourEyes, [Next /\ ApprovalIsHandedOn]_vars
  PROVE  FourEyes'
<1> SUFFICES ASSUME NEW p \in permits'
             PROVE  LET r == p.result  ap == p.result.approval IN
                    /\ ap # NoApproval => ap.approver # p.issuer
                    /\ KindOf[r.action] \in r.block.reserved =>
                         /\ ap \in Approvals /\ ap.genuine /\ ap.action = r.action
                         /\ <<KindOf[r.action], ap.approver, ap.role>> \in Authorized
  BY DEF FourEyes
<1>1. CASE p \in permits
  BY <1>1 DEF FourEyes
<1>2. CASE p \notin permits
  <2>1. ApprovalIsHandedOn
    BY <1>2 DEF vars
  <2>2. PICK asked \in SUBSET Reservations :
          IssuePermit(p.result, p.issuer, p.result.approval, asked)
    BY <1>2, <2>1 DEF ApprovalIsHandedOn
  <2>3. /\ p.result.decision = "ADMITTED"
        /\ p.result.approval # NoApproval => p.result.approval.approver # p.issuer
    BY <1>2, <2>2 DEF IssuePermit
  <2>4. p.result \in results
    <3>1. PICK r \in results, issuer \in Principals, ap \in Approvals \cup {NoApproval},
               other \in SUBSET Reservations : IssuePermit(r, issuer, ap, other)
      BY <1>2 DEF Next, vars, Lapse, Admit
    <3>2. QED
      BY <1>2, <3>1 DEF IssuePermit
  <2>5. QED
    BY <2>3, <2>4 DEF OnItsApproval
<1>3. QED
  BY <1>1, <1>2

\* issue_permit compares its issuer with whatever approval its caller passes.  A host that
\* passes it the approval admit was given gets the separation of duties the code is after:
\* a reserved kind has its permit from another principal than the human who approved it.
THEOREM FourEyesIfApprovalIsHandedOn ==
  Spec /\ [][ApprovalIsHandedOn]_vars => []FourEyes
<1>1. Init => OnItsApproval /\ FourEyes
  BY DEF Init, OnItsApproval, FourEyes
<1>2. Inv /\ OnItsApproval /\ FourEyes /\ [Next]_vars /\ [ApprovalIsHandedOn]_vars
        => FourEyes'
  BY FourEyesStep
<1>3. QED
  BY <1>1, <1>2, OnItsApprovalStep, InvAlways, PTL DEF Spec
================================================================================
