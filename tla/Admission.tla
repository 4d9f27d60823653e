------------------------------- MODULE Admission -------------------------------
(***************************************************************************)
(* From a plan to a permit: ComplianceTeam.plan (a2a_compliance/team.py),  *)
(* admit and issue_permit (wire/admission.py), under a governance block.   *)
(*                                                                         *)
(* All three are pure or guard one signature; what makes the protocol is   *)
(* that the host calls them in any order and passes each of them any of    *)
(* the objects in circulation, genuine or not, of this action or another.  *)
(***************************************************************************)
EXTENDS Naturals, GovernanceBlock

CONSTANTS
  Actions, KindOf,   \* KindOf[a]: the kind of the proposed action a
  Reservations, Principals, Roles,
  Maker,          \* whose actions they are
  Blocks,         \* governance blocks in circulation, see Block
  Pins,           \* signed governance blocks, see Pin
  PolicyAuthors,  \* principals whose keys may sign governance blocks
  Receipts,       \* stage receipts, see Receipt
  Preflight,      \* the tools of PREFLIGHT_TOOLS
  Approvals,      \* human approval receipts, see Approval
  Authorized,     \* <<kind, approver, role>> that the ApproverAuthority allows
  Lapsing,        \* receipts and approvals that may expire or be revoked
  NoPin, NoApproval,
  MaxAdmits, MaxPermits   \* bounds: results and permits that are kept

\* An action digest covers maker, kind and proposed action: it is the action.
\* "genuine" stands for what verify() asks of an object besides its lapse: schema,
\* digest, signature, and a key bound to type, role and identity.
Pin == [block : Blocks, signer : Principals, author : Principals, genuine : BOOLEAN]
Receipt == [tool : Preflight, action : Actions, holds : BOOLEAN, genuine : BOOLEAN]
Approval == [action : Actions, approver : Principals, role : Roles,
             reservations : SUBSET Reservations, genuine : BOOLEAN]
Profiles == {"protocol", "loomground"}

ASSUME AdmissionAssumption ==
  /\ KindOf \in [Actions -> Kinds]
  /\ Blocks \subseteq Block /\ Pins \subseteq Pin
  /\ Receipts \subseteq Receipt /\ Approvals \subseteq Approval
  /\ Maker \in Principals /\ PolicyAuthors \subseteq Principals
  /\ NoPin \notin Pins /\ NoApproval \notin Approvals
  /\ Lapsing \subseteq Receipts \cup Approvals
  /\ MaxAdmits \in Nat /\ MaxPermits \in Nat

VARIABLES
  lapsed,    \* receipts and approvals that have expired or been revoked
  results,   \* the admission results the host holds, see Result
  permits,   \* the permits issued, see Permit
  admits, issues   \* counters, bounded

vars == <<lapsed, results, permits, admits, issues>>

\* block, pin, profile and approval are what the call was given (history); the
\* result itself has the action, the decision and the approver's reservations.
Result == [action : Actions, decision : {"ADMITTED", "REVIEW_REQUIRED", "REFUSED"},
           reservations : SUBSET Reservations, block : Blocks, pin : Pins \cup {NoPin},
           profile : Profiles, approval : Approvals \cup {NoApproval}]

Permit == [result : Result, issuer : Principals, reservations : SUBSET Reservations]

Init ==
  /\ lapsed = {}
  /\ results = {}
  /\ permits = {}
  /\ admits = 0 /\ issues = 0

Lapse(x) ==
  /\ lapsed' = lapsed \cup {x}
  /\ UNCHANGED <<results, permits, admits, issues>>
--------------------------------------------------------------------------------
(* What admit asks of its arguments, one operator per _findings function. *)

\* A pin signs the very block in force, for its author, who is not the maker.
PinHolds(pin, b) ==
  /\ pin.block = b
  /\ pin.signer \in PolicyAuthors
  /\ pin.author = pin.signer
  /\ pin.signer # Maker
  /\ pin.genuine

\* Mutant of Verified: revocation and expiry are not looked at.
VerifiedOnce(x) == x.genuine

Verified(x) == x.genuine /\ x \notin lapsed

ApprovalHolds(ap, a) ==
  /\ ap # NoApproval
  /\ Verified(ap)
  /\ ap.action = a
  /\ <<KindOf[a], ap.approver, ap.role>> \in Authorized

\* One bad receipt spoils the set: not verified, of another action, or the second
\* of its tool.  The full profile needs one of every preflight tool, holding.
PreflightHolds(given, a, profile) ==
  /\ \A r \in given : Verified(r) /\ r.action = a
  /\ \A r, q \in given : r.tool = q.tool => r = q
  /\ profile = "loomground" =>
       \A t \in Preflight : \E r \in given : r.tool = t /\ r.holds

\* A plan has the obligations of the block it was planned under, which need not be
\* the block admit is given.
PlanObligations(planned) == planned.obligations

Acknowledges(acks, planned) == PlanObligations(planned) \subseteq acks

\* Mutant of Decision: an approval rescues what the block refuses.
DecisionRescued(a, profile, planned, b, pin, given, ap, acks) ==
  IF \/ Refuses(b, KindOf[a]) /\ ~ApprovalHolds(ap, a)
     \/ pin # NoPin /\ ~PinHolds(pin, b)
  THEN "REFUSED"
  ELSE IF /\ RoutesToHuman(b, KindOf[a]) => ApprovalHolds(ap, a)
          /\ PreflightHolds(given, a, profile)
          /\ Acknowledges(acks, planned)
  THEN "ADMITTED"
  ELSE "REVIEW_REQUIRED"

\* A refusal comes before, and without, everything a human could still supply.
Decision(a, profile, planned, b, pin, given, ap, acks) ==
  IF Refuses(b, KindOf[a]) \/ (pin # NoPin /\ ~PinHolds(pin, b))
  THEN "REFUSED"
  ELSE IF /\ RoutesToHuman(b, KindOf[a]) => ApprovalHolds(ap, a)
          /\ PreflightHolds(given, a, profile)
          /\ Acknowledges(acks, planned)
  THEN "ADMITTED"
  ELSE "REVIEW_REQUIRED"

\* Mutant of Kept: a result under review keeps the reservations, too.
KeptUnderReview(decision, routed, ap) ==
  IF decision # "REFUSED" /\ routed /\ ap # NoApproval THEN ap.reservations ELSE {}

\* Of the approval an admitted result keeps the reservations, if it was asked for.
Kept(decision, routed, ap) == IF decision = "ADMITTED" /\ routed THEN ap.reservations ELSE {}

\* plan, under block planned, and admit, under block b.
Admit(a, profile, planned, b, pin, given, ap, acks) ==
  /\ admits < MaxAdmits
  /\ admits' = admits + 1
  /\ LET decision == Decision(a, profile, planned, b, pin, given, ap, acks)
     IN  results' = results \cup
           {[action |-> a, decision |-> decision, block |-> b, pin |-> pin,
             profile |-> profile, approval |-> ap,
             reservations |-> Kept(decision, RoutesToHuman(b, KindOf[a]), ap)]}
  /\ UNCHANGED <<lapsed, permits, issues>>
--------------------------------------------------------------------------------
\* Mutant of Constrain: what the caller asks for shadows the reservations.
ConstrainAsAsked(r, asked) == IF asked # {} THEN asked ELSE r.reservations

\* The approver's reservations shadow whatever the caller asks for.
Constrain(r, asked) == IF r.reservations # {} THEN r.reservations ELSE asked

\* issue_permit compares the issuer with the approver of the approval it is given,
\* which need not be the one admit was given.
IssuePermit(r, issuer, ap, asked) ==
  /\ issues < MaxPermits
  /\ issues' = issues + 1
  /\ permits' = IF r.decision = "ADMITTED" /\ (ap # NoApproval => ap.approver # issuer)
                THEN permits \cup {[result |-> r, issuer |-> issuer,
                                    reservations |-> Constrain(r, asked)]}
                ELSE permits
  /\ UNCHANGED <<lapsed, results, admits>>

Next ==
  \/ \E x \in Lapsing : Lapse(x)
  \/ \E a \in Actions, profile \in Profiles, planned \in Blocks, b \in Blocks,
        pin \in Pins \cup {NoPin}, given \in SUBSET Receipts,
        ap \in Approvals \cup {NoApproval}, acks \in SUBSET Obligations :
       Admit(a, profile, planned, b, pin, given, ap, acks)
  \/ \E r \in results, issuer \in Principals, ap \in Approvals \cup {NoApproval},
        asked \in SUBSET Reservations :
       IssuePermit(r, issuer, ap, asked)

Spec == Init /\ [][Next]_vars
--------------------------------------------------------------------------------
TypeOK ==
  /\ lapsed \subseteq Lapsing
  /\ results \subseteq Result
  /\ \A r \in results : r.reservations # {} => r.decision = "ADMITTED"
  /\ permits \subseteq Permit
  /\ admits \in 0 .. MaxAdmits
  /\ issues \in 0 .. MaxPermits

Granted == {r \in results : r.decision = "ADMITTED"}

\* Whatever the host passes together, and however it plans, a permit rests on
\* genuine evidence about its own action: in the full profile a holding receipt of
\* every preflight tool; of a reserved kind, an authorised human's approval.
PermitsRestOnEvidence ==
  \A p \in permits :
    LET r == p.result IN
    /\ r \in Granted
    /\ r.profile = "loomground" =>
         \A t \in Preflight :
           \E q \in Receipts : q.tool = t /\ q.action = r.action /\ q.holds /\ q.genuine
    /\ KindOf[r.action] \in r.block.reserved =>
         \E ap \in Approvals :
           /\ ap.action = r.action /\ ap.genuine
           /\ <<KindOf[r.action], ap.approver, ap.role>> \in Authorized
           /\ ap.reservations \subseteq p.reservations

\* "no approval, human or otherwise, can rescue it": an action refused under a block
\* and its pin is never admitted under them, with whatever else.
RefusalIsFinal ==
  \A r, q \in results :
    r.action = q.action /\ r.block = q.block /\ r.pin = q.pin
      => ~(r.decision = "REFUSED" /\ q.decision = "ADMITTED")

\* Under a pin, the block in force is the one a policy author signed, never the
\* maker's own; and no kind that block prohibits or leaves out gets a permit.
PinnedBoundaryHolds ==
  \A p \in permits :
    p.result.pin # NoPin =>
      /\ p.result.pin.genuine
      /\ p.result.pin.signer \in PolicyAuthors \ {Maker}
      /\ KindOf[p.result.action] \notin p.result.pin.block.prohibited
      /\ KindOf[p.result.action] \in p.result.pin.block.actions \cup p.result.pin.block.reserved

\* What has lapsed is not admitted on: a step that admits a reserved kind does so on
\* an approval that stands at that moment.
LapsedApprovalsAdmitNothing ==
  [][\A r \in results' \ results :
       r.decision = "ADMITTED" /\ KindOf[r.action] \in r.block.reserved
         => r.approval \notin lapsed]_vars
================================================================================
