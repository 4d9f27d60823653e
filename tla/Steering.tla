-------------------------------- MODULE Steering --------------------------------
(***************************************************************************)
(* What becomes of a grounded finding: ComplianceAgent.ground_and_steer    *)
(* (a2a_compliance/channel.py) acts on it towards the maker, and           *)
(* ComplianceTeam.plan (team.py) takes it into a control plan, which       *)
(* enforce_preview and reconcile (lifecycle.py) carry through the host's   *)
(* dispatch.                                                               *)
(*                                                                         *)
(* All but the channel are pure, and nothing is signed or stored: the host *)
(* calls them when it likes, and passes each any object it got from any    *)
(* other.  These objects are the state.                                    *)
(***************************************************************************)
EXTENDS Naturals, FiniteSets, Grounding, GovernanceBlock

CONSTANTS
  KindOf,          \* KindOf[a]: the target kind of the proposed action a
  Contexts,        \* what the host may ground, see Context
  Planes,          \* the planes it may consult: sets of dimensions
  Working,         \* those that are there and do not raise: sets of dimensions
  Agents,
  Overseers,       \* the agents whom authorize() lets steer the maker
  Blocks,          \* governance blocks in circulation
  NoBlock, NoKind, NoResult,
  Capabilities,    \* tools, skills and contracts of a host
  RequiredByRoles, \* those some role requires
  Inventories,     \* what hosts may have: sets of capabilities
  Preflight, Postflight, Oversight,  \* PREFLIGHT_TOOLS, POSTFLIGHT_TOOLS, oversight_verify
  Bundles,         \* collections of stage receipts a host may hand over
  MaxResults, MaxPlans, MaxPreviews, MaxDispatches, MaxClosings,  \* bounds on each,
  MaxObjects                                                      \* and on their sum

Profiles == {"protocol", "loomground"}

\* own: is the role it names the owner of the tool?  holds stands for SATISFIED and
\* NOT_APPLICABLE, open for OPEN and ERROR.
StageReceipt ==
  [tool : Preflight \cup Postflight \cup {Oversight}, own : BOOLEAN, action : Actions,
   status : {"holds", "failed", "open"}]

ASSUME SteeringAssumption ==
  /\ KindOf \in [Actions -> Kinds]
  /\ Contexts \subseteq Context
  /\ Planes \subseteq SUBSET AllPlanes /\ Working \subseteq SUBSET AllPlanes
  /\ NoAction \notin Actions
  /\ Bare \notin Verdicts
  /\ Overseers \subseteq Agents
  /\ Blocks \subseteq Block /\ NoBlock \notin Blocks /\ NoKind \notin Kinds
  /\ RequiredByRoles \subseteq Capabilities /\ Inventories \subseteq SUBSET Capabilities
  /\ Bundles \subseteq SUBSET StageReceipt
  /\ MaxResults \in Nat /\ MaxPlans \in Nat /\ MaxPreviews \in Nat
  /\ MaxDispatches \in Nat /\ MaxClosings \in Nat /\ MaxObjects \in Nat

VARIABLES
  results,    \* grounding results, see Result
  steers,     \* what ground_and_steer did on them, see Steer
  plans,      \* control plans, see Plan
  previews,   \* enforcement previews, see Preview
  dispatched, \* control receipts of the host's dispatches
  closings    \* reconciliations, see Closing

vars == <<results, steers, plans, previews, dispatched, closings>>

Objects ==
  Cardinality(results) + Cardinality(steers) + Cardinality(plans) + Cardinality(previews)
    + Cardinality(dispatched) + Cardinality(closings)
Room(objects, max) == Cardinality(objects) < max /\ Objects < MaxObjects

Init ==
  /\ results = {} /\ steers = {}
  /\ plans = {} /\ previews = {}
  /\ dispatched = {} /\ closings = {}
--------------------------------------------------------------------------------
(* grounding.py: ground.  A result is what came of a context; the context, the planes
   consulted and those that worked are history. *)

ResultOf(ctx, planes, working) ==
  LET f == Findings(ctx, planes, working) IN
  [context |-> ctx, planes |-> planes, working |-> working,
   verdict |-> GroundingBlock(f), recommended |-> Decide(f)]

Ground(ctx, planes, working) ==
  /\ Room(results, MaxResults)
  /\ results' = results \cup {ResultOf(ctx, planes, working)}
  /\ UNCHANGED <<steers, plans, previews, dispatched, closings>>
--------------------------------------------------------------------------------
(* channel.py: ground_and_steer *)

\* issue_directive by an authorised agent that has block b of the maker, or none.
Directed(b, kind) ==
  CASE b = NoBlock \/ kind = NoKind -> "directed"
    [] OTHER -> IF Refuses(b, kind) THEN "refused"
                ELSE IF RoutesToHuman(b, kind) THEN "surfaced"
                ELSE "directed"

Outcome(recommended, agent, b, kind) ==
  CASE recommended = "no-steer"    -> "nothing"
    [] recommended = "route-human" -> "surfaced"
    [] recommended = "hold"        -> IF agent \in Overseers THEN "held" ELSE "denied"
    [] recommended = "steer"       -> IF agent \in Overseers THEN Directed(b, kind)
                                      ELSE "denied"

\* Block and kind are looked at for a directive only, and kept as history then.
GroundAndSteer(agent, ctx, planes, working, b, kind) ==
  /\ Room(results, MaxResults)
  /\ LET r == ResultOf(ctx, planes, working)
         bounded == r.recommended = "steer"
     IN
     /\ results' = results \cup {r}
     /\ steers' = steers \cup
          {[result |-> r, agent |-> agent, outcome |-> Outcome(r.recommended, agent, b, kind),
            block |-> IF bounded THEN b ELSE NoBlock,
            kind |-> IF bounded THEN kind ELSE NoKind]}
  /\ UNCHANGED <<plans, previews, dispatched, closings>>
--------------------------------------------------------------------------------
(* team.py: plan *)

Ruling(b, kind) ==
  IF Refuses(b, kind) THEN "refuse"
  ELSE IF RoutesToHuman(b, kind) THEN "route-human"
  ELSE "steer"

\* Mutant of Missing: what the request asks for beyond the roles is not looked for.
MissingByRoles(profile, inventory, asked) ==
  IF profile = "loomground" THEN RequiredByRoles \ inventory ELSE {}

Missing(profile, inventory, asked) ==
  IF profile = "loomground" THEN (RequiredByRoles \cup asked) \ inventory ELSE {}

\* Mutant of Recommended: without a grounding the advisory disposition is carried over.
RecommendedAdvisory(r) == IF r = NoResult THEN "advisory" ELSE r.recommended

Recommended(r) == IF r = NoResult THEN "route-human" ELSE r.recommended

\* The plan for action a.  result, block, inventory and asked are what the call was
\* given; that the result is about a is nowhere checked.
PlanOf(a, profile, b, r, inventory, asked) ==
  LET ruling  == Ruling(b, KindOf[a])
      missing == Missing(profile, inventory, asked)
      unassessed == r = NoResult /\ profile = "loomground"
  IN
  [action |-> a, profile |-> profile, block |-> b, result |-> r,
   inventory |-> inventory, asked |-> IF profile = "loomground" THEN asked ELSE {},
   ruling |-> ruling,
   ready |-> ruling = "steer" /\ missing = {} /\ ~unassessed,
   disposition |-> IF ruling # "steer" THEN ruling
                   ELSE IF missing # {} \/ unassessed THEN "route-human"
                   ELSE IF r = NoResult THEN "advisory"
                   ELSE r.recommended,
   recommended |-> Recommended(r)]

MakePlan(a, profile, b, r, inventory, asked) ==
  /\ Room(plans, MaxPlans)
  /\ plans' = plans \cup {PlanOf(a, profile, b, r, inventory, asked)}
  /\ UNCHANGED <<results, steers, previews, dispatched, closings>>
--------------------------------------------------------------------------------
(* lifecycle.py: stage receipts *)

\* _index: a receipt of another action or role, or the second of its tool, spoils all.
Sound(given, a) ==
  /\ \A r \in given : r.action = a /\ r.own
  /\ \A r, q \in given : r.tool = q.tool => r = q

\* Every one of these tools has reported, and with one of these statuses.
Report(given, tools, statuses) ==
  \A t \in tools : \E r \in given : r.tool = t /\ r.status \in statuses

(* lifecycle.py: enforce_preview *)

PreflightOf(pl) == IF pl.profile = "loomground" THEN Preflight ELSE {}

\* Mutant of State: receipts are asked for, the grounding is not.
StateOfReceipts(pl, given) ==
  CASE pl.disposition = "refuse" -> "REFUSED"
    [] pl.disposition # "refuse" /\ ~pl.ready -> "ROUTED_HUMAN"
    [] OTHER ->
       IF ~Sound(given, pl.action) \/ ~Report(given, PreflightOf(pl), {"holds", "failed"})
       THEN "ROUTED_HUMAN"
       ELSE IF ~Report(given, PreflightOf(pl), {"holds"}) THEN "HELD"
       ELSE "ADMITTED"

\* The first of its early returns that applies.
State(pl, given) ==
  IF pl.disposition = "refuse" THEN "REFUSED"
  ELSE IF pl.ruling = "route-human" \/ ~pl.ready \/ pl.recommended = "route-human"
  THEN "ROUTED_HUMAN"
  ELSE IF pl.recommended \in {"hold", "steer"} THEN "HELD"
  ELSE IF ~Sound(given, pl.action) \/ ~Report(given, PreflightOf(pl), {"holds", "failed"})
  THEN "ROUTED_HUMAN"
  ELSE IF ~Report(given, PreflightOf(pl), {"holds"}) THEN "HELD"
  ELSE "ADMITTED"

\* A preview has the plan's action and its own state; plan and given are history.
EnforcePreview(pl, given) ==
  /\ Room(previews, MaxPreviews)
  /\ previews' = previews \cup {[plan |-> pl, given |-> given, state |-> State(pl, given)]}
  /\ UNCHANGED <<results, steers, plans, dispatched, closings>>

\* The host dispatches when it likes, with a human's approval or without.
Dispatch(a, approved) ==
  /\ Room(dispatched, MaxDispatches)
  /\ dispatched' = dispatched \cup {[action |-> a, approved |-> approved]}
  /\ UNCHANGED <<results, steers, plans, previews, closings>>

(* lifecycle.py: reconcile *)

PostflightOf(pl, control) ==
  (IF pl.profile = "loomground" THEN Postflight ELSE {})
    \cup (IF control.approved THEN {Oversight} ELSE {})

\* Mutant of Closed: the preview is bound to the plan, its state is not looked at.
ClosedUnadmitted(pl, v, control, given) ==
  IF v.plan.action # pl.action \/ control.action # pl.action THEN "ROUTED_HUMAN"
  ELSE IF Sound(given, pl.action) /\ Report(given, PostflightOf(pl, control), {"holds"})
  THEN "CERTIFIED"
  ELSE "RECONCILED"

Closed(pl, v, control, given) ==
  IF \/ v.state # "ADMITTED"
     \/ v.plan.action # pl.action
     \/ control.action # pl.action
  THEN "ROUTED_HUMAN"
  ELSE IF Sound(given, pl.action) /\ Report(given, PostflightOf(pl, control), {"holds"})
  THEN "CERTIFIED"
  ELSE "RECONCILED"

Reconcile(pl, v, control, given) ==
  /\ Room(closings, MaxClosings)
  /\ closings' = closings \cup {[plan |-> pl, preview |-> v, control |-> control,
                                 given |-> given, state |-> Closed(pl, v, control, given)]}
  /\ UNCHANGED <<results, steers, plans, previews, dispatched>>
--------------------------------------------------------------------------------
Next ==
  \/ \E ctx \in Contexts, planes \in Planes, working \in Working :
       \/ Ground(ctx, planes, working)
       \/ \E agent \in Agents, b \in Blocks \cup {NoBlock}, kind \in Kinds \cup {NoKind} :
            GroundAndSteer(agent, ctx, planes, working, b, kind)
  \/ \E a \in Actions, profile \in Profiles, b \in Blocks, r \in results \cup {NoResult},
        inventory \in Inventories, asked \in SUBSET Capabilities :
       MakePlan(a, profile, b, r, inventory, asked)
  \/ \E pl \in plans, given \in Bundles : EnforcePreview(pl, given)
  \/ \E a \in Actions, approved \in BOOLEAN : Dispatch(a, approved)
  \/ \E pl \in plans, v \in previews, control \in dispatched, given \in Bundles :
       Reconcile(pl, v, control, given)

Spec == Init /\ [][Next]_vars
--------------------------------------------------------------------------------
Outcomes == {"nothing", "surfaced", "held", "directed", "denied", "refused"}
States   == {"REFUSED", "ROUTED_HUMAN", "HELD", "ADMITTED"}

TypeOK ==
  /\ \A r \in results :
       /\ r.context \in Contexts
       /\ r.planes \in Planes /\ r.working \in Working
       /\ r.verdict \in Verdicts \cup {Bare}
       /\ r.recommended \in ControlActions
  /\ \A s \in steers : s.result \in results /\ s.outcome \in Outcomes
  /\ \A pl \in plans :
       /\ pl.result \in results \cup {NoResult}
       /\ pl.disposition \in ControlActions \cup {"refuse", "advisory"}
       /\ pl.recommended \in ControlActions
  /\ \A v \in previews : v.plan \in plans /\ v.state \in States
  /\ dispatched \subseteq [action : Actions, approved : BOOLEAN]
  /\ \A k \in closings :
       /\ k.plan \in plans /\ k.preview \in previews /\ k.control \in dispatched
       /\ k.state \in {"ROUTED_HUMAN", "RECONCILED", "CERTIFIED"}

\* What the input says, seen by a plane that was consulted and works.
Sees(r, p) == p \in r.planes \cap r.working
Refuted(r) == Sees(r, "falsifiability") /\ r.context.claims = "refuted"

\* The verdict on the envelope and the action the agent takes are folded from the
\* findings by two functions, in different orders.  On a verdict that is satisfied or
\* absent the maker is left alone, on an open one the human is asked, and a maker is
\* held or steered on one that is not satisfied only.  It is left alone on such a
\* verdict, too, in one case, and in no other: its claims were refuted, which the one
\* function counts and the other has no pass for.
VerdictAndDecisionAgree ==
  \A r \in results :
    /\ r.verdict \in {"satisfied", Bare} => r.recommended = "no-steer" /\ ~Refuted(r)
    /\ r.verdict = "open" => r.recommended = "route-human"
    /\ r.verdict = "not_satisfied" /\ ~Refuted(r) => r.recommended # "no-steer"

Prohibited(r) ==
  LET ctx == r.context IN
  \/ Sees(r, "deontic") /\ <<"F", ctx.action>> \in ctx.norms
  \/ Sees(r, "proxy") /\ ctx.measured /\ "gamed" \in ctx.proxies
OverCeiling(r) == Sees(r, "escalation") /\ r.context.autonomy = "over"
Breach(r) ==
  LET ctx == r.context IN
  \/ Sees(r, "mandate") /\ ctx.mandate = "diverged"
  \/ Sees(r, "norm") /\ ctx.text /\ DutyMatches("F", ctx)
Doubtful(r) ==
  \/ Sees(r, "falsifiability") /\ r.context.claims = "weak"
  \/ Sees(r, "escalation") /\ r.context.autonomy = "unclear"

\* From input to maker: a forbidden action or a gamed proxy holds the maker, or nobody
\* had the right to; a request over the ceiling goes to the human and never out as a
\* directive; no breach and no doubt passes in silence.  Whatever reached the maker
\* came from an overseer, and a directive towards a kind stays inside the block.
\* Refuted claims are the one objection that may pass, see VerdictAndDecisionAgree.
SteersFitFindings ==
  \A s \in steers :
    /\ Prohibited(s.result) => s.outcome \in {"held", "denied"}
    /\ OverCeiling(s.result) /\ ~Prohibited(s.result) => s.outcome = "surfaced"
    /\ Breach(s.result) \/ Doubtful(s.result) => s.outcome # "nothing"
    /\ s.outcome \in {"held", "directed"} => s.agent \in Overseers
    /\ s.outcome = "directed" /\ s.block # NoBlock /\ s.kind # NoKind =>
         s.kind \in s.block.actions \ (s.block.prohibited \cup s.block.reserved)

Admitted == {v \in previews : v.state = "ADMITTED"}

\* A preview admits only what the maker may do on its own, a host that can do all the
\* plan asks of it, and in the full profile one holding receipt of every preflight
\* tool, all of them about this action and of the roles that own the tools.
Equipped(pl) == pl.profile = "loomground" => RequiredByRoles \cup pl.asked \subseteq pl.inventory

AllHold(given, tools, a) ==
  \A t \in tools :
    \E r \in given : r.tool = t /\ r.own /\ r.action = a /\ r.status = "holds"

PreviewsAreEarned ==
  \A v \in Admitted :
    LET pl == v.plan IN
    /\ KindOf[pl.action] \in pl.block.actions \ (pl.block.prohibited \cup pl.block.reserved)
    /\ Equipped(pl)
    /\ pl.profile = "loomground" => AllHold(v.given, Preflight, pl.action)

\* No action is admitted, in either profile, without a grounding, or on one that found
\* it forbidden, gamed, over the ceiling, in breach or in doubt, or that an agent acted
\* on.  Refuted claims do not count, for ground() recommends nothing on them.
SteeredIsNotAdmitted ==
  \A v \in Admitted :
    LET r == v.plan.result IN
    /\ r # NoResult
    /\ ~Prohibited(r) /\ ~OverCeiling(r) /\ ~Breach(r) /\ ~Doubtful(r)
    /\ \A s \in steers : s.result = r => s.outcome = "nothing"

\* A certified run is complete, although plan, preview, dispatch and receipts may come
\* from different calls in any order: all are of one action, which some plan admitted
\* inside its block; in the full profile every tool reported, before and after; and
\* what a human approved has its oversight verified.
CertifiedRunsAreComplete ==
  \A k \in closings :
    k.state = "CERTIFIED" =>
      LET a == k.plan.action  before == k.preview.plan IN
      /\ k.preview \in Admitted /\ before.action = a /\ k.control.action = a
      /\ KindOf[a] \notin before.block.prohibited \cup before.block.reserved
      /\ before.profile = "loomground" => AllHold(k.preview.given, Preflight, a)
      /\ k.plan.profile = "loomground" => AllHold(k.given, Postflight, a)
      /\ k.control.approved => AllHold(k.given, {Oversight}, a)
================================================================================
