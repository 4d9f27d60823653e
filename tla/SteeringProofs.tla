---------------------------- MODULE SteeringProofs ----------------------------
(***************************************************************************)
(* Theorems about Steering, for any contexts, planes, blocks, agents,      *)
(* inventories and stage receipts, and however often what is called.       *)
(***************************************************************************)
EXTENDS Steering, TLAPS

--------------------------------------------------------------------------------
(* What the planes find. *)

\* A finding of a plane has its type, and one that is not satisfied is grounded and
\* applicable.  The falsifiability plane has such a finding of refuted claims only.
LEMMA AssessFacts ==
  ASSUME NEW p \in AllPlanes, NEW ctx \in Context, NEW working
  PROVE  LET f == Assess(p, ctx, working) IN
         /\ f \in Finding
         /\ f.verdict = "not_satisfied" => f.grounded /\ f.applicable
         /\ p = "falsifiability" =>
              (f.verdict = "not_satisfied" <=> p \in working /\ ctx.claims = "refuted")
  <1> USE DEF Found, Advisory, NotApplicable, Finding, Verdicts
  <1>1. CASE p \notin working
    BY <1>1 DEF Assess
  <1>2. CASE p \in working /\ p = "deontic"
    BY <1>2 DEF Assess, Assessor, AssessDeontic
  <1>3. CASE p \in working /\ p = "norm"
    BY <1>3 DEF Assess, Assessor, AssessNorm
  <1>4. CASE p \in working /\ p = "mandate"
    BY <1>4 DEF Assess, Assessor, AssessMandate, Context
  <1>5. CASE p \in working /\ p = "escalation"
    BY <1>5 DEF Assess, Assessor, AssessEscalation, Context
  <1>6. CASE p \in working /\ p = "proxy"
    BY <1>6 DEF Assess, Assessor, AssessProxy
  <1>7. CASE p \in working /\ p = "falsifiability"
    BY <1>7 DEF Assess, Assessor, AssessFalsifiability, Context
  <1>8. QED
    BY <1>1, <1>2, <1>3, <1>4, <1>5, <1>6, <1>7 DEF AllPlanes

\* Decisions are control actions, and verdicts are verdicts.
LEMMA FoldTypes ==
  ASSUME NEW f
  PROVE  Decide(f) \in ControlActions /\ GroundingBlock(f) \in Verdicts \cup {Bare}
  BY DEF Decide, ControlActions, GroundingBlock, Fold, Verdicts

\* Whatever the findings, the two folds agree, but on claims that are refuted.
LEMMA FoldsAgree ==
  ASSUME NEW ctx \in Context, NEW planes \in SUBSET AllPlanes, NEW working
  PROVE  LET f == Findings(ctx, planes, working)
             refuted == "falsifiability" \in planes \cap working /\ ctx.claims = "refuted"
         IN
         /\ GroundingBlock(f) \in {"satisfied", Bare} => Decide(f) = "no-steer" /\ ~refuted
         /\ GroundingBlock(f) = "open" => Decide(f) = "route-human"
         /\ GroundingBlock(f) = "not_satisfied" /\ ~refuted => Decide(f) # "no-steer"
  <1> DEFINE f == Findings(ctx, planes, working)
             refuted == "falsifiability" \in planes \cap working /\ ctx.claims = "refuted"
             Bad  == \E p \in planes : f[p].grounded /\ f[p].verdict = "not_satisfied"
             Open == \E p \in planes :
                       f[p].grounded /\ f[p].applicable /\ f[p].verdict = "open"
             Objection == \/ Against(f, {"deontic", "proxy"})
                          \/ Against(f, {"escalation"})
                          \/ Against(f, {"mandate", "norm"})
  <1>1. /\ DOMAIN f = planes
        /\ \A p \in planes :
             /\ f[p] \in Finding
             /\ f[p].verdict = "not_satisfied" => f[p].grounded /\ f[p].applicable
        /\ "falsifiability" \in planes =>
             (f["falsifiability"].verdict = "not_satisfied" <=> refuted)
    BY AssessFacts DEF Findings
  <1>2. refuted => "falsifiability" \in planes
    OBVIOUS
  <1> HIDE DEF f, refuted
  <1>3. Grounded(f) = {p \in planes : f[p].grounded}
    BY <1>1 DEF Grounded
  <1>4. Unresolved(f) <=> Open
    BY <1>3 DEF Unresolved
  <1>5. (Objection => Bad) /\ (refuted => Bad) /\ (Bad => Objection \/ refuted)
    BY <1>1, <1>2, <1>3 DEF Against, AllPlanes
  <1>6. /\ Fold(f) = "not_satisfied" <=> Bad
        /\ ~Bad => (Fold(f) = "open" <=> Open)
        /\ Fold(f) \in {"not_satisfied", "open", "satisfied"}
    BY <1>1, <1>3 DEF Fold
  <1>7. Grounded(f) = {} => ~Bad /\ ~Open
    BY <1>3
  <1> HIDE DEF Bad, Open
  <1>8. /\ Decide(f) = "no-steer" <=> ~Objection /\ ~Open
        /\ ~Objection /\ Open => Decide(f) = "route-human"
    BY <1>4 DEF Decide
  <1>9. /\ GroundingBlock(f) \in {"satisfied", Bare} => ~Bad /\ ~Open
        /\ GroundingBlock(f) = "open" => ~Bad /\ Open
        /\ GroundingBlock(f) = "not_satisfied" => Bad
    BY <1>6, <1>7, SteeringAssumption DEF GroundingBlock, Verdicts
  <1> HIDE DEF Objection
  <1>10. /\ GroundingBlock(f) \in {"satisfied", Bare} => Decide(f) = "no-steer" /\ ~refuted
         /\ GroundingBlock(f) = "open" => Decide(f) = "route-human"
         /\ GroundingBlock(f) = "not_satisfied" /\ ~refuted => Decide(f) # "no-steer"
    BY <1>5, <1>8, <1>9
  <1>11. QED
    BY <1>10 DEF f, refuted

\* What a plane that was consulted and works can see in the input is in the findings,
\* and nobody is held for anything else.
LEMMA SeenIsFound ==
  ASSUME NEW ctx \in Context, NEW planes \in SUBSET AllPlanes, NEW working
  PROVE  LET r == ResultOf(ctx, planes, working)
             f == Findings(ctx, planes, working)
         IN  /\ Prohibited(r)  <=> Against(f, {"deontic", "proxy"})
             /\ OverCeiling(r) => Against(f, {"escalation"})
             /\ Breach(r)      => Against(f, {"mandate", "norm"})
             /\ Doubtful(r)    => Unresolved(f)
  <1> DEFINE r == ResultOf(ctx, planes, working)
             f == Findings(ctx, planes, working)
  <1>1. r.context = ctx /\ r.planes = planes /\ r.working = working
    BY DEF ResultOf
  <1>2. ASSUME NEW p \in planes \cap working
        PROVE  f[p] = Assessor(p, ctx) /\ p \in DOMAIN f
    BY DEF Findings, Assess
  <1> HIDE DEF r, f
  <1> USE DEF Sees, Assessor, Found, Grounded
  <1>3. ASSUME Prohibited(r) PROVE Against(f, {"deontic", "proxy"})
    <2>1. CASE "deontic" \in planes \cap working /\ <<"F", ctx.action>> \in ctx.norms
      <3>1. ctx.action # NoAction /\ ctx.norms # {}
        BY <2>1, SteeringAssumption DEF Context
      <3>2. f["deontic"] = Found("not_satisfied") /\ "deontic" \in DOMAIN f
        BY <1>2, <2>1, <3>1 DEF AssessDeontic
      <3>3. QED
        BY <3>2 DEF Against
    <2>2. CASE "proxy" \in planes \cap working /\ ctx.measured /\ "gamed" \in ctx.proxies
      <3>1. f["proxy"] = Found("not_satisfied") /\ "proxy" \in DOMAIN f
        BY <1>2, <2>2 DEF AssessProxy
      <3>2. QED
        BY <3>1 DEF Against
    <2>3. QED
      BY <1>1, <1>3, <2>1, <2>2 DEF Prohibited
  <1>4. ASSUME OverCeiling(r) PROVE Against(f, {"escalation"})
    <2>1. "escalation" \in planes \cap working /\ ctx.autonomy = "over"
      BY <1>1, <1>4 DEF OverCeiling
    <2>2. f["escalation"] = Found("not_satisfied") /\ "escalation" \in DOMAIN f
      BY <1>2, <2>1 DEF AssessEscalation
    <2>3. QED
      BY <2>2 DEF Against
  <1>5. ASSUME Breach(r) PROVE Against(f, {"mandate", "norm"})
    <2>1. CASE "mandate" \in planes \cap working /\ ctx.mandate = "diverged"
      <3>1. f["mandate"] = Found("not_satisfied") /\ "mandate" \in DOMAIN f
        BY <1>2, <2>1 DEF AssessMandate
      <3>2. QED
        BY <3>1 DEF Against
    <2>2. CASE "norm" \in planes \cap working /\ ctx.text /\ DutyMatches("F", ctx)
      <3>1. f["norm"] = Found("not_satisfied") /\ "norm" \in DOMAIN f
        BY <1>2, <2>2 DEF AssessNorm
      <3>2. QED
        BY <3>1 DEF Against
    <2>3. QED
      BY <1>1, <1>5, <2>1, <2>2 DEF Breach
  <1>6. ASSUME Doubtful(r) PROVE Unresolved(f)
    <2>1. CASE "falsifiability" \in planes \cap working /\ ctx.claims = "weak"
      <3>1. f["falsifiability"] = Found("open") /\ "falsifiability" \in DOMAIN f
        BY <1>2, <2>1 DEF AssessFalsifiability
      <3>2. QED
        BY <3>1 DEF Unresolved
    <2>2. CASE "escalation" \in planes \cap working /\ ctx.autonomy = "unclear"
      <3>1. f["escalation"] = Found("open") /\ "escalation" \in DOMAIN f
        BY <1>2, <2>2 DEF AssessEscalation
      <3>2. QED
        BY <3>1 DEF Unresolved
    <2>3. QED
      BY <1>1, <1>6, <2>1, <2>2 DEF Doubtful
  <1>7. ASSUME Against(f, {"deontic", "proxy"}) PROVE Prohibited(r)
    <2>1. PICK p \in {"deontic", "proxy"} :
            p \in planes /\ f[p].verdict = "not_satisfied" /\ f[p] = Assess(p, ctx, working)
      BY <1>7 DEF Against, Findings, f
    <2>2. p \in working
      BY <2>1 DEF Assess, Advisory
    <2>3. CASE p = "deontic"
      BY <1>1, <2>1, <2>2, <2>3 DEF Assess, AssessDeontic, NotApplicable, Prohibited
    <2>4. CASE p = "proxy"
      BY <1>1, <2>1, <2>2, <2>4 DEF Assess, AssessProxy, NotApplicable, Prohibited
    <2>5. QED
      BY <2>1, <2>3, <2>4
  <1>8. QED
    BY <1>3, <1>4, <1>5, <1>6, <1>7 DEF r, f
--------------------------------------------------------------------------------
(* Where every object comes from.  The inductive invariant: nothing is forged, and
   nothing an object was made of is ever withdrawn. *)

ResultMade(r) ==
  \E ctx \in Contexts, planes \in Planes, working \in Working :
    r = ResultOf(ctx, planes, working)

SteerMade(s) ==
  /\ s.result \in results
  /\ s.outcome = Outcome(s.result.recommended, s.agent, s.block, s.kind)

PlanMade(pl) ==
  \E a \in Actions, profile \in Profiles, b \in Blocks, r \in results \cup {NoResult},
     inventory \in Inventories, asked \in SUBSET Capabilities :
    pl = PlanOf(a, profile, b, r, inventory, asked)

PreviewMade(v) == v.plan \in plans /\ v.state = State(v.plan, v.given)

ClosingMade(k) ==
  /\ k.plan \in plans /\ k.preview \in previews /\ k.control \in dispatched
  /\ k.state = Closed(k.plan, k.preview, k.control, k.given)

Made ==
  /\ \A r \in results : ResultMade(r)
  /\ \A s \in steers : SteerMade(s)
  /\ \A pl \in plans : PlanMade(pl)
  /\ \A v \in previews : PreviewMade(v)
  /\ dispatched \subseteq [action : Actions, approved : BOOLEAN]
  /\ \A k \in closings : ClosingMade(k)

Grows ==
  /\ results \subseteq results' /\ plans \subseteq plans'
  /\ previews \subseteq previews' /\ dispatched \subseteq dispatched'

\* What was made of objects that are still there is still made of them.
LEMMA MadeStays ==
  ASSUME Made, Grows
  PROVE  /\ \A s \in steers : SteerMade(s)'
         /\ \A pl \in plans : PlanMade(pl)'
         /\ \A v \in previews : PreviewMade(v)'
         /\ \A k \in closings : ClosingMade(k)'
  <1>1. ASSUME NEW pl \in plans PROVE PlanMade(pl)'
    BY DEF Made, Grows, PlanMade
  <1>2. QED
    BY <1>1 DEF Made, Grows, SteerMade, PreviewMade, ClosingMade

LEMMA GroundMade ==
  ASSUME Made, NEW ctx \in Contexts, NEW planes \in Planes, NEW working \in Working,
         Ground(ctx, planes, working)
  PROVE  Made'
  <1>1. Grows
    BY DEF Ground, Grows
  <1>2. \A r \in results' : ResultMade(r)
    BY DEF Ground, Made, ResultMade
  <1>3. QED
    BY <1>1, <1>2, MadeStays DEF Ground, Made

\* The outcome does not depend on what is kept of block and kind.
LEMMA OutcomeKept ==
  ASSUME NEW action, NEW agent, NEW b, NEW kind
  PROVE  Outcome(action, agent, b, kind) =
           Outcome(action, agent, IF action = "steer" THEN b ELSE NoBlock,
                                  IF action = "steer" THEN kind ELSE NoKind)
  BY DEF Outcome

LEMMA GroundAndSteerMade ==
  ASSUME Made, NEW agent, NEW ctx \in Contexts, NEW planes \in Planes,
         NEW working \in Working, NEW b, NEW kind,
         GroundAndSteer(agent, ctx, planes, working, b, kind)
  PROVE  Made'
  <1> DEFINE r == ResultOf(ctx, planes, working)
             bounded == r.recommended = "steer"
             s == [result |-> r, agent |-> agent,
                   outcome |-> Outcome(r.recommended, agent, b, kind),
                   block |-> IF bounded THEN b ELSE NoBlock,
                   kind |-> IF bounded THEN kind ELSE NoKind]
  <1>1. results' = results \cup {r} /\ steers' = steers \cup {s}
        /\ UNCHANGED <<plans, previews, dispatched, closings>>
    BY DEF GroundAndSteer
  <1>2. Grows
    BY <1>1 DEF Grows
  <1>3. \A q \in results' : ResultMade(q)
    BY <1>1 DEF Made, ResultMade
  <1>4. SteerMade(s)'
    BY <1>1, OutcomeKept DEF SteerMade
  <1> HIDE DEF r, s
  <1>5. QED
    BY <1>1, <1>2, <1>3, <1>4, MadeStays DEF Made

LEMMA MakePlanMade ==
  ASSUME Made, NEW a \in Actions, NEW profile \in Profiles, NEW b \in Blocks,
         NEW r \in results \cup {NoResult}, NEW inventory \in Inventories,
         NEW asked \in SUBSET Capabilities,
         MakePlan(a, profile, b, r, inventory, asked)
  PROVE  Made'
  <1>1. /\ plans' = plans \cup {PlanOf(a, profile, b, r, inventory, asked)}
        /\ UNCHANGED <<results, steers, previews, dispatched, closings>>
    BY DEF MakePlan
  <1>2. PlanMade(PlanOf(a, profile, b, r, inventory, asked))'
    BY <1>1 DEF PlanMade
  <1>3. Grows
    BY <1>1 DEF Grows
  <1>4. QED
    BY <1>1, <1>2, <1>3, MadeStays DEF Made

LEMMA EnforcePreviewMade ==
  ASSUME Made, NEW pl \in plans, NEW given, EnforcePreview(pl, given)
  PROVE  Made'
  <1> DEFINE v == [plan |-> pl, given |-> given, state |-> State(pl, given)]
  <1>1. /\ previews' = previews \cup {v}
        /\ UNCHANGED <<results, steers, plans, dispatched, closings>>
    BY DEF EnforcePreview
  <1>2. PreviewMade(v)'
    BY <1>1 DEF PreviewMade
  <1> HIDE DEF v
  <1>3. Grows
    BY <1>1 DEF Grows
  <1>4. QED
    BY <1>1, <1>2, <1>3, MadeStays DEF Made

LEMMA DispatchMade ==
  ASSUME Made, NEW a \in Actions, NEW approved \in BOOLEAN, Dispatch(a, approved)
  PROVE  Made'
  <1>1. Grows
    BY DEF Dispatch, Grows
  <1>2. dispatched' \subseteq [action : Actions, approved : BOOLEAN]
    BY DEF Dispatch, Made
  <1>3. QED
    BY <1>1, <1>2, MadeStays DEF Dispatch, Made

LEMMA ReconcileMade ==
  ASSUME Made, NEW pl \in plans, NEW v \in previews, NEW control \in dispatched, NEW given,
         Reconcile(pl, v, control, given)
  PROVE  Made'
  <1> DEFINE k == [plan |-> pl, preview |-> v, control |-> control, given |-> given,
                   state |-> Closed(pl, v, control, given)]
  <1>1. /\ closings' = closings \cup {k}
        /\ UNCHANGED <<results, steers, plans, previews, dispatched>>
    BY DEF Reconcile
  <1>2. ClosingMade(k)'
    BY <1>1 DEF ClosingMade
  <1> HIDE DEF k
  <1>3. Grows
    BY <1>1 DEF Grows
  <1>4. QED
    BY <1>1, <1>2, <1>3, MadeStays DEF Made

\* Made is inductive: the lemma the theorems below rest on.
LEMMA EveryObjectMade == Spec => []Made
  <1>1. Init => Made
    BY DEF Init, Made
  <1>2. Made /\ [Next]_vars => Made'
    <2> SUFFICES ASSUME Made, [Next]_vars PROVE Made'
      OBVIOUS
    <2>1. CASE UNCHANGED vars
      BY <2>1, MadeStays DEF vars, Made, Grows
    <2>2. ASSUME NEW ctx \in Contexts, NEW planes \in Planes, NEW working \in Working,
                 \/ Ground(ctx, planes, working)
                 \/ \E agent \in Agents, b \in Blocks \cup {NoBlock},
                       kind \in Kinds \cup {NoKind} :
                      GroundAndSteer(agent, ctx, planes, working, b, kind)
          PROVE  Made'
      BY <2>2, GroundMade, GroundAndSteerMade
    <2>3. ASSUME NEW a \in Actions, NEW profile \in Profiles, NEW b \in Blocks,
                 NEW r \in results \cup {NoResult}, NEW inventory \in Inventories,
                 NEW asked \in SUBSET Capabilities,
                 MakePlan(a, profile, b, r, inventory, asked)
          PROVE  Made'
      BY <2>3, MakePlanMade
    <2>4. ASSUME NEW pl \in plans, NEW given \in Bundles, EnforcePreview(pl, given)
          PROVE  Made'
      BY <2>4, EnforcePreviewMade
    <2>5. ASSUME NEW a \in Actions, NEW approved \in BOOLEAN, Dispatch(a, approved)
          PROVE  Made'
      BY <2>5, DispatchMade
    <2>6. ASSUME NEW pl \in plans, NEW v \in previews, NEW control \in dispatched,
                 NEW given \in Bundles, Reconcile(pl, v, control, given)
          PROVE  Made'
      BY <2>6, ReconcileMade
    <2>7. QED
      BY <2>1, <2>2, <2>3, <2>4, <2>5, <2>6 DEF Next
  <1>3. QED
    BY <1>1, <1>2, PTL DEF Spec
--------------------------------------------------------------------------------
(* What a plan, a preview and a closing say of what they were made of. *)

\* A result has its type, and the facts of its findings.
LEMMA ResultFacts ==
  ASSUME NEW r, ResultMade(r)
  PROVE  /\ r.context \in Contexts /\ r.planes \in Planes /\ r.working \in Working
         /\ r.verdict \in Verdicts \cup {Bare} /\ r.recommended \in ControlActions
         /\ r.verdict \in {"satisfied", Bare} => r.recommended = "no-steer" /\ ~Refuted(r)
         /\ r.verdict = "open" => r.recommended = "route-human"
         /\ r.verdict = "not_satisfied" /\ ~Refuted(r) => r.recommended # "no-steer"
  <1>1. PICK ctx \in Contexts, planes \in Planes, working \in Working :
          r = ResultOf(ctx, planes, working)
    BY DEF ResultMade
  <1>2. ctx \in Context /\ planes \in SUBSET AllPlanes
    BY SteeringAssumption
  <1>3. /\ r.context = ctx /\ r.planes = planes /\ r.working = working
        /\ r.verdict = GroundingBlock(Findings(ctx, planes, working))
        /\ r.recommended = Decide(Findings(ctx, planes, working))
    BY <1>1 DEF ResultOf
  <1>4. /\ r.verdict \in Verdicts \cup {Bare} /\ r.recommended \in ControlActions
    BY <1>3, FoldTypes
  <1>5. Refuted(r) <=> "falsifiability" \in planes \cap working /\ ctx.claims = "refuted"
    BY <1>3 DEF Refuted, Sees
  <1> DEFINE f == Findings(ctx, planes, working)
             refuted == "falsifiability" \in planes \cap working /\ ctx.claims = "refuted"
  <1>6. /\ GroundingBlock(f) \in {"satisfied", Bare} => Decide(f) = "no-steer" /\ ~refuted
        /\ GroundingBlock(f) = "open" => Decide(f) = "route-human"
        /\ GroundingBlock(f) = "not_satisfied" /\ ~refuted => Decide(f) # "no-steer"
    BY <1>2, FoldsAgree
  <1>7. r.verdict = GroundingBlock(f) /\ r.recommended = Decide(f) /\ (Refuted(r) <=> refuted)
    BY <1>3, <1>5
  <1> HIDE DEF f, refuted
  <1>8. QED
    BY <1>3, <1>4, <1>6, <1>7

\* What the planes saw decides what is recommended.
LEMMA SeenDecides ==
  ASSUME NEW r, ResultMade(r)
  PROVE  /\ Prohibited(r) => r.recommended = "hold"
         /\ OverCeiling(r) /\ ~Prohibited(r) => r.recommended = "route-human"
         /\ Breach(r) \/ Doubtful(r) \/ OverCeiling(r) => r.recommended # "no-steer"
  <1>1. PICK ctx \in Contexts, planes \in Planes, working \in Working :
          r = ResultOf(ctx, planes, working)
    BY DEF ResultMade
  <1>2. ctx \in Context /\ planes \in SUBSET AllPlanes
    BY SteeringAssumption
  <1> DEFINE f == Findings(ctx, planes, working)
  <1>3. r.recommended = Decide(f)
    BY <1>1 DEF ResultOf
  <1>4. /\ Prohibited(r)  <=> Against(f, {"deontic", "proxy"})
        /\ OverCeiling(r) => Against(f, {"escalation"})
        /\ Breach(r)      => Against(f, {"mandate", "norm"})
        /\ Doubtful(r)    => Unresolved(f)
    BY <1>1, <1>2, SeenIsFound
  <1> HIDE DEF f
  <1>5. QED
    BY <1>3, <1>4 DEF Decide

\* A plan is ready only within the block, and on a host that has what it asks for.
LEMMA PlanFacts ==
  ASSUME Made, NEW pl \in plans
  PROVE  /\ pl.result \in results \cup {NoResult}
         /\ pl.disposition \in ControlActions \cup {"refuse", "advisory"}
         /\ pl.recommended = Recommended(pl.result)
         /\ pl.ready => /\ KindOf[pl.action] \in pl.block.actions
                        /\ KindOf[pl.action] \notin pl.block.prohibited \cup pl.block.reserved
                        /\ Equipped(pl)
  <1>1. PICK a \in Actions, profile \in Profiles, b \in Blocks, r \in results \cup {NoResult},
             inventory \in Inventories, asked \in SUBSET Capabilities :
          pl = PlanOf(a, profile, b, r, inventory, asked)
    BY DEF Made, PlanMade
  <1> DEFINE kept == IF profile = "loomground" THEN asked ELSE {}
             ruling == Ruling(b, KindOf[a])
             missing == Missing(profile, inventory, asked)
             unassessed == r = NoResult /\ profile = "loomground"
  <1>2. /\ pl.action = a /\ pl.profile = profile /\ pl.block = b /\ pl.result = r
        /\ pl.inventory = inventory /\ pl.asked = kept
        /\ pl.ready = (ruling = "steer" /\ missing = {} /\ ~unassessed)
        /\ pl.recommended = Recommended(r)
        /\ pl.disposition = IF ruling # "steer" THEN ruling
                            ELSE IF missing # {} \/ unassessed THEN "route-human"
                            ELSE IF r = NoResult THEN "advisory"
                            ELSE r.recommended
    BY <1>1 DEF PlanOf
  <1>3. ruling \in {"refuse", "route-human", "steer"}
    BY DEF Ruling
  <1>4. r # NoResult => r.recommended \in ControlActions
    BY ResultFacts DEF Made
  <1>5. missing = {} => (profile = "loomground" => RequiredByRoles \cup asked \subseteq inventory)
    BY DEF Missing
  <1>6. ruling = "steer" => /\ KindOf[a] \in b.actions
                            /\ KindOf[a] \notin b.prohibited \cup b.reserved
    BY DEF Ruling, Refuses, RoutesToHuman
  <1> HIDE DEF ruling, missing, unassessed
  <1>7. pl.disposition \in ControlActions \cup {"refuse", "advisory"}
    BY <1>2, <1>3, <1>4 DEF ControlActions
  <1>8. pl.ready => Equipped(pl)
    BY <1>2, <1>5 DEF Equipped
  <1>9. QED
    BY <1>2, <1>6, <1>7, <1>8

\* Receipts that are sound and all hold are what AllHold asks for.
LEMMA ReportHolds ==
  ASSUME NEW given, NEW tools, NEW a, Sound(given, a), Report(given, tools, {"holds"})
  PROVE  AllHold(given, tools, a)
  BY DEF Sound, Report, AllHold

\* Only a ready plan that recommends nothing and whose receipts hold is admitted.
LEMMA AdmittedFacts ==
  ASSUME Made, NEW v \in Admitted
  PROVE  /\ v \in previews /\ v.plan \in plans
         /\ v.plan.ready /\ v.plan.result # NoResult /\ v.plan.result \in results
         /\ v.plan.result.recommended = "no-steer"
         /\ v.plan.profile = "loomground" => AllHold(v.given, Preflight, v.plan.action)
  <1> DEFINE pl == v.plan
  <1>1. v \in previews /\ pl \in plans /\ State(pl, v.given) = "ADMITTED"
    BY DEF Admitted, Made, PreviewMade
  <1>2. /\ pl.ready /\ pl.recommended \notin {"route-human", "hold", "steer"}
        /\ Sound(v.given, pl.action)
        /\ Report(v.given, PreflightOf(pl), {"holds"})
    BY <1>1 DEF State
  <1>3. pl.result \in results \cup {NoResult} /\ pl.recommended = Recommended(pl.result)
    BY <1>1, PlanFacts
  <1>4. pl.result # NoResult /\ pl.result.recommended = pl.recommended
    BY <1>2, <1>3 DEF Recommended
  <1>5. pl.result.recommended \in ControlActions
    BY <1>3, <1>4, ResultFacts DEF Made
  <1>6. pl.profile = "loomground" => AllHold(v.given, Preflight, pl.action)
    BY <1>2, ReportHolds DEF PreflightOf
  <1>7. QED
    BY <1>1, <1>2, <1>3, <1>4, <1>5, <1>6 DEF ControlActions

LEMMA MadeTypeOK == Made => TypeOK
  <1> SUFFICES ASSUME Made PROVE TypeOK
    OBVIOUS
  <1>1. \A r \in results :
          /\ r.context \in Contexts /\ r.planes \in Planes /\ r.working \in Working
          /\ r.verdict \in Verdicts \cup {Bare} /\ r.recommended \in ControlActions
    BY ResultFacts DEF Made
  <1>2. ASSUME NEW s \in steers PROVE s.result \in results /\ s.outcome \in Outcomes
    <2>1. s.result \in results
          /\ s.outcome = Outcome(s.result.recommended, s.agent, s.block, s.kind)
      BY DEF Made, SteerMade
    <2>2. s.result.recommended \in ControlActions
      BY <1>1, <2>1
    <2>3. QED
      BY <2>1, <2>2 DEF Outcome, Directed, Outcomes, ControlActions
  <1>3. ASSUME NEW pl \in plans
        PROVE  /\ pl.result \in results \cup {NoResult}
               /\ pl.disposition \in ControlActions \cup {"refuse", "advisory"}
               /\ pl.recommended \in ControlActions
    BY <1>1, PlanFacts DEF Recommended, ControlActions
  <1>4. ASSUME NEW v \in previews PROVE v.plan \in plans /\ v.state \in States
    BY DEF Made, PreviewMade, State, States
  <1>5. ASSUME NEW k \in closings
        PROVE  /\ k.plan \in plans /\ k.preview \in previews /\ k.control \in dispatched
               /\ k.state \in {"ROUTED_HUMAN", "RECONCILED", "CERTIFIED"}
    BY DEF Made, ClosingMade, Closed
  <1>6. QED
    BY <1>1, <1>2, <1>3, <1>4, <1>5 DEF TypeOK, Made

LEMMA MadeSteersFit == Made => SteersFitFindings
  <1> SUFFICES ASSUME Made, NEW s \in steers
               PROVE  /\ Prohibited(s.result) => s.outcome \in {"held", "denied"}
                      /\ OverCeiling(s.result) /\ ~Prohibited(s.result) =>
                           s.outcome = "surfaced"
                      /\ Breach(s.result) \/ Doubtful(s.result) => s.outcome # "nothing"
                      /\ s.outcome \in {"held", "directed"} => s.agent \in Overseers
                      /\ s.outcome = "directed" /\ s.block # NoBlock /\ s.kind # NoKind =>
                           s.kind \in s.block.actions \
                                        (s.block.prohibited \cup s.block.reserved)
    BY DEF SteersFitFindings
  <1> DEFINE r == s.result
  <1>1. r \in results /\ s.outcome = Outcome(r.recommended, s.agent, s.block, s.kind)
    BY DEF Made, SteerMade
  <1>2. ResultMade(r) /\ r.recommended \in ControlActions
    BY <1>1, ResultFacts DEF Made
  <1>3. /\ Prohibited(r) => r.recommended = "hold"
        /\ OverCeiling(r) /\ ~Prohibited(r) => r.recommended = "route-human"
        /\ Breach(r) \/ Doubtful(r) \/ OverCeiling(r) => r.recommended # "no-steer"
    BY <1>2, SeenDecides
  <1>4. s.outcome = "directed" =>
          Directed(s.block, s.kind) = "directed" /\ s.agent \in Overseers
    BY <1>1, <1>2 DEF Outcome, ControlActions
  <1>5. s.outcome = "directed" /\ s.block # NoBlock /\ s.kind # NoKind =>
          s.kind \in s.block.actions \ (s.block.prohibited \cup s.block.reserved)
    BY <1>4 DEF Directed, Refuses, RoutesToHuman
  <1>6. /\ r.recommended = "hold" => s.outcome \in {"held", "denied"}
        /\ r.recommended = "route-human" => s.outcome = "surfaced"
        /\ r.recommended # "no-steer" => s.outcome # "nothing"
        /\ s.outcome = "held" => s.agent \in Overseers
    BY <1>1, <1>2 DEF Outcome, Directed, ControlActions
  <1>7. QED
    BY <1>3, <1>4, <1>5, <1>6

LEMMA MadePreviewsEarned == Made => PreviewsAreEarned
  <1> SUFFICES ASSUME Made, NEW v \in Admitted
               PROVE  LET pl == v.plan IN
                      /\ KindOf[pl.action] \in
                           pl.block.actions \ (pl.block.prohibited \cup pl.block.reserved)
                      /\ Equipped(pl)
                      /\ pl.profile = "loomground" => AllHold(v.given, Preflight, pl.action)
    BY DEF PreviewsAreEarned
  <1>1. v.plan \in plans /\ v.plan.ready
        /\ (v.plan.profile = "loomground" => AllHold(v.given, Preflight, v.plan.action))
    BY AdmittedFacts
  <1>2. QED
    BY <1>1, PlanFacts

LEMMA MadeSteeredNotAdmitted == Made => SteeredIsNotAdmitted
  <1> SUFFICES ASSUME Made, NEW v \in Admitted
               PROVE  LET r == v.plan.result IN
                      /\ r # NoResult
                      /\ ~Prohibited(r) /\ ~OverCeiling(r) /\ ~Breach(r) /\ ~Doubtful(r)
                      /\ \A s \in steers : s.result = r => s.outcome = "nothing"
    BY DEF SteeredIsNotAdmitted
  <1> DEFINE r == v.plan.result
  <1>1. r # NoResult /\ r \in results /\ r.recommended = "no-steer"
    BY AdmittedFacts
  <1>2. ~Prohibited(r) /\ ~OverCeiling(r) /\ ~Breach(r) /\ ~Doubtful(r)
    BY <1>1, SeenDecides DEF Made
  <1>3. ASSUME NEW s \in steers, s.result = r PROVE s.outcome = "nothing"
    BY <1>1, <1>3 DEF Made, SteerMade, Outcome
  <1>4. QED
    BY <1>1, <1>2, <1>3

LEMMA MadeCertifiedComplete == Made => CertifiedRunsAreComplete
  <1> SUFFICES ASSUME Made, NEW k \in closings, k.state = "CERTIFIED"
               PROVE  LET a == k.plan.action  before == k.preview.plan IN
                      /\ k.preview \in Admitted /\ before.action = a /\ k.control.action = a
                      /\ KindOf[a] \notin before.block.prohibited \cup before.block.reserved
                      /\ before.profile = "loomground" =>
                           AllHold(k.preview.given, Preflight, a)
                      /\ k.plan.profile = "loomground" => AllHold(k.given, Postflight, a)
                      /\ k.control.approved => AllHold(k.given, {Oversight}, a)
    BY DEF CertifiedRunsAreComplete
  <1> DEFINE a == k.plan.action
             before == k.preview.plan
  <1>1. /\ k.preview \in previews
        /\ Closed(k.plan, k.preview, k.control, k.given) = "CERTIFIED"
    BY DEF Made, ClosingMade
  <1>2. /\ k.preview \in Admitted /\ before.action = a /\ k.control.action = a
        /\ Sound(k.given, a) /\ Report(k.given, PostflightOf(k.plan, k.control), {"holds"})
    BY <1>1 DEF Closed, Admitted
  <1>3. /\ before \in plans /\ before.ready
        /\ before.profile = "loomground" => AllHold(k.preview.given, Preflight, before.action)
    BY <1>2, AdmittedFacts
  <1>4. KindOf[a] \notin before.block.prohibited \cup before.block.reserved
    BY <1>2, <1>3, PlanFacts
  <1>5. AllHold(k.given, PostflightOf(k.plan, k.control), a)
    BY <1>2, ReportHolds
  <1>6. /\ k.plan.profile = "loomground" => AllHold(k.given, Postflight, a)
        /\ k.control.approved => AllHold(k.given, {Oversight}, a)
    BY <1>5 DEF AllHold, PostflightOf
  <1>7. QED
    BY <1>2, <1>3, <1>4, <1>6
--------------------------------------------------------------------------------
(* The theorems. *)

\* Every result, plan, preview and closing has its type.
THEOREM TypeCorrect == Spec => []TypeOK
  BY EveryObjectMade, MadeTypeOK, PTL

\* ground() answers no context with a verdict and an action that contradict each other,
\* unless the maker's claims were refuted: then, and only then, it may recommend nothing
\* on a verdict that is not satisfied.
THEOREM VerdictsAndDecisionsAgree == Spec => []VerdictAndDecisionAgree
  <1>1. Made => VerdictAndDecisionAgree
    BY ResultFacts DEF Made, VerdictAndDecisionAgree
  <1>2. QED
    BY <1>1, EveryObjectMade, PTL

\* ground_and_steer() stops what is forbidden, sends what is over the ceiling to the
\* human, and passes no breach and no doubt over in silence that a plane saw.
THEOREM SteersAreFit == Spec => []SteersFitFindings
  BY EveryObjectMade, MadeSteersFit, PTL

\* enforce_preview() admits inside the block only, on a fitted host, with every
\* preflight receipt.
THEOREM PreviewsAreFounded == Spec => []PreviewsAreEarned
  BY EveryObjectMade, MadePreviewsEarned, PTL

\* enforce_preview() admits nothing that a grounding found forbidden, gamed, over the
\* ceiling, in breach or in doubt; refuted claims alone it does not stop.
THEOREM SteeredNeverAdmitted == Spec => []SteeredIsNotAdmitted
  BY EveryObjectMade, MadeSteeredNotAdmitted, PTL

\* reconcile() certifies complete runs only.
THEOREM CertifiedRunsAreCompleteAlways == Spec => []CertifiedRunsAreComplete
  BY EveryObjectMade, MadeCertifiedComplete, PTL
--------------------------------------------------------------------------------
(* What it costs to be without a plane. *)

\* The planes whose word counts: those that were consulted and worked.
Effective(r) == r.planes \cap r.working

\* Of two results on one context, with the planes of one among those of the other: what
\* the fewer hold the more hold, what the fewer steer or send to a human the more do not
\* pass over, and a verdict against the action stays one.  Which of the three measures
\* the more planes take may be the milder one: a doubt that went to a human goes out as
\* a directive when one more plane finds a breach.
PlanesOnlyAdd ==
  \A r, q \in results :
    r.context = q.context /\ Effective(r) \subseteq Effective(q) =>
      /\ r.recommended = "hold" => q.recommended = "hold"
      /\ q.recommended = "no-steer" => r.recommended = "no-steer"
      /\ q.recommended = "steer" => r.recommended # "hold"
      /\ r.verdict = "not_satisfied" => q.verdict = "not_satisfied"

\* Without any plane nothing is said, and nothing is held against the maker; with one
\* there is a verdict.
BareIffNoPlane ==
  \A r \in results :
    /\ r.verdict = Bare <=> Effective(r) = {}
    /\ Effective(r) = {} => r.recommended = "no-steer"

\* Each plane answers for itself: it counts if it works, and then says the same
\* whichever others do.
LEMMA PlanesAlone ==
  ASSUME NEW ctx \in Context, NEW planes \in SUBSET AllPlanes, NEW working
  PROVE  /\ Grounded(Findings(ctx, planes, working)) = planes \cap working
         /\ \A p \in planes \cap working :
              Findings(ctx, planes, working)[p] = Assessor(p, ctx)
  <1> DEFINE f == Findings(ctx, planes, working)
  <1>1. /\ DOMAIN f = planes
        /\ \A p \in planes \cap working : f[p] = Assessor(p, ctx)
        /\ \A p \in planes \ working : f[p] = Advisory
    BY DEF Findings, Assess
  <1>2. ASSUME NEW p \in AllPlanes PROVE Assessor(p, ctx).grounded
    <2> USE DEF Assessor, Found, NotApplicable
    <2>1. CASE p = "deontic"
      BY <2>1 DEF AssessDeontic
    <2>2. CASE p = "norm"
      BY <2>2 DEF AssessNorm
    <2>3. CASE p = "mandate"
      BY <2>3 DEF AssessMandate, Context
    <2>4. CASE p = "escalation"
      BY <2>4 DEF AssessEscalation, Context
    <2>5. CASE p = "proxy"
      BY <2>5 DEF AssessProxy
    <2>6. CASE p = "falsifiability"
      BY <2>6 DEF AssessFalsifiability, Context
    <2>7. QED
      BY <2>1, <2>2, <2>3, <2>4, <2>5, <2>6 DEF AllPlanes
  <1> HIDE DEF f
  <1>3. Grounded(f) = planes \cap working
    BY <1>1, <1>2 DEF Grounded, Advisory
  <1>4. QED
    BY <1>1, <1>3 DEF f

\* The folds only hit on more when more planes count.
LEMMA FoldsGrow ==
  ASSUME NEW f, NEW g, Grounded(f) \subseteq Grounded(g),
         \A p \in Grounded(f) : f[p] = g[p]
  PROVE  /\ \A dimensions : Against(f, dimensions) => Against(g, dimensions)
         /\ Unresolved(f) => Unresolved(g)
         /\ Fold(f) = "not_satisfied" => Fold(g) = "not_satisfied"
  <1>1. \A dimensions : Against(f, dimensions) => Against(g, dimensions)
    BY DEF Against
  <1>2. Unresolved(f) => Unresolved(g)
    BY DEF Unresolved
  <1>3. ASSUME Fold(f) = "not_satisfied" PROVE Fold(g) = "not_satisfied"
    <2>1. PICK p \in Grounded(f) : f[p].applicable /\ f[p].verdict = "not_satisfied"
      BY <1>3 DEF Fold
    <2>2. p \in Grounded(g) /\ g[p].applicable /\ g[p].verdict = "not_satisfied"
      BY <2>1
    <2>3. QED
      BY <2>2 DEF Fold
  <1>4. QED
    BY <1>1, <1>2, <1>3

\* "each dimension degrades independently" (grounding.py:163): without some of its planes
\* ground() holds nobody whom it would not hold with them, and acts on nothing on which
\* it would not act with them, if not always in the same way.
THEOREM MissingPlanesOnlyMiss == Spec => []PlanesOnlyAdd
  <1>1. Made => PlanesOnlyAdd
    <2> SUFFICES ASSUME Made, NEW r \in results, NEW q \in results, r.context = q.context,
                        Effective(r) \subseteq Effective(q)
                 PROVE  /\ r.recommended = "hold" => q.recommended = "hold"
                        /\ q.recommended = "no-steer" => r.recommended = "no-steer"
                        /\ q.recommended = "steer" => r.recommended # "hold"
                        /\ r.verdict = "not_satisfied" => q.verdict = "not_satisfied"
      BY DEF PlanesOnlyAdd
    <2>1. PICK ctx \in Contexts, planes \in Planes, working \in Working :
            r = ResultOf(ctx, planes, working)
      BY DEF Made, ResultMade
    <2>2. PICK ctx2 \in Contexts, planes2 \in Planes, working2 \in Working :
            q = ResultOf(ctx2, planes2, working2)
      BY DEF Made, ResultMade
    <2> DEFINE f == Findings(ctx, planes, working)
               g == Findings(ctx, planes2, working2)
    <2>3. /\ ctx2 = ctx /\ planes \cap working \subseteq planes2 \cap working2
          /\ r.recommended = Decide(f) /\ r.verdict = GroundingBlock(f)
          /\ q.recommended = Decide(g) /\ q.verdict = GroundingBlock(g)
      BY <2>1, <2>2 DEF ResultOf, Effective
    <2>4. /\ ctx \in Context /\ planes \in SUBSET AllPlanes /\ planes2 \in SUBSET AllPlanes
      BY SteeringAssumption
    <2>5. /\ Grounded(f) = planes \cap working /\ Grounded(g) = planes2 \cap working2
          /\ \A p \in Grounded(f) : f[p] = g[p]
      <3>1. /\ Grounded(f) = planes \cap working
            /\ \A p \in planes \cap working : f[p] = Assessor(p, ctx)
        BY <2>4, PlanesAlone, Zenon
      <3>2. /\ Grounded(g) = planes2 \cap working2
            /\ \A p \in planes2 \cap working2 : g[p] = Assessor(p, ctx)
        BY <2>4, PlanesAlone, Zenon
      <3> HIDE DEF f, g
      <3>3. QED
        BY <2>3, <3>1, <3>2
    <2> HIDE DEF f, g
    <2>6. /\ \A dimensions : Against(f, dimensions) => Against(g, dimensions)
          /\ Unresolved(f) => Unresolved(g)
          /\ Fold(f) = "not_satisfied" => Fold(g) = "not_satisfied"
      BY <2>3, <2>5, FoldsGrow
    <2>7. /\ Decide(f) = "hold" => Decide(g) = "hold"
          /\ Decide(g) = "no-steer" => Decide(f) = "no-steer"
      BY <2>6 DEF Decide
    <2>8. GroundingBlock(f) = "not_satisfied" => GroundingBlock(g) = "not_satisfied"
      BY <2>3, <2>5, <2>6, SteeringAssumption DEF GroundingBlock, Verdicts
    <2>9. QED
      BY <2>3, <2>7, <2>8
  <1>2. QED
    BY <1>1, EveryObjectMade, PTL

\* Bare mode is the absence of every plane and nothing else, and it steers nobody.
THEOREM BareModeIsNoPlane == Spec => []BareIffNoPlane
  <1>1. Made => BareIffNoPlane
    <2> SUFFICES ASSUME Made, NEW r \in results
                 PROVE  /\ r.verdict = Bare <=> Effective(r) = {}
                        /\ Effective(r) = {} => r.recommended = "no-steer"
      BY DEF BareIffNoPlane
    <2>1. PICK ctx \in Contexts, planes \in Planes, working \in Working :
            r = ResultOf(ctx, planes, working)
      BY DEF Made, ResultMade
    <2> DEFINE f == Findings(ctx, planes, working)
    <2>2. /\ r.recommended = Decide(f) /\ r.verdict = GroundingBlock(f)
          /\ Effective(r) = planes \cap working
      BY <2>1 DEF ResultOf, Effective
    <2>3. Grounded(f) = planes \cap working
      BY SteeringAssumption, PlanesAlone
    <2> HIDE DEF f
    <2>4. Fold(f) # Bare
      BY SteeringAssumption DEF Fold, Verdicts
    <2>5. Grounded(f) = {} => Decide(f) = "no-steer"
      BY DEF Decide, Against, Unresolved
    <2>6. QED
      BY <2>2, <2>3, <2>4, <2>5 DEF GroundingBlock
  <1>2. QED
    BY <1>1, EveryObjectMade, PTL
================================================================================
