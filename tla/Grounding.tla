------------------------------- MODULE Grounding -------------------------------
(***************************************************************************)
(* From a maker's proposed action to a control action: the six value       *)
(* planes (a2a_compliance/planes.py) and what ground() makes of their      *)
(* findings (a2a_compliance/grounding.py).  Pure operators; Steering calls *)
(* them.                                                                   *)
(*                                                                         *)
(* The planes are packages of other repositories.  What one answers to an  *)
(* input is given by that input's reading below; what this code makes of   *)
(* the answer is modelled.                                                 *)
(***************************************************************************)
CONSTANTS
  Actions, NoAction,   \* what a maker may propose
  Related,             \* <<d, a>>: the texts of a duty's action d and of a
                       \* proposed action a contain one another
  Bare                 \* the grounding block of bare mode, None

AllPlanes == {"deontic", "norm", "mandate", "escalation", "proxy", "falsifiability"}
Verdicts  == {"satisfied", "not_satisfied", "open"}
Forces    == {"O", "P", "F"}

\* GroundingContext.  "none" is input that was not supplied.
Context ==
  [action   : Actions \cup {NoAction},
   norms    : SUBSET (Forces \X Actions),                   \* the compiled policy
   text     : BOOLEAN,                                      \* is there raw policy text?
   duties   : SUBSET (Forces \X Actions),                   \* extracted from it
   mandate  : {"none", "served", "diverged"},               \* trajectory against purpose
   autonomy : {"none", "within", "over", "unclear"},        \* requested against ceiling
   measured : BOOLEAN,                                      \* are there proxy readings?
   proxies  : SUBSET {"gamed", "unresolved", "tracking"},   \* what they show
   claims   : {"none", "supported", "weak", "refuted"}]     \* evidence against the floor

Finding == [verdict : Verdicts, grounded : BOOLEAN, applicable : BOOLEAN]

Found(verdict) == [verdict |-> verdict, grounded |-> TRUE, applicable |-> TRUE]
Advisory       == [verdict |-> "open", grounded |-> FALSE, applicable |-> TRUE]
NotApplicable  == [verdict |-> "open", grounded |-> TRUE, applicable |-> FALSE]
--------------------------------------------------------------------------------
(* planes.py: one assessor for each dimension *)

AssessDeontic(ctx) ==
  IF ctx.action = NoAction \/ ctx.norms = {} THEN NotApplicable
  ELSE IF <<"F", ctx.action>> \in ctx.norms THEN Found("not_satisfied")
  ELSE Found("satisfied")

\* Is there an extracted duty of this force whose action matches the proposed one?
DutyMatches(force, ctx) ==
  /\ ctx.action # NoAction
  /\ \E d \in ctx.duties : d[1] = force /\ <<d[2], ctx.action>> \in Related

AssessNorm(ctx) ==
  IF ~ctx.text THEN NotApplicable
  ELSE IF DutyMatches("F", ctx) THEN Found("not_satisfied")
  ELSE IF DutyMatches("O", ctx) THEN Found("satisfied")
  ELSE [Found("open") EXCEPT !.applicable = (ctx.action # NoAction)]

AssessMandate(ctx) ==
  CASE ctx.mandate = "none"     -> NotApplicable
    [] ctx.mandate = "diverged" -> Found("not_satisfied")
    [] ctx.mandate = "served"   -> Found("satisfied")

AssessEscalation(ctx) ==
  CASE ctx.autonomy = "none"    -> NotApplicable
    [] ctx.autonomy = "over"    -> Found("not_satisfied")
    [] ctx.autonomy = "within"  -> Found("satisfied")
    [] ctx.autonomy = "unclear" -> Found("open")

AssessProxy(ctx) ==
  IF ~ctx.measured THEN NotApplicable
  ELSE IF "gamed" \in ctx.proxies THEN Found("not_satisfied")
  ELSE IF ctx.proxies = {"tracking"} THEN Found("satisfied")
  ELSE Found("open")

\* Whichever of its verdicts the plane returns is passed on.
AssessFalsifiability(ctx) ==
  CASE ctx.claims = "none"      -> NotApplicable
    [] ctx.claims = "refuted"   -> Found("not_satisfied")
    [] ctx.claims = "weak"      -> Found("open")
    [] ctx.claims = "supported" -> Found("satisfied")

Assessor(p, ctx) ==
  CASE p = "deontic"        -> AssessDeontic(ctx)
    [] p = "norm"           -> AssessNorm(ctx)
    [] p = "mandate"        -> AssessMandate(ctx)
    [] p = "escalation"     -> AssessEscalation(ctx)
    [] p = "proxy"          -> AssessProxy(ctx)
    [] p = "falsifiability" -> AssessFalsifiability(ctx)

\* A plane that is not there, or disabled, or raises, degrades its own dimension only.
Assess(p, ctx, working) == IF p \in working THEN Assessor(p, ctx) ELSE Advisory
--------------------------------------------------------------------------------
(* grounding.py: what the findings f of the consulted planes come to *)

Grounded(f) == {p \in DOMAIN f : f[p].grounded}

\* A grounded finding against one of these dimensions.
Against(f, dimensions) ==
  \E p \in Grounded(f) \cap dimensions : f[p].verdict = "not_satisfied"

\* Mutant of Unresolved: a dimension that could not be assessed passes.
UnresolvedNever(f) == FALSE

Unresolved(f) == \E p \in Grounded(f) : f[p].verdict = "open" /\ f[p].applicable

\* _fold over the grounded, applicable dimensions.
Fold(f) ==
  LET said == {f[p].verdict : p \in {q \in Grounded(f) : f[q].applicable}} IN
  IF "not_satisfied" \in said THEN "not_satisfied"
  ELSE IF "open" \in said THEN "open"
  ELSE "satisfied"

\* The envelope's grounding block, by its verdict.
GroundingBlock(f) == IF Grounded(f) = {} THEN Bare ELSE Fold(f)

ControlActions == {"no-steer", "steer", "hold", "route-human"}

\* Mutant of Decide: what can be corrected is corrected before anything is stopped.
DecideLenient(f) ==
  IF Against(f, {"mandate", "norm"}) THEN "steer"
  ELSE IF Against(f, {"deontic", "proxy"}) THEN "hold"
  ELSE IF Against(f, {"escalation"}) THEN "route-human"
  ELSE IF Unresolved(f) THEN "route-human"
  ELSE "no-steer"

\* _decide: four passes over the grounded findings, the first that hits decides.  None
\* of them is for a falsifiability finding that is not satisfied.
Decide(f) ==
  IF Against(f, {"deontic", "proxy"}) THEN "hold"
  ELSE IF Against(f, {"escalation"}) THEN "route-human"
  ELSE IF Against(f, {"mandate", "norm"}) THEN "steer"
  ELSE IF Unresolved(f) THEN "route-human"
  ELSE "no-steer"

\* ground: of context ctx, with these planes consulted and those at work.
Findings(ctx, consulted, working) == [p \in consulted |-> Assess(p, ctx, working)]
================================================================================
