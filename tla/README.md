# A TLA+ model of a2a-compliance

a2a-compliance lets *compliance agents* steer *makers* (working agents): they send
directives, holds and halts through file mailboxes, and a maker honours them at its
checkpoints. Its wire layer decides whether an action may run (permits), runs it once
(executor), and afterwards certifies that what ran is what was permitted. This directory
models the parts of it that keep state or depend on the order of steps, model-checks them
with TLC and proves the main invariants with TLAPS.

Names follow the source. `PROJECT.json` maps every definition to its lines, lists every
run, theorem, finding and hazard; this file says how they fit together.

## The system

| Component | Source (`a2a_compliance/`) | State | Operations | What makes it correct |
|---|---|---|---|---|
| File inbox | `inbox.py` | directory per actor: claim files, message files, `.cursor` | `put` (claim, publish), `poll`, `peek` | in order, nothing twice, nothing lost, across processes and crashes |
| Nonce stores | `nonce_store.py`, `wire/verification.py` | marker files / two sets | `seen`, `record`, `consume` | `consume` is a compare-and-set |
| Compliance agent | `channel.py`, `envelope.py`, `authority.py` | roster, evidence, nonce store | `query_state`, `issue_directive`, `hold`, `resume`, `halt` | only an agent whose role allows it steers; a halt needs a human |
| Halt approval | `channel.py:238-396` | nonces, next-action markers | `halt`, `_verify_halt_approval` | one receipt, one halt; one next-action halt per run; refusals cost nothing |
| Control participant | `participant.py` | `halted`, `hold_ref`, cursor, nonce store | `checkpoint`, `should_continue`, `is_held` | applies only what is authentic and allowed, once, in order; answers truthfully |
| Admission | `wire/admission.py`, `governance_block.py` | nonce store | `admit`, `issue_permit` | no permit without an admitted decision on evidence; a refusal is final |
| Executor | `wire/executor.py` | nonce store, the world | `consume_and_execute` | one effect per permit, only the call the permit binds, a receipt per effect |
| Reconciliation | `wire/reconciliation.py` | none; signs objects | `reconcile` | clean only if every effect was reported, observed and intended |
| Certification, audit | `wire/certification.py`, `obligations.py`, `audit_chain.py`, `chain.py` | none; signs objects | `issue_discharge_receipt`, `certify`, `audit_chain_verify` | certificate only on evidence, by an independent signer |
| Harness | `harness.py` | owned processes, handles | `spawn`, `deliver`, `stop` | a stop that is claimed has happened |
| Value grounding | `grounding.py`, `planes.py`; `ground_and_steer` in `channel.py` | none; makes results | `ground`, `ground_and_steer` | what a plane sees is acted on, whichever other planes are missing |
| Planning | `team.py`, `lifecycle.py` | none; makes plans, previews, reconciliations | `plan`, `enforce_preview`, `reconcile` | nothing is admitted against its grounding, nothing certified incomplete |
| Coordinate grounding | `coord_grounding.py` | none | a pure function | a decision table |
| Encoding | `wire/canonical.py`, `signing.py`, `schema*.py` | none | pure functions | injective, unforgeable (assumed) |

They interact through mailbox directories (agent to maker and back), through nonce stores
(several threads or processes on one directory), and through signed objects that a host
carries from one function to the next: an approval into `halt` or `admit`, a permit into
`consume_and_execute`, receipts into `reconcile` and `certify`. There are no locks; what
protects shared state is exclusive creation of a file and atomic rename.

What is hard: puts of several processes interleave with each other and with a poll; a
process may die between any two file operations; the cursor is written by truncation; a
check and the consume that follows it are separate store operations; a maker's signals live
in memory while its mailbox, cursor and nonces survive it; a child process exits between the
look at it and the call that was based on it; the functions of the wire layer and of the
lifecycle may be called in any order with any objects; each plane may be missing or raise, and
six findings are folded twice, into a verdict and into an action.

## Modules

| Module | Models | Reads |
|---|---|---|
| `OrderedMailbox` | abstract: what a mailbox promises its reader | |
| `FileInbox` | `put`/`poll`, one action per file operation | implements `OrderedMailbox` |
| `SingleUse` | abstract: a token authorises at most one act | |
| `NonceStore` | both nonce stores, as operators | |
| `HaltApproval` | `halt` with its approval, one action per check | `NonceStore`, implements `SingleUse` |
| `ControlChannel` | sends, mailbox, checkpoint, crashes of the maker | `NonceStore`, implements `SingleUse` |
| `MediatedExecutor` | `issue_permit` and `consume_and_execute`, step by step | `NonceStore`, implements `SingleUse` |
| `RunLifecycle` | abstract: admitted, dispatched, reconciled, certified, in order | |
| `Assurance` | reconcile, discharge, certify, audit | implements `RunLifecycle` |
| `Harness` | `spawn`, `deliver`, `stop` over both drivers, next to their makers | |
| `GovernanceBlock` | `rule`, as operators | |
| `Admission` | `plan`'s obligations, `admit`, `issue_permit` under a governance block | `GovernanceBlock` |
| `Grounding` | the six assessors, the fold and the decision, as operators | |
| `Steering` | `ground`, `ground_and_steer`, `plan`, `enforce_preview`, `reconcile` | `Grounding`, `GovernanceBlock` |
| `*Proofs` | theorems about the module of that name | |
| `MC*` | constants for TLC | |

How state and actions correspond to the code:

- **FileInbox.** `claims` counts the `.seq.N` files (they are never removed, so the loop of
  `_next_seq` ends on the lowest free number), `files` are the published messages, `cursor` is
  the content of `.cursor`, where `Torn` is the emptied file between truncation and write;
  `_read_cursor` takes it for -1, as it does a missing one. `put` is `Claim` then `Publish`
  (or `AbandonPut`, when it raises or dies); `poll` is `OpenPoll` (cursor read, directory opened),
  `Scan` (a file that appears during the scan may be listed or not), `Truncate`, `WriteCursor`.
- **NonceStore.** A store is two sets of (run, nonce) keys. `FileNonceStore` leaves one marker
  for `record` and `consume`, `InMemoryNonceStore` two, which is the constant `FileStore`. Each
  operation is one exclusive file creation or set operation, so it is atomic.
- **HaltApproval.** A thread in `halt()` goes through `verify`, `seen`, `scope`, `consume`, `mark`,
  `send`, one label per check of `_verify_halt_approval`, and may be interleaved with others or
  die at any label. A receipt is what its fields say (run, scope, sender and maker as in
  `halt_digest`, approver, whether its key is a human's); `Lapse` is expiry or revocation.
- **ControlChannel.** `mail` is one maker's mailbox as `FileInbox` delivers it when puts do not
  overlap. `checkpoint` is `Poll` and then per envelope `Judge` (`_verify_envelope` up to the record
  of the nonce), `RecordNonce`, `Apply` (the handlers), `Reply`. `Crash` ends the process and a new one
  takes over: `halted` and the hold are gone, the rest survives. `CrashInPoll` also loses the
  cursor. `ProviderRaises` is the host's `state_provider` raising out of `checkpoint`.
- **MediatedExecutor.** Issuers (`seen`, `sign`, `record`) and callers (`verify`, `consume`, `execute`,
  `receipt`) are threads; a thread may die, a tool may raise before or after its effect.
  `Forms` are the permits anybody may ask for or forge; `permits` are those issued. A permit's `action` is its
  `action_digest`, which comes from the admission result; what it `binds` (tool and arguments digest, in
  its constraints) comes from the caller of `issue_permit`. They are two fields because no code compares
  them, and `Matches` compares the call with the second alone. `late` (had the permit lapsed when the
  call was made?) and `performed` are history.
- **Assurance.** The functions are pure, so the state is the signed objects in circulation and
  what the host observed; any of them may be passed to any function at any time. An object stands
  for its digest. The tool's effect (`effect`) and what its receipt says (`reported`) may differ.
- **Harness.** A call begins (`Spawn`, `Use`), looks at its session's handle (`Look`: `owns`) and goes
  on with what it saw: through the handle (`HandOver`, `Terminate`/`HostStop`) or the mailbox (`Put`).
  `stop` of a process is SIGTERM, `wait`, `Kill`, `wait`. `driver` is fixed at the start: a subprocess
  driver, or a host's with or without its `stop_fn`, `deliver_fn` and `alive_fn`. Makers `Exit` when they
  like and `Drain` their mailbox (here a set: its order is `FileInbox`'s business). `Restart` is a new
  transport object. `accepted`, and `session` of an ended maker, are history.
- **Admission.** `Decision` is `admit`, with one operator for each of its `_findings` functions. An action
  stands for its digest; blocks, pins, receipts and approvals are what is in circulation, whether
  genuine or not, and any of them may be passed to any call. A result also keeps what its call was
  given, as history. What `issue_permit` does with nonces is in `MediatedExecutor`.
- **Grounding.** A context is what each plane reads in its input (`mandate = "diverged"`: the mandate plane
  finds a divergence), since the planes are packages of other repositories; the norms and duties of
  the two deontic readings, and how a duty matches an action, are modelled as the code does it.
  `Assess` degrades a plane that is not in `working` to the advisory finding. `Fold` makes the envelope's
  verdict, `Decide` the recommended action: its four passes become four conditions in the same order.
- **Steering.** All but the channel is pure, so the state is the results, plans, previews, dispatches and
  reconciliations in circulation, and what `ground_and_steer` did; any of them may be passed to any
  call. Each keeps what its call was given, as history. `Outcome` is what `DispatchResult` says: sent as a
  hold or a directive, surfaced to the human, refused by the block, denied to the sender. `State` and
  `Closed` follow the early returns of `enforce_preview` and `reconcile`. A collection of receipts is a
  set: one handed over twice, which `_index` rejects, is not told from one handed over once.

## What is checked

| Run | Question | Bounds |
|---|---|---|
| `MCFileInbox` | What can put/poll lose or repeat, and does the rest arrive? | 2 senders, 4 puts, crashes inside poll |
| `MCFileInboxSkip` (refuted) | "delivers in order" (`docs/transport.md`): can a message be skipped? | smallest such |
| `MCHalt` | Can a receipt halt twice, can a refusal burn one, can a later call use a spent allowance, does a race have a winner? | 2 threads, 3 calls, 6 receipts, 1 death, 1 lapse |
| `MCHaltRace` (refuted) | "exactly one halt per run" (`README.md`) for scope next-action | 2 threads, 2 calls |
| `MCExecutor` | Permits, effects and receipts under interleaving, death and raising tools | 2 issuers, 2 callers, 2 actions, 2 calls, 5 forms of permit for one nonce, 1 mishap, 1 lapse |
| `MCControl` | Authenticity, single application, order, truth of answers, liveness of halt | 3 envelopes, 2 restarts, 1 raise, 1 expiry |
| `MCControlHaltLost` (refuted) | "a cooperative stop at the next checkpoint" with a host that raises once | 2 envelopes, no crash |
| `MCHarness` | Is a claimed stop true, does a message get lost, does a maker slip away, does a stop end it? | 2 threads, 4 calls, 1 session, 2 makers, 1 restart, 3 drivers |
| `MCAdmission` | What does a permit rest on, and what can nothing rescue? | 2 actions, 2 blocks, 3 pins, 3 receipts, 3 approvals, 2 admissions, 1 permit |
| `MCAssurance` | What does a certificate rest on, whatever the host passes where, and what does an audit vouch for? | 3 permits, 2 actions, 4 principals, 3 lapses, 1 reconciliation, 1 certificate |
| `MCAssuranceMismatch` (refuted) | "observed effects were mismatched fails here" (`certification.py`) | as above |
| `MCSteering` | Is a maker steered as its findings call for, and is nothing admitted or certified that met an objection or lacks a receipt? | 4 contexts, 3 sets of working planes, 2 actions, 3 kinds, 5 collections of receipts; 1 result, 2 plans, 1 preview, 1 dispatch, 1 reconciliation, 6 objects in all |

Why the bounds are enough to be interesting: two senders and a reader already overlap in every
way a third would (a put is affected only by who published before it and by the reader); four
puts allow two lost-and-found messages on either side of a lost cursor. Two threads on one
compare-and-set show every race of two operations, three calls allow a retry after the race.
Three envelopes are a hold, a resume or second hold, and a halt, with the batch split by a
crash anywhere; two restarts are needed for a redelivery after a loss. One reconciliation and one
certificate suffice since neither reads another's; three permits give two of one action and one of
another that does not enforce. Two makers of one session are a respawn, and four calls let both threads
meet it with a stop or a deliver on either side. Two admissions are a refusal or a lapse and a second try;
one permit suffices since permits do not read each other. In `MCSteering` two plans are one that was
previewed and another that is reconciled; the contexts have nothing to object to, a doubt, refuted
claims, or four objections at once, of which the working planes see all, some or two. In `MCExecutor` one form
binds another call than its action's, one binds none, and one is of an action that was not admitted: what
a host may get signed, what it cannot use, and what it may only forge. Its roles require nothing, so that a
capability is missing only when a request asks for it; the theorem has them require what they like. The `refuted` runs use the smallest instance that shows the case.
The theorems below remove the bounds for most of this.

**Fairness.** `FileInbox`: weak fairness of `Poll` — a maker polls at every turn and the agent in
`collect_replies`, and a poll is straight-line code; senders owe nothing. `HaltApproval` and
`MediatedExecutor`: weak fairness of each thread's step, straight-line code without waits; a thread
that dies is counted, and the property is excused. `ControlChannel`: weak fairness of `Poll` (a
maker that keeps coming to checkpoints, the premise of `docs/transport.md`) and of a checkpoint's
steps. Without a maker that polls nothing is promised, and nothing is checked. `Harness`: weak fairness
of each thread's step, straight-line code whose waits have timeouts, and of the exit of a process that
was sent SIGKILL, which the operating system sees to; makers owe nothing. `Assurance`, `Admission` and
`Steering` have no liveness: a host need not call anything.

**Deadlock.** All bounded instances stop when the bounds are spent, so the configurations say
`CHECK_DEADLOCK FALSE`; there is no lock or wait in the code to deadlock on.

**Mutants.** Every property is also run against a plausible bug (a blind record in place of
compare-and-set, a consume before the refusal, a marker not left, ...), defined next to the
definition it alters; each is caught.

## What the runs found

Four statements of the documentation do not hold of the code (`findings` in `PROJECT.json`):

1. Two overlapping puts: the cursor passes the message that is published late, and it is lost.
   `LostOnlyIfOvertaken` says that nothing else is.
2. Two threads with two next-action receipts of one run pass the marker check before either marks.
3. A host that raises on a query loses the rest of the batch, a halt included.
4. A reconciliation is tied to an action, not to the receipts it covers, so a clean one certifies a
   mismatched dispatch of the same action.

Each has a theorem that says how far it goes: what does hold, and under what the documentation's
statement would.

| Refuted | holds if | theorem |
|---|---|---|
| nothing is skipped (1) | no put begins while another is under way or a poll is scanning | `PutsApartLoseNothing` |
| one next-action halt per run (2) | no two calls stand together between the look for the marker and the mark; per nonce store | `OnlyOverlapsBreakTheAllowance` |
| a halt is honoured (3) | the host has not raised and the maker has not restarted (its safety half: nothing polled is dropped) | `UndisturbedDropsNothing` |
| certified effects match (4) | no action is dispatched twice | `MismatchNeedsASecondDispatch` |

Limits that the models also show and no run is kept for: a restarted maker has forgotten a halt
or hold it honoured (the envelope is behind its cursor); a nonce is recorded before the
directive is applied, so after a crash in between the redelivered envelope is refused as
replayed though it was never applied; a lost cursor redelivers old envelopes after newer ones
were applied, and a bare maker applies them again (`CursorKeepsSingleUse`: only then); one `FileNonceStore` for both `issue_permit` and
`consume_and_execute` refuses the first dispatch as a reuse (`nonce_store.py` warns of mixing; `OneFileStoreRunsNothing`: nothing
ever runs); agents
with separate default nonce stores do not see each other's next-action markers; two issuers can
sign one nonce into two permits, of which one can be spent; a permit that lapses between its
verification and the effect is spent all the same; `resume` never reads its `hold_ref` (`spec.md`
has it name a hold) and lifts whatever hold is in force.

A permit names an admitted action and binds a call, and nothing says that the one is the other: `issue_permit`
takes the digest from the admission result (`admission.py:491`) and the constraints from its caller
(`admission.py:473`), and `consume_and_execute` compares the call with the constraints alone (`executor.py:219-243`). A
host can thus get a permit for admitted action A that runs call B, on which the receipt puts the digest of
A. `README.md` speaks of a permit "for an admitted action alone" and `docs/enforcement/threat-model.md` calls the
digest "the exact thing a permit, approval or receipt is bound to", which is true of what the
permit says and not of what it lets run. `reconcile` notices if the host declares the intended effects or observes others than
the receipt reports. `OnlyPermittedEffects` therefore speaks of the bound call and of the account it goes
to, and `AdmittedCallsOnly` says what a host that binds faithfully gets.

And of harness and admission: spawning a session again leaves its first process running, out of reach
of `stop`, and both drain one mailbox; `enforceable=True` says what the handle can do, not that it
was done (a kill that times out, or a `stop_fn` that returns nothing, gives `terminated=False` with it);
`stop` of a host's agent without `stop_fn` sends nothing, the halt it was passed included. `issue_permit`
keeps issuer and approver apart only if its caller passes the approval that `admit` was given, since
the admission result names none (`FourEyesIfApprovalIsHandedOn` is what holds if it does); an admission result has no expiry; a plan built under another block
than the pinned one acknowledges that other block's obligations; the action digest does not cover the
profile, so one action can be admitted under the lighter one; the role an `ApproverAuthority` is asked
about is the receipt's own claim; and a next-action approval can admit its action repeatedly.

Of assurance: `consume_and_execute` writes no `prev_digest`, so that a run of two or more dispatches,
certified receipt by receipt, fails `audit_chain_verify`, although `audit_chain.py:10-12` says that tool
receipts are linked and their schema that the field is "absent only on a chain's first" receipt.
`AuditsVouch` says what that strictness is good for: a receipt that `certify` took twice, or that has
lapsed since, is no chain. `certify` tells the certifier from the approver only if its caller passes the
approval.

Of grounding and lifecycle: the wire's `admit` reads neither the grounding result nor the plan's
disposition, so the previews' `SteeredIsNotAdmitted` has no counterpart for permits; `reconcile` of the lifecycle
looks at no times, and takes a preview made after the dispatch, where `docs/lifecycle.md` speaks of a prior
one; it ties plan, preview, dispatch and receipts together by the action alone, so the receipts of one
dispatch can certify another of the same action, and a plan of the lighter profile closes what was admitted
under the other; `plan` does not compare the grounding result with the request's context; a
grounding without any plane recommends no steer and counts as assessed; a protocol plan without
grounding is `ready` and "advisory", yet its preview goes to the human, where the preview's own reason
speaks of "role authority"; `_fold` calls itself OPEN-dominant and lets NOT_SATISFIED win; the
table of planes in `docs/spec.md` has a mandate breach held, `_decide` steers on it; a
`ground_and_steer` without `target_kind` does not ask the maker's block; and a directive the block refuses
reaches neither maker nor human; `docs/lifecycle.md:13-14` has a digest mismatch, a role mismatch and a
duplicate receipt all route to a human, and the lifecycle's `reconcile` answers RECONCILED, that is not
certified, to a postflight receipt that has one (`enforce_preview` does route a preflight receipt to a human). `_decide` has no pass for a falsifiability
finding that is not satisfied. `assess_falsifiability` passes on whatever verdict its solver
gives (`planes.py:348`), and `planes.py:13` lists all three; `docs/spec.md` calls the mapping from verdict to action
uniform. Claims refuted outright are then `not_satisfied` on the envelope with `no-steer` as the recommended
action, and if nothing else is found the plan can be admitted. `VerdictAndDecisionAgree` names this as its only exception,
and one of the contexts of `MCSteering` has it.

## What is proved

For all values of the constants, in `*Proofs.tla`; the assumptions are the named `ASSUME`s of each
module, which only type the constants.

- `FileInboxProofs`. `IInv` adds to the types that claimed numbers are exclusive, that everything
  handed over since the last loss of the cursor lies behind the reader's position, and that a
  poll's view of the cursor is current until it writes. From it `InboxIsOrderedMailbox` (refinement)
  and, with "a scan misses only what it overlapped", `LossIsDelimited`. `PutsApartLoseNothing` takes
  `PutsKeepApart` as a hypothesis on every step: a put begins only when no other put is under way and
  no poll is scanning.
- `HaltApprovalProofs`. `Paid` (a thread past the consume has spent its receipt and is alone with it)
  and `Settled` (a receipt that got its halt is spent and nobody carries it) make single use
  inductive: `ReceiptsAreSingleUse`. `RefusalsBurnNothing` follows the life of every spent key.
  `SentHaltsLeaveTheMark` assumes one store for all agents: whatever runs at once, no call passes the
  scope check after a next-action halt of its run. `OnlyOverlapsBreakTheAllowance` assumes neither one store
  nor one caller, but that no two calls on one allowance are at `consume` or `mark` together (`Overlap`); its
  invariant `Allowance` says that a call past the scope check has the run's marker to itself, and
  `MarkedBySame` that only a call on that allowance leaves it. `NextActionHoldsSerially` is the corollary for
  one caller and one store. Without the hypothesis it is false, see `MCHaltRace`.
- `MediatedExecutorProofs`. `Checked` (what the checks before a label have established) gives
  `EffectsArePermitted`: nothing runs but a call that an issued permit binds, to the account of an admitted action, and none made
  after its permit lapsed. That the call is the admitted action's is `AdmittedCallsOnly`, under the hypothesis on every
  state that permits bind the call of their action or none (`BoundFaithfully`); the code does not see to it. `Alone` and `Lives` (a nonce is quiet, ran, or done) give `EffectsAreSingleUse` and
  `ReceiptsTally`, assuming that the callers share one nonce store, which the executor's contract asks.
  `ReuseIsDispatch` assumes instead that issuing leaves no mark a caller takes for a dispatch (`Separate`: stores
  in memory, which keep what is recorded and what is consumed apart, or stores of their own): a mark
  in a caller's store is then a dispatch (`Marked`), and so is what a refused reuse met (`ReuseFounded`).
  `OneFileStoreRunsNothing` is the other side: one `FileNonceStore` for both, and every issued permit is
  marked before it is out (`RecordMarks`), so that no tool runs. `OneEffectPerStore` drops the shared store: for
  finitely many callers and stores, effects and calls about to run are at most the stores that
  have spent the nonce (`Budget`). `FirstStagesInOrder` refines `RunLifecycle`'s first stages; its
  actions are the accounts, that is the permits' action digests, as they are in `Assurance`, and what runs to an
  account is again `AdmittedCallsOnly`'s question.
- `ControlChannelProofs`. For an authenticated maker `Progress`, `Marked` and `Answered` tie the
  nonce, the count and the answer of every envelope together: `EnvelopesAppliedOnce`, `AcksAreTrue`.
  `SignalsAreInOrder` holds in both modes; it needs `Front`, the last envelope that may have been
  applied in this life, and that everything applied lies at or before it. Bare mode is covered
  by theorems and not by a run: by this one, by `UndisturbedDropsNothing` (without a restart and a raise every
  due envelope that was passed was applied and answered), and by `CursorKeepsSingleUse` (without
  a crash inside a poll). `ChannelMailboxIsOrdered` adds two history variables, what was handed over and what
  since the last loss of the cursor, and shows that the channel's mailbox implements `OrderedMailbox`, as
  `FileInbox` does: the two modules meet in that specification.
- `AssuranceProofs`. `Inv` adds that only enforcing, issued permits were dispatched and that a clean
  reconciliation covers witnessed dispatches; since nothing is taken back (`Grows`), a certificate
  once earned stays earned: `CertificatesRestOnEvidence`. `StagesAreInOrder` shows that every step
  advances at most one action by one stage. `MismatchNeedsASecondDispatch` assumes `OneDispatchPerAction` in
  every state: the receipts of a clean reconciliation are then the ones a certificate names. `AuditsVouchForRuns` rests on `ChainsAreShort`: without
  `prev_digest` a chain has one link.
- `HarnessProofs`. `Carried` (a thread that holds a handle holds one of its call's session) and `Recorded`
  (so does the table of handles) carry all four: `StopsTellTheTruth`, `MakersStayInReach`, `MessagesArrive` and
  the types. They need no fairness and hold for every driver. Two theorems that no run checks rest on the
  same invariant: `MessagesStayInTheirSession` (the converse of `MessagesArrive`), and `StopsStayInTheirSession`,
  an action property, which adds that a stop that waits has asked its process to end (`HasAsked`).
- `AdmissionProofs`. `Founded` says what a result has to show for its decision, a refusal being a matter
  of action, block and pin alone (`Barred`); `Covered` that a permit is of an admitted result and lost no
  reservation. From them `PermitsAreFounded`, `RefusalsAreFinal`, `PinnedBoundariesHold`; `LapseIsHonoured`
  follows from a step of `admit` alone. `FourEyesIfApprovalIsHandedOn` takes as a hypothesis on every step that
  a new permit can be had with the approval its result was admitted on (`ApprovalIsHandedOn`);
  `OnItsApproval` makes it inductive. What the runs leave open, whether an approver issues its own
  permit, is false without it.
- `SteeringProofs`. `Made` (lemma `EveryObjectMade`) says where every object comes from: it is what its function makes of objects of the
  same run, and stays so because objects are only added. The rest is about the functions:
  `FoldsAgree` (the two folds hit on the same findings, refuted claims excepted), `SeenIsFound` (what a working plane sees is
  in the findings, and nobody is held for anything else), `PlanFacts`, `AdmittedFacts`. From them all six
  properties of `MCSteering`, for any contexts, planes, blocks, roles, inventories and receipts. Two more compare
  groundings: `MissingPlanesOnlyMiss` (`PlanesAlone`: a plane's finding does not depend on the others;
  `FoldsGrow`: the folds hit on more when more planes count; what fewer planes forbid or act on, more
  planes forbid or act on, though not always in the same way: a plane that is added may turn a doubt for
  the human into a steer) and `BareModeIsNoPlane`. The first is also a limit:
  what only a missing or raising plane would have stopped goes through, and that the finding
  is advisory is the only trace of it.

Only model-checked: all liveness (`EventuallyHanded`, `SomePresentationWins`, `SomeCallGetsReceipt`,
`HaltIsHonoured`, `StopEndsTheMaker`; leads-to under fairness is beyond this prover).

## What is not modelled

Schemas, canonical bytes and cryptography: an object stands for its digest and a signature for its
key, taken to be unforgeable. Evidence records, messages' bodies, logging. The mapping of actor
names to directories. What the external planes read in their inputs, and the tables of roles and
repositories, which are data. `coord_grounding.py`: one pure table from a resolver's answers to a
verdict, which nothing else in the package calls. The conformance kit, test vectors for other
implementations. `collect_replies`, a poll of `FileInbox` by the other side. Two participants that
interleave inside the polls of one mailbox (only a respawn makes two; `Harness` has their polls whole). In `ControlChannel` puts do not overlap;
what overlapping does is in `FileInbox`. In `Assurance` the optional approval of `certify` is never
given, a receipt's executor is the one who signs it, and audited objects are not tampered with.

## Plan

1. Done: inbox, nonce stores, halt approval, control channel, permits and executor,
   assurance, harness, admission, grounding and steering, and their proofs.
2. `Admission` composed with `MediatedExecutor`: how many effects does one next-action approval yield.
   `lifecycle.enforce_preview` against `admit` on the same receipts.
3. Replies: the two mailboxes of one conversation over `FileInbox`.
4. Proofs: `ChannelMailboxIsOrdered` is done; left are a joint specification of inbox and channel over one
   mailbox, and the safety of 2 and 3.
