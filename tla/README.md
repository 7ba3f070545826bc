# TLA+ models and proofs for OpenMC-Agent

OpenMC-Agent turns a reactor description into an OpenMC model: a language model
writes a simulation plan as typed patches, review gates accept or reject them,
a retry loop repairs what was rejected, and the assembled plan is rendered,
run and, after failures, repaired again. What can go wrong beyond a bad answer
of the model is control: patches, gates, requests, budgets and files that have
to stay consistent while any of them is redone at any time. This directory
models that control, checks it with TLC and proves it with TLAPS.

Line numbers below refer to `src/openmc_agent/` at the modelled commit
(`PB/` = `plan_builder/`, `CL/` = `plan_builder/closed_loop/`).

## Inventory

| Component | State | Operations | Hard behaviour | What makes it correct |
|---|---|---|---|---|
| Patch graph (`PB/dependency_graph.py`, `CL/policy.py`) | constants | closure, topological order, affected gates | worklist order, stable sort | closure is exact and acyclic, order canonical |
| Retry loop (`CL/retry_controller.py`, `retry_models.py`, `retry_owner_policy.py`, `retry_request_builders.py`) | requests, pending list, four ledgers, budget | register, select, compile, produce, detect cycles, accept, commit, roll back | stale requests, re-registration, partial failure, termination | see *Properties* |
| Plan build state (`PB/state.py`) | patch envelopes, issues, assembled plan, gate stages | add, invalidate, assemble | derived state outliving its sources | no stale patch, assembly or acceptance |
| Planner and gates (`PB/executor.py`, `CL/controller.py`, `CL/policy.py`, `CL/*_evidence.py`) | gate stages, accepted hashes, stage budgets, questions and answers | generate in order, review, accept, reject, revise on a clone, ask, reopen | barriers after a retry, a gate that calls the loop from inside its own review, a rereview that fails, a resume below a blocked gate | barriers and acceptances hold on every pass, accepted is what was cleared |
| Universes in fragments (`PB/universe_patch_pipeline.py`, `universe_fragment_*.py`, `universes_patch_normalization.py`) | generation sessions per input hash | plan, call, qualify, merge, normalise, alias, resume | sessions that outlive their inputs, one fragment of several failing | what is merged, normalised and aliased does what is asked under the inputs of now, a failure costs nothing else |
| Workflow graph (`graph.py`) | the graph state | generate, route, execute retries, ask humans, validate, render, run | loops between nodes | every route ends; a blocked plan is not rendered |
| Campaign (`real_campaign_harness.py`, `CL/campaign_checkpoint.py`, `CL/state_snapshot.py`) | manifest, results, checkpoint stores on disk | start, resume, dispatch, snapshot, record | the process is killed anywhere | passes kept, nothing of other inputs reused, verdict supported |
| Gate transaction, replay, downstream resume (`CL/gate_transaction.py` ...) | clone and journal | twenty steps with hooks | one step of several failing | all or nothing |
| Validation repair (`PB/validation_repair.py`) | proposals | propose, evaluate on a clone, commit | a second writer of patches | commits invalidate what depends on them |
| Runtime recovery (`runtime_*.py`) | failures, fingerprints, budgets | diagnose, propose, commit, rerun | repair of what was already repaired | one repair per fingerprint, loop ends |
| Run supervisor (`run_supervisor*.py`) | decisions | propose, veto | a vetoed action repeated | never an action policy forbids |
| Plan investigation (`plan_investigation/`) | tool session, evidence ledger | call tools, record claims | budgets, late answers | claims are backed by recorded evidence |
| Language-model adapters (`llm*.py`) | call records | check budget, call, record | check-then-record | calls stay in budget |
| Renderers, retrieval, deterministic checks, evaluation | none shared | pure functions, file output | - | unit tests |

The planner calls the gates; the placement gate and the graph node
`execute_plan_retry` call the retry loop; both write the plan build state, which
the workflow passes between its nodes as one value. A campaign runs the workflow
once per run and hooks a checkpoint callback into the planner. All of this is
synchronous, single-threaded code; what interleaves are the requests, the passes
over the plan and, in campaigns, process lifetimes.

`PROJECT.json` lists the components with what is left out of each, and under
`hazards` the places in the code the properties are about.

## Modules

| Module | Models |
|---|---|
| `PlanPatchGraph` | the graph, closures by their meaning (least closed sets), gate assignment; constants only |
| `PatchGraphWalk` | `transitive_dependents` and `topological_order` as the code walks, over `PlanPatchGraph` |
| `RetryController` | the retry loop over the plan build state, with the planner, gates and human answers around it |
| `RetryLedger` | what the loop promises, abstractly: a request is a compare-and-swap on the patches that own a defect |
| `RetryRefinement` | `RetryController` as an implementation of `RetryLedger` |
| `FactsGate` | the Facts gate from inside: stage machine, reviews, closure rounds, questions, reopening |
| `FragmentPipeline` | the universes patch generated in fragments, with its sessions and resumes |
| `WorkflowState` | the state `build_plan_graph` passes between its nodes, and its routers |
| `PlanningNodes`, `RuntimeNodes` | the nodes up to rendering, and those from rendering to the record |
| `PlanWorkflow` | both halves as one specification, and what a run promises |
| `CampaignResume` | a campaign, its files and its process |
| `MC*` | instances for TLC of the module they are named after |
| `*_proofs` | theorems about the module they extend; see *Proofs* |

How they compose. `RetryController` takes a gate as one step; `FactsGate` opens
that step for the Facts gate and takes a commit of the retry loop as one
(`OwnerCommits`). `PlanWorkflow` takes a pass of the planner as one step with
the outcomes that the two have. `FragmentPipeline` is one generation of one
patch, and what the retry loop and plan validation do to it in between.
`CampaignResume` takes a run as a sequence of accepted boundaries.

### RetryController and the code

`content` is the hash of each valid envelope (`NoContent` if there is none);
nothing in the loop looks further into a patch than its hash. `basis` is a
history variable: the contents of the dependencies a patch was generated from.
`stage` and `acceptedOf` are `plan_loop_stages[...].status` and the accepted
input, `requests`, `pending`, `attempts`, `candidates`, `issueTrace`,
`planTrace` and `llmCalls` are the `plan_retry_*` fields of `PlanBuildState`,
`loop` holds the locals of `execute_plan_retry_loop`.

One iteration of the loop is `Iteration` (selection, refusal, advisory and human
exits, recompute, production) and, when candidates were produced, `StopOnCycle`
or `PassCycleCheck`, then `FailAcceptance`, `CommitOwner` or `RollBackCommit`.
Each action is the whole branch including the lifecycle, ledgers and
invalidation it performs. `RoundLimit` and `Costs` distinguish the three callers
(`placement` gate, graph `node`, `direct`).

The planner around it: `GeneratePatch` takes the next missing patch the barriers
allow, `AcceptGate`, `ReviseFacts`, `RejectGate`, `ReportFinding`, `BlockGate`
and `RetryPlacementDependency` are the outcomes of a review, `FindUnready`,
`Assemble` and `FailAssembly` end a pass. `scoped` says that a review of the
facts has resolved a scope and a feature contract, which a recompute needs;
`taskPlan` is set by a clean review of the facts (`AcceptGate`) and by a
recompute (`RecomputeTaskPlan`, or `BuildTaskPlan` where there was none), and
left alone by a closure round that replaces the facts (`ReviseFacts`).
`acceptedPlan` is the part of an accepted input hash that covers the task plan. What a review or a generation answers
is nondeterministic. The steps of a pass interleave more freely than the code's
fixed sequence, so safety holds of more behaviours than the code has.

Abstracted: request ids (their position), `planning_scope_hash` (moves with the
task plan's hash), origin and gate id of a request (part of its reason).

`RetryRefinement` maps it to the ledger: a version is the hash of the valid
envelope, a request is open while it is pending, and in hand from its compiled
plan to its commit. `Revisable` are the patches whose own gate may replace them
between two requests: the facts.

### FactsGate and the code

`stage` is `plan_gate_facts`: its status and the four counters
`check_stage_budget` reads. `accepted` is `accepted_input_hash`; of the confirmed
facts the hash covers only whether there are any, because the code hashes the
top-level keys, and of the feature contract only whether it was built
(`featured`). `phase` is where `execute_incremental_plan_until_materials` and
`_run_facts_gate` inside it are: `Barrier` is `_require_accepted_facts_gate`,
`Enter` to `DecideBlocked` one review and its decision, `StartClosure` to
`ClosureBlocked` the closure rounds. `local` holds the candidate, the findings
and the round of a closure. A set of findings stands for its fingerprint. The
reviewer may find any subset of `Remarks`; the verdicts of the two deterministic
preflights are the constants `Contract` and `Skeleton`. Between calls of the
executor: `Resume`, the answers of a human, a rejection by plan validation and a
commit of the retry loop. `InvalidPlanLoopTransition` is `Raise`, the end.

Left out: the artifacts, the evidence consistency check (its findings are like
the preflight's), the size limit of the source, staged reviews
(`facts_review_stage_split`), more than one evidence pack, and the task plan
(`RetryController` has it).

### FragmentPipeline and the code

`sessions` is the map in `state.metadata` from input hash to
`LargePatchGenerationSession`. `Resume` is everything between a built manifest
and the first call: `_verify_resume_fragments` and the downgrades. One call of
the model is one step (`AcceptAnswer`, `RejectAnswer`), `Construct` is the
annular-insert oracle, `FailFragment` the generation that fails but keeps its
session. `Reject` and `Revise` are what happens between generations. A hash is
the value it is taken of. A fragment is whether it passes the checks of it alone
and its cells: role, material, background or not.

`ReturnMerged` is all that stands between the last fragment and the patch:
`Normalised` is `normalize_universes_patch_content` step by step (`Stripped`,
`Moderated`, `Corrected`, `Absorptions`, `WithBackgrounds`), `WithAliases` the
copies for the inserts Facts expect, with the validation before and after
(`Defective`). What depends on radii and cell names is a choice: whether a
satellite universe fits its host, and which of its cells are dropped on the way.
Resolving material ids by their variants is left out, because at that point
every cited id is an accepted one; so are names and metadata. A requirement set
has one satellite universe (`implicit_*`) at most, a named assumption. The replay
of flagged fragments is left out because it cannot happen: `MergeIsClean`.

### PlanWorkflow and the code

A node of `graph.py` is a value of `pc`, a router an expression over the state
its node has just written. `plan` is told apart by what the capability report
makes of it (`kind`) and by its defects, `report` by its verdict and the route
hints of its issues. `files` is `model.py`, its path in the state and the tool
results. A failure is a fingerprint with its entry of `runtime_repair_policy.py`.
A committed runtime repair makes a plan that the validator accepts (`Repaired`)
but whose capability report says `none` until a renderer has looked at it
(`rt.unassessed`): skipped by the tools, and no ground for an ok outcome.
`Human` is the answer at the two waiting nodes.

### CampaignResume and the code

`manifest`, `saved` and `store` are `campaign_manifest.json`,
`campaign_results.json` and each run's `campaign_checkpoint.json`; everything
else is lost in a `Crash`, which can happen in any state of the process. Each
write is one step because `_write_json_atomic` and `CampaignCheckpointStore.save`
replace the file. A configuration stands for a resume fingerprint, `InputsOf`
for the five hashes a snapshot carries. A plan is its furthest accepted boundary
and the configuration it was made under. `AcceptBoundary` persists the plan
through the checkpoint callback except in a seeded run, where the graph does not
pass the callback on (`graph.py:1937-1953`). Snapshots that differ only in
sequence and time are one, so which of two plans at one boundary is taken is not
told apart.

## Properties

Patch graph: `ClosureIsExact`, `SortIsCanonical`, `WalkTerminates`.

Retry loop, each about relations a retry can break:

- `ImplementsLedger`: the loop and the planner around it are the compare-and-swap
  of `RetryLedger`.
- `NoStalePatch`: a valid patch was generated from what its dependencies are now.
- `AcceptedGateIsCurrent`, `FinalAcceptance`: an acceptance is of the patches
  that are there, and the final one of exactly the assembled plan; while the
  final gate need not look again, every other gate has accepted and need not
  either.
- `AssembledIsCurrent`: the assembled plan does not outlive its patches.
- `FactsBarrier`: nothing past the facts stands without facts that are accepted
  as they are, whoever replaced or dropped them: a retry, a recompute or the
  gate's own revision. It says nothing of the task plan, which such a revision
  leaves behind (`AcceptedFactsArePlanned` is violated, see *Runs*).
- `ReplacesWhatWasReviewed`: the loop overwrites only the contents its request
  was made about, also where the Facts gate revised them in between.
- `PendingIsLive`, `TerminalStaysTerminal`, `OneLiveRequest`,
  `AttemptsWithinBudget`: request bookkeeping through failures, rollbacks and
  repeated registration.
- `LoopReturns`: every call of the loop comes back to the planner.

Facts gate: `AcceptedWasCleared` (accepted facts are the ones the last review
cleared, under the hash that is kept), `CandidateIsolated` (a revision stays on
its clone until the step that accepts it), `BlockedIsFinal` (no later call gets
past a blocked gate), `GateReturns`, and the budgets as bounds of `TypeOK`.

Fragments: `PatchQualifies` (a valid patch has each required universe that is
neither a satellite nor a poison of a kind Facts do not declare, each has the cell
roles, material roles and fuel variant its item asks for under the materials of
now, the universes Facts expect of inserts are there, and only accepted materials
are cited, whichever session it came from; coolant and moderator are left out of
the roles because normalisation replaces one by the other), `AcceptedIsBacked`, `SoundFragmentsKept`,
`MergeIsClean`, `GenerationReturns`.

Workflow: `OnlyValidPlansRendered`, `OkIsEarned`, `NoConfirmationBypass`,
`CommittedOnce`, `OnlyAutoRepairPastBudget`, `ScheduledRegenerationRuns`,
`EndsOrLoops` (a run ends, waits for a person, or is in one of five loops that
the property names; see *Divergences*). Three exempt what the code does wrong or
leaves open: `NoConfirmationBypass` a supervisor that gave up,
`ScheduledRegenerationRuns` an accepted repair that left defects, `OkIsEarned`
runs that a person or the supervisor cuts short.

Campaign: `ResumesItsOwnInputs`, `RunsOnce` (at most one result per run; failed
runs are dispatched again), `VerdictIsSupported`, `PassedRunsKept` (with the
exemption of a start that a missing provider key blocks, see *Divergences*).

## Runs

Passing runs:

| Run | Instance | States | Shows |
|---|---|---|---|
| `patch_graph_walk` | every subset of the eleven patch types, both seed orders | complete for the program's graph | closure and order as the loop relies on them |
| `placement_retry` | facts to pin map, three gates, two contents of facts and materials, two task plans, 3 requests, 3 rounds | 0.9 million | stale requests, nested calls of the loop, repeated defects, facts revised by their gate, the ledger |
| `axial_retry` | facts to overlays, final gate, all modes, recompute, readiness, owner pair, posted requests; one content each, 2 requests | 0.4 million | reopening, the final acceptance, every outcome of the loop, termination |
| `facts_gate` | three facts patches (one breaks the contract, one the skeleton), one violation and three remarks, six configurations | 0.4 million | closure rounds, answers, reopening, budgets |
| `fragment_pipeline` | four requirement sets, three materials patches, six fragments, 3 calls, 2 revisions | 58 thousand | resumes of sessions filled under other inputs, normalised and aliased patches, termination |
| `plan_workflow` | seven plans, two defects, six failures, six configurations | 0.5 million | the whole workflow |
| `campaign_resume` | 2 runs, 2 boundaries, 2 configurations, 3 starts | | kills and restarts at every point |

The bounds.

- Retry loop: two contents of facts and materials tell "the same", "replaced" and
  "gone" apart (`axial_retry`, about what is gone, has one of each). Two or
  three requests allow a request to be made stale by another, a third to be
  selected in between, and a defect to be reported again after it was finished.
  Two attempts per defect are the program's own limit (one in `axial_retry`,
  where the budget of attempts and of calls is to run out early). `MaxRequests`
  bounds the behaviours.
- Facts gate: `MaxReviews` 3, `MaxRepairs` 2, `MaxHumanRounds` 2, `MaxStalls` 1,
  `MaxAttempts` 2, `MaxCalls` 7, three closure rounds as in the code: a full
  closure can follow a reopened gate or an answer, and every budget can run out
  first. All are the program's policy with small values; no other bound is set.
- Fragments: two attempts, three calls, two revisions of the inputs: the inputs
  can change and change back, which is what leaves a session behind. Three calls
  fill a session of three universes exactly, so that one generation can use up
  what a later one needs, and either budget can run out first. The requirement
  sets have a satellite, a poison Facts do not declare, an expected plenum, one
  of an insert that is dropped, and a manifest that names a universe twice.
- Workflow: `MaxRetries` 2, `MaxExpertRounds` 1, `MaxDecisions` 2, `MaxSameState`
  1, `MaxIterations` 3, `MaxDeterministic` 3, `MaxDiagnoses` 2, `MaxTransient` 1.
  Each limit can be reached with another budget left.
- Campaign: three starts allow a store with snapshots of two configurations and a
  resume over it.

Deadlock is checked for the fragments; elsewhere the end of the workflow, a
finished plan, a blocked gate, an exception and a closed campaign are ends, and
it is not checked.

Violation runs. Each shows a line of the repository's documents or tests that
the code does not keep; `PROJECT.json` quotes it.

| Run | Property | What happens |
|---|---|---|
| `refused_resume` | `ReusedUnderSameConfig` | a refused resume rewrites the fingerprint; the next one reuses another configuration's runs |
| `stale_task_plan` | `AcceptedFactsArePlanned` | a closure round commits and accepts revised facts without building their task plan |
| `committed_repair` | `CommittedRepairIsRendered` | a committed repair reaches the renderer with the failed report of the execution it repairs; render and tools are skipped, and the run ends without running it |
| `rejected_patch` | `RejectedIsRegenerated` | a rejected universes patch comes back from its completed session without a call |
| `facts_closure` | `AcceptedIsClosed` | a facts revision is accepted on a rereview nobody could parse, or past a violation its round found |

## Divergences

Met while modelling and visible in the models, without a run of their own:

- Two owners, one generated from the other (`retry_controller.py:740`): the
  renderer codes own `axial_layers` and `axial_overlays`; both are committed and
  dependents minus owners are invalidated, so the overlays stay valid on layers
  that are gone. `docs/plan_closed_loop_phase3_design.md:27-28` invalidates the
  "true dependents". `NoStalePatch` fails in `axial_retry`'s instance when the
  layers get a second content; the theorem about it assumes
  `OwnersIndependent`.
- The outcome of a commit is overwritten by a later iteration of the same call
  (`retry_controller.py:529`), and the placement gate then blocks its stage.
- Four candidates under one unchanged task plan are reported as an oscillation.
- A recompute stays pending (`retry_controller.py:567`) and the readiness check
  registers its request on every pass (`executor.py:5447`): generation and retry
  alternate without a bound. `EndsOrLoops` names this loop, the answered gate
  questions, an accepted repair that left defects (`graph.py:3557-3561`, whose
  flag also drops a regeneration scheduled at the last retry), a lattice typo
  whose automatic repair changes nothing, and a supervisor past its last decision
  whose old override is followed again (`graph.py:978`).
- The run supervisor looks up statuses kept by patch id under patch types
  (`run_supervisor_policy.py:315`): a complete plan looks unfinished and
  `continue_to_render` is never allowed for it, although
  `tests/test_run_supervisor_policy.py:444-465` asserts that it is. `AllowedActions`
  of `PlanningNodes` models the lookup as the code makes it.
- Without runtime recovery a non-deterministic failure is never diagnosed, unlike
  `docs/runtime_llm_repair_strategy.md:93-98`; `max_llm_diagnoses` is 2 and the
  node stops at one.
- A start without a provider key erases the results of the campaign it was told
  to resume (`real_campaign_harness.py:1867`).
- A resumed campaign run persists none of the boundaries it accepts, and has its
  whole call budget again. The call budget of a fragment session is cumulative
  over its generations.
- Facts gate. (a) The hash of the first acceptance is computed before the feature
  contract is set (`executor.py:2283`, `2323`, `2551`), so the first re-entry
  with the same facts never matches and the accepted gate is reopened, against
  the comment at `executor.py:2280-2281`. (b) Reviews are counted before the
  budget is checked (`executor.py:2300`), so under the default of two rounds a
  reopened or answered gate is blocked, although `policy.py:103` would let a
  clean last review approve. (c) An inventory that fails after acceptance raises
  instead of blocking (`executor.py:2572`, `2900`). (d) In advisory mode facts
  that are generated again raise. (e) A committed revision rebuilds neither the
  task plan nor the scope (run `stale_task_plan`). (f) An ambiguity that was answered before, or a
  deterministic finding that needs a human, waits for one without a question.
  (g) The stashed preflight issues (`executor.py:2468`) are those of the last
  generated patch, also after a revision or a commit. (h) A stale inventory is
  kept in advisory investigation. (i) A closure forgets what the contract check
  finds in its candidate. (j) Facts answers are not filtered by gate
  (`executor.py:2146`), placement answers are (`executor.py:2172`).

## Fairness

`RetryController` assumes weak fairness of `Loop` only: once called, the loop is
synchronous Python that keeps running until it returns. `FactsGate` and
`FragmentPipeline` assume weak fairness of `Step`, for the same reason: a call
of the executor runs until it returns or raises. A production or a review that
never returns would be a hanging client; clients have timeouts. `PlanWorkflow`
assumes weak fairness of `Machine`: the graph runtime executes the node it is
at. Nothing is assumed of the planner between calls or of humans, who may never
answer. `PatchGraphWalk` assumes weak fairness of its only loop.
`CampaignResume` has no fairness: a process may stay down.

## Proofs

All theorems hold for every value of the constants that satisfies the named
assumptions of the modules: any set of required patches that contains the facts,
any contents, reasons, owner policies, gates and budgets; any requirements,
materials, fragments, plans, defects, failures and configurations; any number of
runs, boundaries and starts.

- `PlanPatchGraph_proofs`: `ClosureIsAcyclic`. The order of the patch list ranks
  every patch above its dependencies, and what is ranked at least as high as a
  patch is a closed set, so no dependency is in the closure.
- `PatchGraphWalk_proofs`: `WorklistComputesClosure` over `ClosureInv` (what is
  wanted is stale, and the dependents of a wanted patch that has left the queue
  are wanted: with an empty queue it is closed), `SortAnswersInOrder` over
  `SortInv` (what is emitted ranks below what is left, the indegrees count the
  dependencies left, the queue is what is ready, in order: the lowest patch left
  is always ready, so the sort never reports a cycle) and `WalkEnds`. They hold
  for every selection and every order of the seeds, by an argument over the
  order that ranks a patch above its dependencies. `InOrder` counts positions
  because the provers know nothing of `SelectSeq`.
- `RetryController_proofs`: `RequestInvariant`, `TypeCorrect`,
  `PendingListCorrect`, `FinishedIsFinished`, `CallsAreBounded`. `RequestInv`
  joins types with the fact that the request in hand is pending or was failed in
  this iteration; types alone are not inductive because a lifecycle change needs
  a request.
  - the build state: `AssemblyIsCurrent`; `AcceptanceIsCurrent` over `GateInv`,
    which adds that candidates replace patches that are valid, that the gate which called the loop is not accepted
    while the loop runs, and that every acceptance stands beside one of the facts
    (a revision of the facts then finds none to spoil); `NothingStale` and
    `NothingBeforeFacts` under `OwnersIndependent`: no reason in play owns two
    patches of which one depends on the other (the latter with `FactsInv`, and
    about the acceptance of the facts only, not their task plan); and `AcceptedAsAWhole`, whose
    `FinalInv` says that while there is an assembly no acceptance is of other
    patches, and that a final acceptance for the present task plan comes with
    acceptances of all the other gates. It needs no assumption on owners.
  - a replacement: `ReplacedAsSeenOrUnseen`, without assumptions: what a commit
    replaces is what its request was made about, or did not exist when the
    request was made (`ReviewedInv`: from the compile step to the commit the
    owners are as the request saw them or were not seen). The code has such
    requests: the axial gate looks before there are overlays, and a request can
    be posted from outside. Where findings name what is there
    (`FindingsNameWhatIsThere`: a gate's findings name patches it waits for, the
    readiness check's name required ones, none is posted), `ReplacedAsReviewed`
    excludes the second case; `placement_retry` is such an instance.
- `RetryRefinement_proofs`: `OneRequestPerDefect`, `AttemptsBounded` over
  `LedgerInv`, which carries from the compile step to the attempt that the
  selected request's ledger is still below its budget; and
  `LoopImplementsLedger` over `HandInv`, which adds that the owners of the
  request in hand were not touched since it was compiled. Every action maps to
  one step of the ledger or to none.
- `FragmentPipeline_proofs`: `PipelineInvariant`, `PipelineTypeCorrect`,
  `SessionsBacked`, `ValidPatchQualifies`, `MergeNeverFlags`,
  `SoundFragmentsStay`, `PassesAreBounded`. `PipelineInv` adds to the types that
  a session with a manifest has no repeated universe and that, within a pass,
  each fragment before the position qualifies and was verified or accepted in
  this pass. `ValidPatchQualifies` then follows the patch through every step of
  the normalisation and the aliases: stripping drops only undeclared poisons, the
  anchor of a background is accepted and of a role the property leaves out, a
  host only gains cells, and a filling is an accepted moderator or coolant.
- `PlanWorkflow_proofs`: `WorkflowTypeCorrect` and `RepairsAreCommittedOnce`
  (committed failures are tried failures, and there is one proposal),
  `RenderedPlansAreValid` (a plan that goes to the renderer has its own report),
  `RetriesWithinBudget`, `OnlyNamedLoops` (below), `ConfirmationsAreShown` (`ConfirmedInv`: from rendering
  on, a plan with open confirmations was shown, or the supervisor has spent its
  decisions, which is for good) and `OkRunsHavePassed` (`EarnedInv`: a failure is
  diagnosed under the report that found it, the tools find no old script, and a
  pass that asked or stopped left no plan).
- `CampaignResume_proofs`: `CampaignInvariant`, `CampaignTypeCorrect`,
  `OwnInputs`, `OneResultPerRun`, `VerdictSupported`, `PassesKept`. `FilesInv`
  ties the files to the process between two writes; the verdict needs that as
  many distinct passes as runs are all the runs (a bijection argument).
- `FactsGate_proofs`: `GateInvariant`, `GateTypeCorrect`, `AcceptanceIsEarned`,
  `CandidatesStayIsolated`, `BlockedStaysBlocked`, `GateCallsAreBounded`.
  `PhaseInv` ties where a call is to the status of the stage and the content in
  hand; `BudgetInv` says what of each budget is left, by the closure's round,
  because a closure looks at none; `AcceptedInv` speaks of the accepted content
  and not of the facts, which are gone or others while a gate is called again.

Termination. What the prover can state of a liveness property is the part about
single steps: a natural number that every step lowers. `CallsAreBounded` (the
retry loop: four steps per round and four more), `GateCallsAreBounded` (the
Facts gate: three per closure round and four more), `PassesAreBounded` (the
fragments: the attempts and one more per universe) and `WalkEnds` leave only the
fairness of the step to TLC's `LoopReturns`, `GateReturns`, `GenerationReturns`
and `WalkTerminates`. `OnlyNamedLoops` does this for the workflow: `RunLeft` adds
what is unspent (retries, rounds with a person, decisions, repairs, a scheduled
regeneration, a supervisor that has not given up), weighs it above the distance
to the end, and falls in every step that starts and ends outside the five loops
of `UnboundedLoops`. So a run that visits those finitely often is finite, and no
sixth loop is hidden between two budgets. It rests on `PendingInv` (a scheduled
regeneration meets no error on its way to `generate_plan`) and `RepairStartInv`
(a runtime repair starts with an attempt left, or before anything was repaired
where no supervisor decides).

Model-checked only: the six liveness properties (`LoopReturns`, `GateReturns`,
`GenerationReturns`, `WalkTerminates`, `ScheduledRegenerationRuns`,
`EndsOrLoops`). The step from "falls in every step" to "ends" is an induction
over the numbers under fairness, whose ENABLED the prover does not have. Every
safety invariant and action property of a passing run is proved, three of them
under an assumption named above. What a recursive definition computes for every
input is out of the prover's reach and nothing here depends on it.

## Not modelled

- The revisions, questions and SKIPPED stages of the Material-Universe,
  placement, axial and assembled-plan gates: their shape is that of the Facts
  gate, their findings are domain questions. An accepted axial gate behind a
  blocked placement gate raises `InvalidPlanLoopTransition`; `RetryController`
  has no step there.
- In the retry loop: `allow_create` (no caller sets it), the target-gate-seed
  constraint (`retry_controller.py:65-102`), frozen gates, the depth bound of the
  nested resume (`executor.py:4212-4216`), the downstream resumer and gate
  replayer, which no caller passes.
- In the workflow: the semantic audit and the repair proposer (off by default),
  the fallback to the monolithic planner, `resume_plan_retry` (nothing sets what
  routes to it), the older `build_graph`.
- The materials pipeline (the universes' without fragments that cite another
  patch), the inside of `generate_patch`, the replay of flagged fragments.
- Campaigns: a state seeded by the caller, the number of runs changing between
  starts, report files.
- Gate transactions and downstream resume (wired only into tests and scripts at
  this commit), validation repair on patch contents, the call recorder, plan
  investigation.
- Assembly, validation, schemas, renderers, retrieval, adapters, deterministic
  checks and evaluation: pure functions over a large data model or calls of
  external services, whose verdicts are nondeterministic in the models.

## Plan

Built: the patch graph, the retry loop and its ledger, the campaign, the
workflow with its runtime half, the universes pipeline, the Facts gate. What is
left, in this order:

1. The stages of the other four gates, as instances of `FactsGate`'s machine.
2. `GateTransaction`: the twenty steps, any one failing, against an atomic
   abstract commit.
3. `ValidationRepair` as a second writer of patches beside the loop, and
   materials renormalised during a review (`executor.py:3672`).
4. The call recorder, the materials pipeline and the investigation session.
