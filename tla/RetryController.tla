-------------------------- MODULE RetryController --------------------------
(***************************************************************************)
(* The executable dependency-retry loop of the plan builder                *)
(* (plan_builder/closed_loop/retry_controller.py) over the plan build      *)
(* state it repairs (plan_builder/state.py).                               *)
(*                                                                         *)
(* A review gate or the readiness check that rejects the plan registers a  *)
(* typed request naming the patch types that own the defect.  The loop     *)
(* takes the most urgent pending request, checks that it is still about    *)
(* the current patches, has a producer (a language model) write a          *)
(* candidate for each owner on a copy of the state, checks it, commits it, *)
(* and invalidates every patch and gate that depended on the old owner.    *)
(* The planner then regenerates what was invalidated and replays gates.    *)
(*                                                                         *)
(* The loop is modelled as its three callers wire it: the graph node       *)
(* execute_plan_retry (one round, producer registry), the placement gate   *)
(* (the whole round budget, a producer and an acceptance check) and a      *)
(* direct call without producers; none passes a downstream resumer or a    *)
(* gate replayer.  Patch contents are told apart by their hash only:       *)
(* Contents is the set of hashes.                                          *)
(***************************************************************************)
EXTENDS PlanPatchGraph, FiniteSets

CONSTANTS
  Required,        \* the patch types of the canonical task plan
  ContentsOf,      \* patch type -> the contents (hashes) it can be given
  NoContent,       \* the hash of a patch that is not valid
  Reasons,         \* the issue codes of retry_owner_policy that are in play
  OwnerPolicy,     \* reason -> its RetryOwnerPolicy or SpecialRetryRoute
  ReviewGates,     \* the gates that are enabled and apply to this plan
  GateReasons,     \* gate -> the reasons its review can report
  ReadinessReasons,\* the reasons of the material-readiness check
  DirectReasons,   \* the reasons posted through the exported builders
  AssemblyIssues,  \* the codes the assembler reports
  TaskPlanOf,      \* facts content -> hash of build_canonical_task_plan
  NoTaskPlan,      \* no canonical task plan was built yet
  Modes,           \* the plan-loop modes the state can have been given
  Callers,         \* who calls the loop besides the placement gate
  MaxRetryRounds,  \* policy.max_retry_rounds
  MaxAttempts,     \* policy.max_attempts_per_retry_request
  MaxSameCandidate,\* policy.max_same_candidate_attempts
  MaxLlmCalls,     \* policy.max_total_retry_llm_calls
  LlmCosts,        \* the calls one production can take
  MaxRequests      \* bound: requests registered in a behaviour

(* RetryOwnerPolicy.max_attempts, never overridden.                        *)
OwnerMaxAttempts == 2

Actions == { "regenerate", "recompute", "fail_closed" }

(* What retry_owner_policy and the request builders make of a reason:      *)
(* supported is whether the loop finds a patch policy for the bare code.   *)
Policies == [ owners    : Seq(PatchTypes),
              action    : Actions,
              supported : BOOLEAN,
              human     : BOOLEAN,
              priority  : Nat ]

Contents == UNION { ContentsOf[p] : p \in Required }
TaskPlans == { TaskPlanOf[c] : c \in ContentsOf["facts"] \cup {NoContent} }

ASSUME RequiredAssumption == Required \subseteq PatchTypes /\ "facts" \in Required

ASSUME ContentsAssumption ==
  /\ DOMAIN ContentsOf = Required
  /\ NoContent \notin Contents

ASSUME PolicyAssumption ==
  /\ OwnerPolicy \in [Reasons -> Policies]
  /\ GateReasons \in [ReviewGates -> SUBSET Reasons]
  /\ ReadinessReasons \subseteq Reasons /\ DirectReasons \subseteq Reasons

(* No gate is run without the Facts gate; the others have patches to read. *)
ASSUME GateAssumption ==
  /\ ReviewGates \subseteq Gates
  /\ ReviewGates \ {"assembled_plan"} # {} => "facts" \in ReviewGates
  /\ "material_universe" \in ReviewGates => {"materials", "universes"} \subseteq Required
  /\ "placement" \in ReviewGates =>
       "universes" \in Required /\ GatePatchTypes["placement"] \cap Required # {}
  /\ "axial_geometry" \in ReviewGates => "axial_layers" \in Required

ASSUME TaskPlanAssumption ==
  /\ DOMAIN TaskPlanOf = ContentsOf["facts"] \cup {NoContent}
  /\ NoTaskPlan \notin TaskPlans

ASSUME BudgetAssumption ==
  /\ Modes \subseteq { "off", "advisory", "controlled" }
  /\ Callers \subseteq { "node", "direct" }
  /\ MaxRetryRounds \in Nat /\ MaxAttempts \in Nat /\ MaxSameCandidate \in Nat /\ MaxLlmCalls \in Nat
  /\ LlmCosts \subseteq Nat /\ MaxRequests \in Nat

VARIABLES
  mode,        \* plan_loop_policy.mode
  content,     \* patch type -> hash of its valid envelope, or NoContent
  basis,       \* history: the dependencies' contents a patch was generated from
  scoped,      \* resolved_planning_scope and planning_feature_contract are set
  taskPlan,    \* canonical_task_plan.plan_hash
  issues,      \* the error codes of validation_issues
  assembled,   \* the contents assembled_plan was built from, or NoAssembly
  stage,       \* gate -> status of its plan_loop_stages entry
  acceptedOf,  \* gate -> the input contents it accepted (accepted_input_hash)
  acceptedPlan,\* gate -> the task plan that hash covers, if it covers one
  requests,    \* plan_retry_requests, in registration order
  pending,     \* plan_retry_pending_request_ids
  attempts,    \* plan_retry_attempts_by_fingerprint
  candidates,  \* plan_retry_candidate_hashes_by_fingerprint
  issueTrace,  \* plan_retry_issue_fingerprints_by_request
  planTrace,   \* plan_retry_task_plan_hash_history
  llmCalls,    \* plan_retry_budget["llm_calls"]
  pc,          \* where control is: the planner, a rejecting gate, the loop
  loop         \* the loop's locals

stateVars   == << content, basis, scoped, taskPlan, issues, assembled, stage,
                  acceptedOf, acceptedPlan >>
requestVars == << requests, pending >>
ledgerVars  == << attempts, candidates, issueTrace, planTrace, llmCalls >>
vars == << mode, stateVars, requestVars, ledgerVars, pc, loop >>

-----------------------------------------------------------------------------
(* Lifecycles of a request and outcomes of a call of the loop              *)
(* (retry_models.py).                                                      *)
Lifecycles == { "pending", "awaiting_human", "owner_committed", "resolved",
                "superseded", "no_progress", "blocked", "failed" }
Terminal == { "resolved", "superseded", "no_progress", "blocked", "failed" }

Outcomes == { "none", "resolved", "resumed", "partially_resolved",
              "no_progress", "cycle_detected", "budget_exhausted",
              "unsupported_request", "blocked", "failed", "awaiting_human",
              "retry_plan_recorded" }

(* _retry_outcome_requires_downstream_resume.                              *)
Resuming == { "resolved", "resumed", "partially_resolved" }

Image(s) == { s[i] : i \in DOMAIN s }
Owners(r) == Image(r.owners)
Valid == { p \in Required : content[p] # NoContent }

(* _patch_hash: the hash of the valid envelope, None if there is none.     *)
HashOf(p) == IF p \in Required THEN content[p] ELSE NoContent

(* ExecutablePlanRetryRequest.request_fingerprint: what the request is     *)
(* about, without its id, its lifecycle and its wording.                   *)
Fingerprint(r) == [ reason |-> r.reason, hashes |-> r.hashes,
                    plan |-> r.plan, input |-> r.input ]

(* dict.get(key, default) on a ledger keyed by fingerprint, and the store. *)
Lookup(ledger, key, default) == IF key \in DOMAIN ledger THEN ledger[key] ELSE default
Store(ledger, key, value) ==
  [ k \in DOMAIN ledger \cup {key} |-> IF k = key THEN value ELSE ledger[k] ]

Ids == 1..Len(requests)
Live(id) == requests[id].lifecycle \notin Terminal

(* Mutant: a finished request stays on the pending list.                   *)
SetLifecycleOnly(id, lifecycle) ==
  /\ requests' = [ requests EXCEPT ![id].lifecycle = lifecycle ]
  /\ pending' = pending

(* _set_request_lifecycle: a terminal request leaves the pending list.     *)
SetLifecycle(id, lifecycle) ==
  /\ requests' = [ requests EXCEPT ![id].lifecycle = lifecycle ]
  /\ pending' = IF lifecycle \in Terminal THEN pending \ {id} ELSE pending

-----------------------------------------------------------------------------
(* The patches whose contents a gate's evidence is built from.             *)
GateReads ==
  [ facts             |-> {"facts"},
    material_universe |-> {"facts", "materials", "universes"},
    placement         |-> {"facts", "universes", "localized_insert_profiles",
                           "pin_map", "assembly_catalog", "core_layout"},
    axial_geometry    |-> {"facts", "materials", "universes",
                           "base_path_axial_profiles", "axial_layers",
                           "axial_overlays"},
    assembled_plan    |-> PatchTypes ]

(* Those that must be valid before it looks: the axial gate does not wait  *)
(* for the overlays.                                                       *)
GateNeeds == [ GateReads EXCEPT !["axial_geometry"] = {"facts", "axial_layers"} ]
GateReady(g) == GateNeeds[g] \cap Required \subseteq Valid

(* What its input hash covers; the axial gate's also covers what the       *)
(* placement gate accepted.                                                *)
GateInputs(g) ==
  Required \cap ( GateReads[g] \cup
                  IF g = "axial_geometry" /\ "placement" \in ReviewGates
                  THEN GateReads["placement"] ELSE {} )
InputOf(g) == [ p \in GateInputs(g) |-> content[p] ]

(* The patches are no longer those of the accepted input hash.             *)
PatchesChanged(g) == \E p \in GateInputs(g) : acceptedOf[g][p] # content[p]

(* The gates whose input hash also covers the task plan's.                 *)
PlanReaders == { "material_universe", "axial_geometry", "assembled_plan" }

(* The accepted input hash is no longer that of the state.                 *)
Outgrown(g) ==
  \/ PatchesChanged(g)
  \/ g \in PlanReaders /\ acceptedPlan[g] # taskPlan

NoAssembly == << >>
NoInput == << >>
NoBasis == << >>

(* What a patch generated now is generated from.                           *)
BasisNow(p) == [ d \in Dependencies[p] \cap Required |-> content[d] ]

(* A typed request for reason why, as normalize_retry_request and the      *)
(* builders make it from the current state; a special route records no     *)
(* task plan.                                                              *)
NewRequest(why, input) ==
  [ reason    |-> why,
    owners    |-> OwnerPolicy[why].owners,
    hashes    |-> [ p \in Image(OwnerPolicy[why].owners) |-> HashOf(p) ],
    plan      |-> IF OwnerPolicy[why].action = "fail_closed" THEN NoTaskPlan ELSE taskPlan,
    input     |-> input,
    lifecycle |-> "pending" ]

(* Mutant: every finding is registered.                                    *)
RegisterAgain(r) ==
  /\ requests' = Append(requests, r)
  /\ pending' = pending \cup { Len(requests) + 1 }

(* _idempotent_register: an active request with the same fingerprint       *)
(* stands for the new one, otherwise the new one becomes pending.          *)
Register(r) ==
  IF \E id \in Ids : Fingerprint(requests[id]) = Fingerprint(r) /\ Live(id)
  THEN UNCHANGED requestVars
  ELSE /\ requests' = Append(requests, r)
       /\ pending' = pending \cup { Len(requests) + 1 }

(* invalidate_patch_types on contents c: the valid envelopes of the types  *)
(* become invalid.                                                         *)
Without(types, c) ==
  [ p \in Required |-> IF p \in types THEN NoContent ELSE c[p] ]

(* Mutant: the assembled plan outlives the patches.                        *)
AssemblyKept(types) == assembled

(* What it drops with them if it invalidated any: the recorded issues and  *)
(* the assembled plan.                                                     *)
IssuesWithout(types) == IF types \cap Valid # {} THEN {} ELSE issues
AssemblyWithout(types) == IF types \cap Valid # {} THEN NoAssembly ELSE assembled

(* Mutants: disabled gates get a stage; accepted gates keep theirs.        *)
InvalidateDisabledGates(types) ==
  stage' = [ g \in Gates |-> IF g \in GatesAffectedBy(types) THEN "pending"
                             ELSE IF g \in ReviewGates THEN stage[g] ELSE "pending" ]
InvalidateOpenGates(types) ==
  stage' = [ g \in ReviewGates |-> IF g \in GatesAffectedBy(types) /\ stage[g] # "accepted"
                                   THEN "pending" ELSE stage[g] ]

(* invalidate_gates_for_patch_change: the affected gates must look again;  *)
(* what they accepted stays recorded.                                      *)
InvalidateGates(types) ==
  stage' = [ g \in ReviewGates |-> IF g \in GatesAffectedBy(types)
                                   THEN "pending" ELSE stage[g] ]

-----------------------------------------------------------------------------
(* The planner between two calls of the loop: executor.py generates the    *)
(* missing patches in order, runs the gates, checks readiness, assembles.  *)

IdleLoop == [ caller |-> "none", round |-> 0, request |-> 0,
              candidate |-> << >>, outcome |-> "none", committed |-> FALSE,
              detached |-> FALSE ]

Init ==
  /\ mode \in Modes
  /\ content = [ p \in Required |-> NoContent ]
  /\ basis = [ p \in Required |-> NoBasis ]
  /\ scoped = FALSE /\ taskPlan = NoTaskPlan
  /\ issues = {}
  /\ assembled = NoAssembly
  /\ stage = [ g \in ReviewGates |-> "pending" ]
  /\ acceptedOf = [ g \in ReviewGates |-> NoInput ]
  /\ acceptedPlan = [ g \in ReviewGates |-> NoTaskPlan ]
  /\ requests = << >> /\ pending = {}
  /\ attempts = << >> /\ candidates = << >> /\ issueTrace = << >>
  /\ planTrace = << >> /\ llmCalls = 0
  /\ pc = "planner"
  /\ loop = IdleLoop

Accepted(g) == g \in ReviewGates => stage[g] = "accepted"

(* Mutant: materials and universes do not wait for the Facts gate.         *)
MayGenerateEarly(p) ==
  mode = "controlled" /\ p \notin {"facts", "materials", "universes"} =>
    Accepted("material_universe")

(* The controlled barriers of the patch loop: nothing but facts before the *)
(* Facts gate accepts, nothing past universes before Material-Universe.    *)
MayGenerate(p) ==
  mode = "controlled" =>
    /\ p # "facts" => Accepted("facts")
    /\ p \notin {"facts", "materials", "universes"} => Accepted("material_universe")

(* With a controlled placement gate its patches come before the axial ones *)
(* (_order_for_controlled_gate_barriers).                                  *)
BarrierOrder == << "facts", "materials", "universes", "localized_insert_profiles",
                   "pin_map", "assembly_catalog", "core_layout",
                   "base_path_axial_profiles", "axial_layers", "axial_overlays",
                   "settings" >>

PatchOrder == IF mode = "controlled" /\ "placement" \in ReviewGates
              THEN BarrierOrder ELSE Order

(* The patch loop takes the first missing patch in that order.             *)
Earlier(p) == { PatchOrder[i] : i \in { j \in DOMAIN PatchOrder :
                  \E k \in DOMAIN PatchOrder : PatchOrder[k] = p /\ j < k } }

GeneratePatch(p) ==
  /\ pc = "planner"
  /\ content[p] = NoContent
  /\ Earlier(p) \cap Required \subseteq Valid
  /\ MayGenerate(p)
  /\ \E c \in ContentsOf[p] : content' = [ content EXCEPT ![p] = c ]
  /\ basis' = [ basis EXCEPT ![p] = BasisNow(p) ]
  /\ UNCHANGED << mode, scoped, taskPlan, issues, assembled, stage, acceptedOf,
                  acceptedPlan, requestVars, ledgerVars, pc, loop >>

(* A gate reviews once its inputs are complete and the gates before it     *)
(* accepted (the axial gate passes over those that are not ready); the     *)
(* assembled-plan gate also needs an assembly, and the others to have      *)
(* looked at what there is now, as they do earlier in the same pass.       *)
UpstreamAccepted(g) ==
  CASE g = "facts"             -> TRUE
    [] g = "material_universe" -> Accepted("facts")
    [] g = "placement"         -> Accepted("facts")
    [] g = "axial_geometry"    -> /\ Accepted("facts")
                                  /\ \A u \in {"material_universe", "placement"} :
                                       GateReady(u) => Accepted(u)
    [] g = "assembled_plan"    -> \A u \in Gates \ {g} :
                                    Accepted(u) /\ (u \in ReviewGates => ~Outgrown(u))

(* A gate that accepted other inputs than there are now is reopened.       *)
MayReview(g) ==
  /\ pc = "planner" /\ mode = "controlled"
  /\ \/ stage[g] \in {"pending", "reviewing"}
     \/ stage[g] = "accepted" /\ Outgrown(g)
  /\ GateReady(g) /\ UpstreamAccepted(g)
  /\ g = "assembled_plan" => assembled # NoAssembly

(* A review of the facts resolves scope and contract before it asks.       *)
Scope(g) == scoped' = (scoped \/ g = "facts")

(* A review without error findings.  Acceptance binds the gate to what it  *)
(* read; the Facts gate also builds the canonical task plan.               *)
AcceptGate(g) ==
  /\ MayReview(g)
  /\ Scope(g)
  /\ stage' = [ stage EXCEPT ![g] = "accepted" ]
  /\ acceptedOf' = [ acceptedOf EXCEPT ![g] = InputOf(g) ]
  /\ acceptedPlan' = [ acceptedPlan EXCEPT ![g] = taskPlan ]
  /\ taskPlan' = IF g = "facts" THEN TaskPlanOf[content["facts"]] ELSE taskPlan
  /\ UNCHANGED << mode, content, basis, issues, assembled,
                  requestVars, ledgerVars, pc, loop >>

(* The Facts gate has its findings repaired instead: the candidate that a  *)
(* closure round accepts replaces the facts, and what depended on the old  *)
(* ones is invalidated.  The task plan stays what it was.                  *)
ReviseFacts(c) ==
  LET dependents == TransitiveDependents({"facts"})
  IN  /\ "facts" \in ReviewGates /\ MayReview("facts")
      /\ content' = [ Without(dependents, content) EXCEPT !["facts"] = c ]
      /\ basis' = [ p \in Required |-> IF p = "facts" THEN BasisNow(p)
                                       ELSE IF p \in dependents THEN NoBasis
                                       ELSE basis[p] ]
      /\ issues' = {} /\ assembled' = NoAssembly
      /\ Scope("facts")
      /\ stage' = [ stage EXCEPT !["facts"] = "accepted" ]
      /\ acceptedOf' = [ acceptedOf EXCEPT !["facts"] = InputOf("facts")' ]
      /\ UNCHANGED << mode, taskPlan, acceptedPlan, requestVars, ledgerVars, pc, loop >>

(* A review with error findings: each finding with a registered owner      *)
(* becomes a request, then the stage is blocked.                           *)
RejectGate(g) ==
  /\ MayReview(g)
  /\ Scope(g)
  /\ stage' = [ stage EXCEPT ![g] = "reviewing" ]
  /\ pc' = "findings"
  /\ loop' = [ IdleLoop EXCEPT !.caller = g ]
  /\ UNCHANGED << mode, content, basis, taskPlan, issues, assembled, acceptedOf,
                  acceptedPlan, requestVars, ledgerVars >>

Rejecting(g) == pc = "findings" /\ loop.caller = g

ReportFinding(g, why) ==
  /\ Rejecting(g) /\ g # "placement"
  /\ why \in GateReasons[g]
  /\ Len(requests) < MaxRequests
  /\ Register(NewRequest(why, NoInput))
  /\ UNCHANGED << mode, stateVars, ledgerVars, pc, loop >>

(* The last two gates are blocked without a review behind a gate that an   *)
(* earlier pass of the planner left blocked.                               *)
Behind(g) ==
  /\ pc = "planner" /\ mode = "controlled"
  /\ g \in {"axial_geometry", "assembled_plan"} /\ stage[g] \in {"pending", "reviewing"}
  /\ g = "assembled_plan" => assembled # NoAssembly
  /\ \E u \in ReviewGates \cap {"placement", "axial_geometry"} :
       stage[u] = "blocked" /\ GateReady(u)

BlockGate(g) ==
  /\ Rejecting(g) \/ Behind(g)
  /\ stage' = [ stage EXCEPT ![g] = "blocked" ]
  /\ pc' = "planner"
  /\ loop' = IdleLoop
  /\ UNCHANGED << mode, content, basis, scoped, taskPlan, issues, assembled,
                  acceptedOf, acceptedPlan, requestVars, ledgerVars >>

(* The placement gate registers the dependency it misses, bound to the     *)
(* input it reviewed, and runs the loop itself.                            *)
RetryPlacementDependency(why) ==
  /\ Rejecting("placement")
  /\ why \in GateReasons["placement"]
  /\ Len(requests) < MaxRequests
  /\ Register(NewRequest(why, InputOf("placement")))
  /\ pc' = "select"
  /\ UNCHANGED << mode, stateVars, ledgerVars, loop >>

(* The end of a planner pass: every patch is valid, and each gate accepted *)
(* them or, unless it is a barrier, was left blocked by an earlier pass.   *)
(* An axial gate that accepted raises behind a blocked placement gate.     *)
GatePassed(g) ==
  \/ stage[g] = "accepted" /\ ~Outgrown(g)
  \/ stage[g] = "blocked" /\ g \in {"placement", "axial_geometry"}

AllGenerated ==
  /\ pc = "planner" /\ Required \subseteq Valid
  /\ mode = "controlled" =>
       /\ \A g \in ReviewGates \ {"assembled_plan"} : GatePassed(g)
       /\ "axial_geometry" \in ReviewGates /\ stage["axial_geometry"] = "accepted"
            => Accepted("placement")

(* The readiness check before assembly records its issue and registers a   *)
(* request on every pass that finds it.                                    *)
FindUnready(why) ==
  /\ AllGenerated
  /\ {"materials", "axial_overlays"} \subseteq Required
  /\ why \in ReadinessReasons
  /\ Len(requests) < MaxRequests
  /\ issues' = issues \cup {why}
  /\ Register(NewRequest(why, NoInput))
  /\ UNCHANGED << mode, content, basis, scoped, taskPlan, assembled, stage,
                  acceptedOf, acceptedPlan, ledgerVars, pc, loop >>

(* build_retry_request_from_facts_issue and its siblings, exported and     *)
(* called by tests and scripts only.                                       *)
PostRequest(why) ==
  /\ pc = "planner" /\ why \in DirectReasons
  /\ Len(requests) < MaxRequests
  /\ Register(NewRequest(why, NoInput))
  /\ UNCHANGED << mode, stateVars, ledgerVars, pc, loop >>

(* assemble_state_if_ready: the plan, or the assembler's issues on top of  *)
(* the ones already there.                                                 *)
Assemble ==
  /\ AllGenerated
  /\ assembled' = content
  /\ UNCHANGED << mode, content, basis, scoped, taskPlan, issues, stage,
                  acceptedOf, acceptedPlan, requestVars, ledgerVars, pc, loop >>

FailAssembly(why) ==
  /\ AllGenerated
  /\ issues' = issues \cup {why}
  /\ UNCHANGED << mode, content, basis, scoped, taskPlan, assembled, stage,
                  acceptedOf, acceptedPlan, requestVars, ledgerVars, pc, loop >>

(* _resume_plan_retry: a typed human answer supersedes its request.        *)
AnswerHuman(id) ==
  /\ pc = "planner" /\ requests[id].lifecycle = "awaiting_human"
  /\ SetLifecycle(id, "superseded")
  /\ UNCHANGED << mode, stateVars, ledgerVars, pc, loop >>

Planner ==
  \/ \E p \in Required : GeneratePatch(p)
  \/ \E g \in ReviewGates : AcceptGate(g) \/ RejectGate(g) \/ BlockGate(g)
  \/ \E c \in ContentsOf["facts"] : ReviseFacts(c)
  \/ \E g \in ReviewGates : \E why \in GateReasons[g] : ReportFinding(g, why)
  \/ \E why \in Reasons : RetryPlacementDependency(why)
  \/ \E why \in ReadinessReasons : FindUnready(why)
  \/ \E why \in DirectReasons : PostRequest(why)
  \/ Assemble
  \/ \E why \in AssemblyIssues : FailAssembly(why)
  \/ \E id \in Ids : AnswerHuman(id)

-----------------------------------------------------------------------------
(* The loop, one iteration per pass through pc = "select".                 *)

(* Calls of execute_plan_retry_loop from the router's execute_plan_retry   *)
(* node, which needs pending work in controlled mode, and from anywhere.   *)
EnterLoop(caller) ==
  /\ pc = "planner"
  /\ caller = "node" => pending # {} /\ mode = "controlled"
  /\ pc' = "select"
  /\ loop' = [ IdleLoop EXCEPT !.caller = caller ]
  /\ UNCHANGED << mode, stateVars, requestVars, ledgerVars >>

RoundLimit == IF loop.caller = "node" THEN 1 ELSE MaxRetryRounds

(* The loop is left when nothing is pending, with the last outcome, or     *)
(* when the rounds are used up.                                            *)
LeaveLoop ==
  /\ pc = "select"
  /\ pending = {} \/ loop.round >= RoundLimit
  /\ pc' = "return"
  /\ loop' = [ loop EXCEPT !.outcome =
                 IF pending # {} THEN "budget_exhausted"
                 ELSE IF loop.outcome = "none" THEN "resolved" ELSE loop.outcome ]
  /\ UNCHANGED << mode, stateVars, requestVars, ledgerVars >>

(* What the caller does with the outcome.  The placement gate blocks its   *)
(* stage unless the outcome tells it to resume downstream; after a rolled  *)
(* back commit it holds a stage object the state no longer refers to.      *)
ReturnFromLoop ==
  /\ pc = "return"
  /\ stage' = IF loop.caller = "placement" /\ loop.outcome \notin Resuming /\ ~loop.detached
              THEN [ stage EXCEPT !["placement"] = "blocked" ] ELSE stage
  /\ pc' = "planner"
  /\ loop' = IdleLoop
  /\ UNCHANGED << mode, content, basis, scoped, taskPlan, issues, assembled,
                  acceptedOf, acceptedPlan, requestVars, ledgerVars >>

(* _select_highest_priority_request: one of the most urgent ones (the      *)
(* order among equals is that of their hashes).                            *)
Urgency(id) == OwnerPolicy[requests[id].reason].priority
Selected(id) ==
  /\ pc = "select" /\ loop.round < RoundLimit
  /\ id \in pending /\ \A other \in pending : Urgency(id) <= Urgency(other)

(* compile_retry_execution_plan: why it refuses the request.               *)
Budget == IF MaxAttempts < OwnerMaxAttempts THEN MaxAttempts ELSE OwnerMaxAttempts
Unsupported(r) == ~OwnerPolicy[r.reason].supported

(* Mutants: the owner's hash is not compared; one attempt too many.        *)
OutdatedPlanOnly(r) == r.plan # NoTaskPlan /\ taskPlan # NoTaskPlan /\ r.plan # taskPlan
SpentAfterOneMore(r) == Lookup(attempts, Fingerprint(r), 0) > Budget

Outdated(r) ==
  \/ r.plan # NoTaskPlan /\ taskPlan # NoTaskPlan /\ r.plan # taskPlan
  \/ \E p \in Owners(r) : r.hashes[p] # NoContent /\ HashOf(p) # r.hashes[p]
Spent(r) == Lookup(attempts, Fingerprint(r), 0) >= Budget
Refused(r) == Unsupported(r) \/ Outdated(r) \/ Spent(r)

(* Mutant: the round is not counted.                                       *)
IterateUncounted(id, outcome) ==
  loop' = [ loop EXCEPT !.request = id, !.outcome = outcome ]

(* One more iteration on the selected request, and its outcome.            *)
Iterate(id, outcome) ==
  loop' = [ loop EXCEPT !.round = @ + 1, !.request = id, !.outcome = outcome ]

(* Off mode answers before anything is compiled.                           *)
LoopOff(id) ==
  /\ Selected(id) /\ mode = "off"
  /\ pc' = "return"
  /\ Iterate(id, "blocked")
  /\ UNCHANGED << mode, stateVars, requestVars, ledgerVars >>

RefuseRequest(id) ==
  /\ Selected(id) /\ mode # "off" /\ Refused(requests[id])
  /\ SetLifecycle(id, "blocked")
  /\ Iterate(id, CASE Unsupported(requests[id]) -> "unsupported_request"
                   [] Outdated(requests[id])    -> "blocked"
                   [] OTHER                     -> "budget_exhausted")
  /\ UNCHANGED << mode, stateVars, ledgerVars, pc >>

Compiled(id) == Selected(id) /\ mode # "off" /\ ~Refused(requests[id])

(* Advisory mode stops at the plan.                                        *)
RecordAdvisory(id) ==
  /\ Compiled(id) /\ mode = "advisory"
  /\ pc' = "return"
  /\ Iterate(id, "retry_plan_recorded")
  /\ UNCHANGED << mode, stateVars, requestVars, ledgerVars >>

Controlled(id) == Compiled(id) /\ mode = "controlled"
NeedsHuman(id) == OwnerPolicy[requests[id].reason].human
Action(id) == OwnerPolicy[requests[id].reason].action

AwaitHuman(id) ==
  /\ Controlled(id) /\ NeedsHuman(id)
  /\ SetLifecycle(id, "awaiting_human")
  /\ pc' = "return"
  /\ Iterate(id, "awaiting_human")
  /\ UNCHANGED << mode, stateVars, ledgerVars >>

(* The task plan is rebuilt from the facts, and every patch that the old   *)
(* one listed and their gates are invalidated.                             *)
RecomputeTaskPlan(id) ==
  /\ Controlled(id) /\ ~NeedsHuman(id) /\ Action(id) = "recompute"
  /\ scoped /\ taskPlan # NoTaskPlan
  /\ taskPlan' = TaskPlanOf[content["facts"]]
  /\ content' = Without(Required, content)
  /\ basis' = [ p \in Required |-> NoBasis ]
  /\ issues' = IssuesWithout(Required)
  /\ assembled' = AssemblyWithout(Required)
  /\ InvalidateGates(Required)
  /\ SetLifecycle(id, "owner_committed")
  /\ Iterate(id, "resumed")
  /\ UNCHANGED << mode, scoped, acceptedOf, acceptedPlan, ledgerVars, pc >>

(* Without an old task plan nothing is listed, so nothing is invalidated.  *)
BuildTaskPlan(id) ==
  /\ Controlled(id) /\ ~NeedsHuman(id) /\ Action(id) = "recompute"
  /\ scoped /\ taskPlan = NoTaskPlan
  /\ taskPlan' = TaskPlanOf[content["facts"]]
  /\ SetLifecycle(id, "owner_committed")
  /\ Iterate(id, "resumed")
  /\ UNCHANGED << mode, content, basis, scoped, issues, assembled, stage, acceptedOf,
                  acceptedPlan, ledgerVars, pc >>

(* No review of the facts has resolved a scope and a contract yet.         *)
RecomputeUnavailable(id) ==
  /\ Controlled(id) /\ ~NeedsHuman(id) /\ Action(id) = "recompute"
  /\ ~scoped
  /\ SetLifecycle(id, "blocked")
  /\ Iterate(id, "blocked")
  /\ UNCHANGED << mode, stateVars, ledgerVars, pc >>

-----------------------------------------------------------------------------
(* An owner candidate: produced on a clone, checked, committed.            *)
Regenerates(id) == Controlled(id) /\ ~NeedsHuman(id) /\ Action(id) # "recompute"

(* The request names no patch, or its first one has no valid envelope (no  *)
(* caller allows its creation).                                            *)
OwnerUnavailable(id) ==
  LET owners == requests[id].owners
  IN  owners = << >> \/ HashOf(owners[1]) = NoContent

FailWithoutOwner(id) ==
  /\ Regenerates(id) /\ OwnerUnavailable(id)
  /\ SetLifecycle(id, "failed")
  /\ Iterate(id, IF requests[id].owners = << >> THEN "unsupported_request" ELSE "failed")
  /\ UNCHANGED << mode, stateVars, ledgerVars, pc >>

(* No producer is registered (always so for a direct call), or it raised.  *)
FailProduction(id) ==
  /\ Regenerates(id) /\ ~OwnerUnavailable(id)
  /\ SetLifecycle(id, "failed")
  /\ Iterate(id, "failed")
  /\ UNCHANGED << mode, stateVars, ledgerVars, pc >>

(* The calls a production took: the placement gate's producer counts as    *)
(* one, a registry producer reports its own.                               *)
Costs == CASE loop.caller = "placement" -> {1}
           [] loop.caller = "node"      -> LlmCosts
           [] OTHER                     -> {}

ExhaustLlmBudget(id, cost) ==
  /\ Regenerates(id) /\ ~OwnerUnavailable(id) /\ cost \in Costs
  /\ llmCalls + cost > MaxLlmCalls
  /\ llmCalls' = llmCalls + cost
  /\ SetLifecycle(id, "blocked")
  /\ pc' = "return"
  /\ Iterate(id, "budget_exhausted")
  /\ UNCHANGED << mode, stateVars, attempts, candidates, issueTrace, planTrace >>

(* A candidate content per owner; the owners in rejected have no valid     *)
(* envelope or got a candidate that does not parse or validate.  That      *)
(* fails the request, yet the iteration goes on.                           *)
Produce(id, cost, rejected) ==
  /\ Regenerates(id) /\ ~OwnerUnavailable(id) /\ cost \in Costs
  /\ llmCalls + cost <= MaxLlmCalls
  /\ rejected \subseteq Owners(requests[id])
  /\ \A p \in Owners(requests[id]) : HashOf(p) = NoContent => p \in rejected
  /\ \E candidate \in [Owners(requests[id]) \ rejected -> Contents] :
       /\ \A p \in DOMAIN candidate : candidate[p] \in ContentsOf[p]
       /\ loop' = [ loop EXCEPT !.round = @ + 1, !.request = id,
                      !.candidate = candidate,
                      !.outcome = IF rejected = {} THEN @ ELSE "failed" ]
  /\ IF rejected = {} THEN UNCHANGED requestVars ELSE SetLifecycle(id, "failed")
  /\ llmCalls' = llmCalls + cost
  /\ pc' = "check"
  /\ UNCHANGED << mode, stateVars, attempts, candidates, issueTrace, planTrace >>

-----------------------------------------------------------------------------
(* _detect_cycle on the request in hand.                                   *)
Key == Fingerprint(requests[loop.request])

(* s with e appended and only its last n elements kept.                    *)
AppendCapped(s, e, n) ==
  IF Len(s) < n THEN Append(s, e) ELSE Append(Tail(s), e)

SameIssuesAgain ==
  LET trace == Lookup(issueTrace, Key, << >>)
  IN  Len(trace) >= 2 /\ trace[Len(trace)] = issues

(* The plan hash of every candidate is traced; two alternations, or four   *)
(* equal hashes, are an oscillation.                                       *)
PlanTraceNow == IF SameIssuesAgain \/ taskPlan = NoTaskPlan THEN planTrace
                ELSE AppendCapped(planTrace, taskPlan, 6)
PlanOscillates ==
  LET h == PlanTraceNow  n == Len(PlanTraceNow)
  IN  /\ ~SameIssuesAgain /\ taskPlan # NoTaskPlan
      /\ n >= 4 /\ h[n] = h[n - 2] /\ h[n - 1] = h[n - 3]

DuplicateCandidate == loop.candidate \in Image(Lookup(candidates, Key, << >>))
NoProgress == SameIssuesAgain \/ PlanOscillates \/ DuplicateCandidate

(* The attempt is counted and the candidate recorded whether or not it is  *)
(* a repetition.                                                           *)
RecordAttempt ==
  /\ attempts' = Store(attempts, Key, Lookup(attempts, Key, 0) + 1)
  /\ candidates' = Store(candidates, Key,
                         Append(Lookup(candidates, Key, << >>), loop.candidate))
  /\ issueTrace' = IF SameIssuesAgain THEN issueTrace
                   ELSE Store(issueTrace, Key,
                              AppendCapped(Lookup(issueTrace, Key, << >>), issues, 8))
  /\ planTrace' = PlanTraceNow

StopOnCycle ==
  /\ pc = "check" /\ NoProgress
  /\ RecordAttempt
  /\ SetLifecycle(loop.request, "no_progress")
  /\ pc' = "select"
  /\ loop' = [ loop EXCEPT !.candidate = << >>,
                 !.outcome = IF PlanOscillates THEN "cycle_detected" ELSE "no_progress" ]
  /\ UNCHANGED << mode, stateVars, llmCalls >>

PassCycleCheck ==
  /\ pc = "check" /\ ~NoProgress
  /\ RecordAttempt
  /\ pc' = "accept"
  /\ UNCHANGED << mode, stateVars, requestVars, llmCalls, loop >>

(* The placement gate's acceptance check rejects universes without the     *)
(* required ids; the request stays active until its attempts are used up.  *)
FailAcceptance ==
  /\ pc = "accept" /\ loop.caller = "placement"
  /\ "universes" \in Owners(requests[loop.request])
  /\ LET allowed == IF MaxAttempts < MaxSameCandidate + 1 THEN MaxAttempts
                    ELSE MaxSameCandidate + 1
     IN  IF attempts[Key] >= allowed
         THEN SetLifecycle(loop.request, "failed") ELSE UNCHANGED requestVars
  /\ pc' = "select"
  /\ loop' = [ loop EXCEPT !.candidate = << >>, !.outcome = "failed" ]
  /\ UNCHANGED << mode, stateVars, ledgerVars >>

(* The new owners, and what was generated from the old ones is invalid.    *)
CommitOwner ==
  LET id         == loop.request
      owners     == DOMAIN loop.candidate
      dependents == TransitiveDependents(owners) \ owners
      remaining  == IssuesWithout(dependents)
      reason     == requests[id].reason
  IN  /\ pc = "accept" /\ owners = Owners(requests[id])
      /\ content' = [ p \in Required |-> IF p \in owners THEN loop.candidate[p]
                                         ELSE Without(dependents, content)[p] ]
      /\ basis' = [ p \in Required |-> IF p \in owners THEN BasisNow(p)
                                       ELSE IF p \in dependents THEN NoBasis
                                       ELSE basis[p] ]
      /\ assembled' = NoAssembly
      /\ issues' = remaining
      /\ InvalidateGates(dependents \cup owners)
      /\ SetLifecycle(id, IF remaining = {} THEN "resolved" ELSE "owner_committed")
      /\ pc' = "select"
      /\ loop' = [ loop EXCEPT !.candidate = << >>, !.committed = TRUE,
                     !.outcome = IF reason \in remaining THEN "partially_resolved"
                                 ELSE IF remaining # {} THEN "resumed" ELSE "resolved" ]
      /\ UNCHANGED << mode, scoped, taskPlan, acceptedOf, acceptedPlan, ledgerVars >>

(* A commit that misses an owner's candidate restores the state.           *)
RollBackCommit ==
  /\ pc = "accept" /\ DOMAIN loop.candidate # Owners(requests[loop.request])
  /\ SetLifecycle(loop.request, "failed")
  /\ pc' = "select"
  /\ loop' = [ loop EXCEPT !.candidate = << >>, !.outcome = "failed", !.detached = TRUE ]
  /\ UNCHANGED << mode, stateVars, ledgerVars >>

Candidate(id) ==
  \E cost \in LlmCosts \cup {1} :
    \/ ExhaustLlmBudget(id, cost)
    \/ \E rejected \in SUBSET Owners(requests[id]) : Produce(id, cost, rejected)

Iteration(id) ==
  \/ LoopOff(id) \/ RefuseRequest(id) \/ RecordAdvisory(id) \/ AwaitHuman(id)
  \/ RecomputeTaskPlan(id) \/ BuildTaskPlan(id) \/ RecomputeUnavailable(id)
  \/ FailWithoutOwner(id) \/ FailProduction(id) \/ Candidate(id)

Loop ==
  \/ LeaveLoop \/ ReturnFromLoop
  \/ \E id \in Ids : Iteration(id)
  \/ StopOnCycle \/ PassCycleCheck \/ FailAcceptance
  \/ CommitOwner \/ RollBackCommit

Next == Planner \/ (\E caller \in Callers : EnterLoop(caller)) \/ Loop

(* The loop is synchronous code: once called it keeps running.             *)
Spec == Init /\ [][Next]_vars /\ WF_vars(Loop)

-----------------------------------------------------------------------------
(* Every variable ranges over its type, and the bounded traces keep their  *)
(* bounds.                                                                 *)
Hashes(S) == [ S -> Contents \cup {NoContent} ]
Requests ==
  { r \in [ reason    : Reasons,
            owners    : Seq(PatchTypes),
            hashes    : UNION { Hashes(S) : S \in SUBSET PatchTypes },
            plan      : TaskPlans \cup {NoTaskPlan},
            input     : UNION { Hashes(S) : S \in SUBSET Required },
            lifecycle : Lifecycles ] :
      r.owners = OwnerPolicy[r.reason].owners /\ DOMAIN r.hashes = Owners(r) }

Stages == { "pending", "reviewing", "accepted", "blocked" }
Candidates == UNION { [S -> Contents] : S \in SUBSET Required }

StateTypeOK ==
  /\ content \in Hashes(Required)
  /\ \A p \in Required : content[p] \in ContentsOf[p] \cup {NoContent}
  /\ DOMAIN basis = Required
  /\ scoped \in BOOLEAN /\ taskPlan \in TaskPlans \cup {NoTaskPlan}
  /\ issues \subseteq Reasons \cup AssemblyIssues
  /\ stage \in [ReviewGates -> Stages]
  /\ DOMAIN acceptedOf = ReviewGates
  /\ acceptedPlan \in [ReviewGates -> TaskPlans \cup {NoTaskPlan}]

RequestTypeOK ==
  /\ requests \in Seq(Requests)
  /\ pending \subseteq Ids

LedgerTypeOK ==
  /\ planTrace \in Seq(TaskPlans) /\ Len(planTrace) <= 6
  /\ llmCalls \in Nat

Calls == [ caller    : Callers \cup ReviewGates \cup {"none"},
           round     : Nat,
           request   : Nat,
           candidate : Candidates,
           outcome   : Outcomes,
           committed : BOOLEAN,
           detached  : BOOLEAN ]

ControlTypeOK ==
  /\ mode \in Modes
  /\ pc \in { "planner", "findings", "select", "check", "accept", "return" }
  /\ loop \in Calls
  /\ pc \in { "check", "accept" } =>
       /\ loop.request \in Ids
       /\ \A p \in DOMAIN loop.candidate : loop.candidate[p] \in ContentsOf[p]

TypeOK == StateTypeOK /\ RequestTypeOK /\ LedgerTypeOK /\ ControlTypeOK

(* The pending list and the lifecycles never disagree: a request that is   *)
(* not terminal can still be selected, and a terminal one can not, through *)
(* every path that sets a lifecycle (and the failed candidate that lets    *)
(* its iteration go on).                                                   *)
PendingIsLive == pending = { id \in Ids : Live(id) }

(* Nothing is registered twice while it is still being worked on.          *)
OneLiveRequest ==
  \A i, j \in Ids : Live(i) /\ Live(j) /\ i # j
                     => Fingerprint(requests[i]) # Fingerprint(requests[j])

(* The attempts on one defect are bounded however often its request is     *)
(* registered again, and each attempt left its candidate in the ledger the *)
(* duplicate check reads.                                                  *)
AttemptsWithinBudget ==
  /\ DOMAIN attempts = DOMAIN candidates
  /\ \A key \in DOMAIN attempts :
       attempts[key] = Len(candidates[key]) /\ attempts[key] <= Budget

(* A valid patch was generated from what its dependencies are now: neither *)
(* a commit nor a recompute leaves a dependent of the old contents valid.  *)
NoStalePatch == \A p \in Valid : basis[p] = BasisNow(p) /\ Dependencies[p] \cap Required \subseteq Valid

(* There is an assembled plan only while it is the plan of the patches.    *)
AssembledIsCurrent == assembled # NoAssembly => assembled = content

(* What a gate has accepted is what is there: no commit replaces or drops  *)
(* a patch behind an acceptance; at most a patch the gate did not wait for *)
(* was added since.                                                        *)
AcceptedGateIsCurrent ==
  \A g \in ReviewGates : stage[g] = "accepted" =>
    /\ GateReady(g)
    /\ \A p \in GateReads[g] \cap Required :
         \/ acceptedOf[g][p] = content[p]
         \/ acceptedOf[g][p] = NoContent /\ p \notin GateNeeds[g]

(* A final acceptance is of the plan as it is assembled, and while its     *)
(* gate need not look again every other gate has accepted that plan and    *)
(* need not either: the assembly and the acceptances fall together.        *)
FinalAcceptance ==
  "assembled_plan" \in ReviewGates /\ stage["assembled_plan"] = "accepted" =>
    /\ assembled = content
    /\ ~Outgrown("assembled_plan") =>
         \A g \in ReviewGates : stage[g] = "accepted" /\ ~Outgrown(g)

(* In controlled mode a patch past the facts stands only beside facts that *)
(* the Facts gate has accepted, whoever replaced or dropped them since: a  *)
(* retry, a recompute or the gate's own revision.                          *)
FactsBarrier ==
  mode = "controlled" /\ "facts" \in ReviewGates /\ Valid \ {"facts"} # {} =>
    /\ "facts" \in Valid /\ stage["facts"] = "accepted"
    /\ acceptedOf["facts"]["facts"] = content["facts"]

(* What executor.py:2539-2541 says of an acceptance of the facts: it is    *)
(* bound to the task plan of the accepted facts, so that no later pass of  *)
(* the planner takes a provisional order.                                  *)
AcceptedFactsArePlanned ==
  "facts" \in ReviewGates /\ stage["facts"] = "accepted" =>
    taskPlan = TaskPlanOf[content["facts"]]

(* A finished request is not worked on again.                              *)
TerminalStaysTerminal ==
  [][ \A id \in Ids : ~Live(id) => requests'[id].lifecycle \in Terminal ]_vars

(* The loop replaces a valid patch only on behalf of a request that was    *)
(* made about those very contents, in whatever order requests are worked   *)
(* and whatever the Facts gate revised in between.                         *)
ReplacesWhatWasReviewed ==
  [][ pc # "planner" =>
        \A p \in Valid : content'[p] \notin { content[p], NoContent } =>
          requests[loop.request].hashes[p] = content[p] ]_vars

(* Every call of the loop returns to its caller.                           *)
LoopReturns == pc = "select" ~> pc = "planner"

=============================================================================
