--------------------------- MODULE WorkflowState ---------------------------
(***************************************************************************)
(* The state the plan workflow (graph.py, build_plan_graph) passes between *)
(* its nodes, the values the nodes read from it, and the routers on its    *)
(* edges.  A node is a program counter; a router is an expression of the   *)
(* state, applied primed to the state its node has just written.           *)
(*                                                                         *)
(* A plan is told apart by what its capability report makes of it and by   *)
(* the defects the validator finds; a report by its verdict and, when      *)
(* invalid, by where its issues' route hints point.                        *)
(***************************************************************************)
EXTENDS Integers, FiniteSets

CONSTANTS
  Configs,          \* the configurations of the graph that are in play
  Plans,            \* the plans a generator, a patch or a reflection can return
  Defects,          \* what the plan validator can object to
  OwnedDefects,     \* those an issue-ownership policy maps to a patch type
  Revisions,        \* the digests the patch ids of a build state can carry
  NoBuild,          \* the empty plan build state
  RequiredTypes,    \* patch types of the component tasks
  Failures,         \* fingerprints of the primary failures of an execution
  Policy,           \* failure -> its RuntimeRepairPolicy and route hints
  MissingModel,     \* the export failure of a model.py that is not there
  NoFailure,
  MaxRetries,       \* max_retries of the graph
  MaxExpertRounds,  \* max_expert_rounds
  MaxDecisions,     \* run_supervisor_max_decisions
  MaxSameState,     \* run_supervisor_max_no_progress
  MaxIterations,    \* RuntimeLoopBudget.max_runtime_iterations
  MaxDeterministic, \* RuntimeLoopBudget.max_deterministic_attempts
  MaxDiagnoses,     \* RuntimeLoopBudget.max_llm_diagnoses
  MaxTransient      \* RuntimeLoopBudget.max_transient_retries

(* What the capability report says: renderable; renderable with open       *)
(* confirmations; a review-only skeleton; a skeleton for a structural      *)
(* defect; one auto_repair_lattice_structure can repair; no renderer.      *)
Kinds == { "runnable", "unconfirmed", "skeleton", "structural", "typo", "unsupported" }
PlanValues == [ kind : Kinds, defects : SUBSET Defects ]
NoPlan == [ kind |-> "missing", defects |-> {} ]

ConfigValues == [ planning   : {"monolithic", "incremental"},
                  controlled : BOOLEAN,
                  interactive: BOOLEAN,
                  supervisor : {"off", "advisory", "controlled_route"},
                  fallback   : BOOLEAN,
                  recovery   : BOOLEAN,
                  llmRepair  : {"off", "validate_only", "apply_if_safe"} ]

Classes == { "plan_fixable", "environment", "human_fact", "transient", "unknown" }
InvalidReports == { "reflect", "ask", "block" }
FailurePolicies == [ class : Classes, det : BOOLEAN, diagnose : BOOLEAN,
                     propose : BOOLEAN, preflight : BOOLEAN, report : InvalidReports ]

Nodes == { "generate_plan", "ask_plan_expert", "resume_plan_closed_loop",
           "execute_plan_retry", "validate_plan", "repair_plan_format", "reflect_plan",
           "assess_plan_capability", "run_supervisor", "ask_expert",
           "classify_expert_feedback", "patch_plan", "render_plan_script",
           "execute_tools", "classify_runtime_feedback", "deterministic_runtime_repair",
           "runtime_supervisor", "llm_runtime_diagnose", "llm_runtime_propose",
           "save_record", "done" }

ASSUME PlanAssumption == Plans \subseteq PlanValues /\ Plans # {} /\ OwnedDefects \subseteq Defects
ASSUME ConfigAssumption == Configs \subseteq ConfigValues
ASSUME BuildAssumption == NoBuild \notin Revisions /\ Revisions # {}
(* runtime_repair_policy.py allows a proposal only where there is no       *)
(* deterministic repair.                                                   *)
ASSUME FailureAssumption ==
  /\ NoFailure \notin Failures /\ MissingModel \in Failures
  /\ Policy \in [Failures -> FailurePolicies]
  /\ \A f \in Failures : Policy[f].propose => ~Policy[f].det
ASSUME BoundAssumption ==
  /\ {MaxRetries, MaxExpertRounds, MaxDecisions, MaxSameState} \subseteq Nat
  /\ {MaxIterations, MaxDeterministic, MaxDiagnoses, MaxTransient} \subseteq Nat

VARIABLES
  pc,       \* the node that runs next
  config,   \* the arguments the graph was built with
  plan,     \* simulation_plan
  report,   \* validation_report
  error,    \* error: none, an incremental generation failure, anything else
  retry,    \* retry_count, up to one past MaxRetries
  pending,  \* incremental_regeneration_pending
  accepted, \* incremental_patch_repair_accepted
  pass,     \* how the last incremental pass over the plan ended
  build,    \* the digest in plan_build_state's patch ids
  repairs,  \* validation repairs and regenerations per set of defects
  hints,    \* capability errors, raw outputs, failed patches, patch_error
  expert,   \* the expert loop
  sup,      \* the run supervisor
  rt,       \* runtime repair and recovery
  files     \* model.py, model_path and tool_results

planVars == <<plan, report, error, retry, pending, accepted, pass, build, repairs, hints>>
vars == <<pc, config, planVars, expert, sup, rt, files>>

Passes == { "none", "assembled", "assembled_retries", "failed", "exhausted",
            "blocked", "awaiting", "retries", "stopped" }

NoRepairs == [ attempts |-> [d \in SUBSET Defects |-> 0], regenerated |-> {} ]

HasPlan == plan # NoPlan
Incremental == config.planning = "incremental"
(* renderability is exportable or runnable; a committed repair's plan says *)
(* none until a renderer has looked at it.                                 *)
CanRender == plan.kind \in {"runnable", "unconfirmed"} /\ ~rt.unassessed
(* _capability_self_repair_errors                                          *)
SelfRepairable(p) == p.kind \in {"structural", "typo"}
IsValid(p) == p # NoPlan /\ p.defects = {}

(* Mutant: a retry that is not counted.                                    *)
BumpForgotten(n) == n
(* retry_count + 1; the code only asks whether it has reached MaxRetries.  *)
Bump(n) == IF n > MaxRetries THEN n ELSE n + 1

(* What a new plan makes of the files: they stay, but are no longer its    *)
(* own.                                                                    *)
Outdated(f) == [f EXCEPT !.script = IF @ = "current" THEN "old" ELSE @, !.fresh = FALSE]

Init ==
  /\ pc = "generate_plan"
  /\ config \in Configs
  /\ plan = NoPlan /\ report = "none" /\ error \in {"none", "other"}
  /\ retry = 0 /\ pending = FALSE /\ accepted = FALSE /\ pass = "none" /\ build = NoBuild
  /\ repairs = NoRepairs
  /\ hints = [ capErrors |-> FALSE, rawOut |-> FALSE, patchFailures |-> 0, patchError |-> FALSE ]
  /\ expert = [ rounds |-> 0, action |-> "none", regenerate |-> FALSE,
                abort |-> FALSE, asked |-> FALSE ]
  /\ sup = [ count |-> 0, last |-> <<>>, same |-> 0, override |-> "none", gaveUp |-> FALSE ]
  /\ rt = [ count |-> 0, tried |-> {}, applied |-> FALSE, commits |-> 0, repaired |-> {},
            lastCommitted |-> NoFailure, primary |-> NoFailure, diagnoses |-> 0,
            diagnosis |-> "none", proposals |-> 0, iterations |-> 0, transient |-> 0,
            noProgress |-> FALSE, action |-> "none", unassessed |-> FALSE ]
  /\ files = [ script |-> "none", path |-> FALSE, ran |-> FALSE,
               failure |-> NoFailure, fresh |-> FALSE ]

-----------------------------------------------------------------------------
(* The routers of the planning half.                                       *)

(* _plan_generation_router                                                 *)
AfterGeneration ==
  CASE pass = "stopped"  -> "save_record"
    [] pass = "awaiting" -> "ask_plan_expert"
    [] pass \in {"retries", "assembled_retries"} -> "execute_plan_retry"
    [] OTHER -> "validate_plan"

(* Mutant: the retry that was just counted is taken for one to come.       *)
RetriesLeftAfterNext == retry + 1 < MaxRetries
RetriesLeft == retry < MaxRetries

(* _make_plan_validation_router                                            *)
AfterValidation ==
  CASE accepted -> "validate_plan"
    [] ~accepted /\ report = "valid" /\ HasPlan -> "assess_plan_capability"
    [] OTHER ->
         CASE ~RetriesLeft -> "save_record"
           [] RetriesLeft /\ pending -> "generate_plan"
           [] RetriesLeft /\ ~pending /\ ~Incremental /\ HasPlan -> "reflect_plan"
           [] RetriesLeft /\ ~pending /\ ~Incremental /\ ~HasPlan /\ hints.rawOut ->
                "repair_plan_format"
           [] OTHER -> "save_record"

(* _make_supervisor_aware_router over the capability assessment router     *)
AfterSupervisor ==
  CASE pending -> "generate_plan"
    [] ~pending /\ config.supervisor = "controlled_route" /\ sup.override # "none" -> sup.override
    [] OTHER -> IF report # "valid" /\ hints.capErrors /\ HasPlan /\ ~Incremental
                THEN "reflect_plan" ELSE "ask_expert"

(* _make_plan_capability_router                                            *)
AfterCapability ==
  IF report = "valid" /\ HasPlan /\ plan.kind # "unsupported" /\ ~rt.unassessed
  THEN "render_plan_script" ELSE "save_record"

(* _make_expert_feedback_router                                            *)
AfterExpert ==
  CASE expert.abort -> "save_record"
    [] ~expert.abort /\ expert.action = "classify" -> "classify_expert_feedback"
    [] OTHER -> AfterCapability

(* _make_expert_feedback_action_router                                     *)
AfterFeedback ==
  CASE expert.action = "patch_plan" -> "patch_plan"
    [] expert.action # "patch_plan" /\
       (expert.action = "regenerate_plan" \/ expert.regenerate) -> "generate_plan"
    [] OTHER -> AfterCapability

(* Mutant: a patched plan is taken for a validated one.                    *)
AfterPatchUnchecked ==
  IF expert.action = "regenerate_plan" \/ hints.patchError THEN "generate_plan"
  ELSE AfterCapability
(* _make_plan_patch_router                                                 *)
AfterPatch ==
  IF expert.action = "regenerate_plan" \/ hints.patchError THEN "generate_plan"
  ELSE "validate_plan"

-----------------------------------------------------------------------------
(* The routers of the runtime half.                                        *)

LlmRepair == config.llmRepair # "off"

(* _has_runtime_repairable_failure looks at old tool results, too.         *)
RuntimeRepairable == files.failure # NoFailure /\ Policy[files.failure].det

(* _make_plan_execution_router                                             *)
AfterExecution ==
  CASE config.recovery ->
         IF report = "valid" THEN "runtime_supervisor" ELSE "classify_runtime_feedback"
    [] ~config.recovery /\ report = "valid" -> "save_record"
    [] OTHER ->
         CASE rt.count = 0 /\ ~rt.applied /\ RuntimeRepairable -> "classify_runtime_feedback"
           [] ~(rt.count = 0 /\ ~rt.applied /\ RuntimeRepairable) /\ report = "ask" -> "ask_expert"
           [] ~(rt.count = 0 /\ ~rt.applied /\ RuntimeRepairable) /\ report = "reflect"
              /\ ~Incremental /\ HasPlan /\ retry < MaxRetries -> "reflect_plan"
           [] OTHER -> "save_record"

(* _make_runtime_feedback_router                                           *)
AfterClassification ==
  CASE config.recovery -> "runtime_supervisor"
    [] ~config.recovery /\ rt.primary = NoFailure -> "save_record"
    [] OTHER ->
         CASE Policy[rt.primary].det /\ rt.count = 0 -> "deterministic_runtime_repair"
           [] ~(Policy[rt.primary].det /\ rt.count = 0) /\ LlmRepair
              /\ Policy[rt.primary].diagnose /\ rt.diagnoses = 0 -> "llm_runtime_diagnose"
           [] OTHER -> "save_record"

(* _make_runtime_repair_result_router                                      *)
AfterRepair ==
  CASE rt.applied -> "render_plan_script"
    [] ~rt.applied /\ config.recovery -> "runtime_supervisor"
    [] OTHER -> IF LlmRepair /\ rt.diagnoses = 0 THEN "llm_runtime_diagnose" ELSE "save_record"

(* _make_llm_diagnosis_router, _make_llm_proposal_router                   *)
AfterDiagnosis ==
  IF rt.diagnosis = "allowed" /\ rt.proposals = 0 THEN "llm_runtime_propose" ELSE "save_record"
AfterProposal == IF rt.applied THEN "render_plan_script" ELSE "save_record"

(* _make_runtime_supervisor_router                                         *)
AfterRecovery ==
  CASE rt.action = "attempt_deterministic_repair" -> "deterministic_runtime_repair"
    [] rt.action = "attempt_llm_repair" -> "llm_runtime_diagnose"
    [] rt.action = "retry_same_plan" -> "render_plan_script"
    [] rt.action = "request_human_confirmation" -> "ask_expert"
    [] OTHER -> "save_record"

(* _compute_workflow_outcome                                               *)
Outcome ==
  CASE ~CanRender -> "blocked_review_only"
    [] CanRender /\ files.ran /\ report = "valid" -> "ok"
    [] OTHER -> "fail"
=============================================================================
