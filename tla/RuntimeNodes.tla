---------------------------- MODULE RuntimeNodes ----------------------------
(***************************************************************************)
(* The nodes of the plan workflow from the rendered plan on: rendering,    *)
(* the OpenMC tools, the classification of what they report, the repairs   *)
(* of a runtime failure, the runtime supervisor and the final record.      *)
(* What the tools, the repair oracle and the models answer is              *)
(* nondeterministic.                                                       *)
(***************************************************************************)
EXTENDS WorkflowState

Report == report = "valid"

-----------------------------------------------------------------------------
(* render_plan_script cleans the output directory first, whatever follows; *)
(* model_path stays in the state.                                          *)
Cleaned == [files EXCEPT !.script = "none", !.fresh = FALSE]

SkipRender ==
  /\ pc = "render_plan_script" /\ (~HasPlan \/ ~Report \/ plan.kind = "unsupported")
  /\ files' = Cleaned
  /\ UNCHANGED <<plan, report, error, rt>>

(* The renderer is the last authority on what can be run, and the first on *)
(* a committed repair.                                                     *)
WriteScript ==
  /\ pc = "render_plan_script" /\ HasPlan /\ Report /\ plan.kind # "unsupported"
  /\ \E kind \in {plan.kind, "skeleton"} : plan' = [plan EXCEPT !.kind = kind]
  /\ rt' = [rt EXCEPT !.unassessed = FALSE]
  /\ files' = [files EXCEPT !.script = "current", !.path = TRUE, !.fresh = FALSE]
  /\ UNCHANGED <<report, error>>

(* Only the pin-cell renderer reports errors, with the capability it found *)
(* before it rendered.                                                     *)
FailRender ==
  /\ pc = "render_plan_script" /\ HasPlan /\ Report
  /\ plan.kind \in {"runnable", "unconfirmed"}
  /\ report' = "reflect" /\ error' = "other" /\ files' = Cleaned
  /\ rt' = [rt EXCEPT !.unassessed = FALSE]
  /\ UNCHANGED plan

RenderPlanScript ==
  /\ SkipRender \/ WriteScript \/ FailRender
  /\ pc' = "execute_tools"
  /\ UNCHANGED <<config, retry, pending, accepted, pass, build, repairs, hints, expert, sup>>

-----------------------------------------------------------------------------
(* execute_tools                                                           *)

SkipExecution ==
  /\ pc = "execute_tools" /\ (~HasPlan \/ ~files.path)
  /\ UNCHANGED <<report, error, files>>

(* A plan that cannot be run leaves an empty result, which is a valid one. *)
SkipTools ==
  /\ pc = "execute_tools" /\ HasPlan /\ files.path /\ ~CanRender
  /\ report' = "valid" /\ error' = "none"
  /\ files' = [files EXCEPT !.ran = FALSE, !.failure = NoFailure, !.fresh = TRUE]

RunTools(failure) ==
  /\ pc = "execute_tools" /\ CanRender /\ files.path
  /\ files' = [files EXCEPT !.ran = TRUE, !.failure = failure, !.fresh = (files.script = "current")]

PassTools ==
  /\ RunTools(NoFailure) /\ files.script # "none"
  /\ report' = "valid" /\ error' = "none"

(* The pre-flight of the source settings reports without setting an error. *)
FailTools(failure) ==
  /\ RunTools(failure) /\ (files.script = "none" <=> failure = MissingModel)
  /\ report' = Policy[failure].report
  /\ error' = IF Policy[failure].preflight THEN error ELSE "other"

ExecuteTools ==
  /\ SkipExecution \/ SkipTools \/ PassTools \/ \E f \in Failures : FailTools(f)
  /\ UNCHANGED <<config, plan, retry, pending, accepted, pass, build, repairs, hints>>
  /\ UNCHANGED <<expert, sup, rt>>
  /\ pc' = AfterExecution'

-----------------------------------------------------------------------------
(* classify_runtime_feedback: the primary failure of the last results that *)
(* hold one; an earlier one is not cleared.                                *)
ClassifyRuntimeFeedback ==
  /\ pc = "classify_runtime_feedback"
  /\ rt' = IF files.failure = NoFailure THEN rt ELSE [rt EXCEPT !.primary = files.failure]
  /\ UNCHANGED <<config, planVars, expert, sup, files>>
  /\ pc' = AfterClassification'

-----------------------------------------------------------------------------
(* deterministic_runtime_repair                                            *)

Failed == rt.primary # NoFailure
(* Mutant: only the last failure that was repaired counts as tried.        *)
TriedLast == rt.primary = rt.lastCommitted
Tried == rt.primary \in rt.tried
(* The candidate passed the validator and OpenMC on a clone.               *)
Repaired(p) ==
  [ kind |-> IF p.kind = "unconfirmed" THEN "unconfirmed" ELSE "runnable", defects |-> {} ]

(* A failure that was tried before costs an attempt; a declined oracle     *)
(* does not mark its failure as tried; the other refusals do.              *)
RefuseRepair ==
  /\ \/ rt' = [rt EXCEPT !.count = @ + 1]
     \/ /\ ~Tried
        /\ rt' = [rt EXCEPT !.count = @ + 1, !.tried = @ \cup {rt.primary}]
  /\ UNCHANGED <<plan, report, error, build, files>>

(* The commit patches the build state and assembles the plan anew, with an *)
(* empty capability report.                                                *)
CommitRepair ==
  /\ ~Tried /\ build # NoBuild /\ Policy[rt.primary].det
  /\ plan' = Repaired(plan) /\ build' \in Revisions
  /\ report' = "valid" /\ error' = "none"
  /\ rt' = [rt EXCEPT !.count = @ + 1, !.tried = @ \cup {rt.primary}, !.applied = TRUE,
                      !.commits = @ + 1, !.repaired = @ \cup {rt.primary},
                      !.lastCommitted = rt.primary, !.unassessed = TRUE]
  /\ files' = [Outdated(files) EXCEPT !.ran = FALSE, !.failure = NoFailure]

DeterministicRepair ==
  /\ pc = "deterministic_runtime_repair"
  /\ IF Failed /\ rt.count < MaxDeterministic THEN RefuseRepair \/ CommitRepair
     ELSE UNCHANGED <<plan, report, error, build, rt, files>>
  /\ UNCHANGED <<config, retry, pending, accepted, pass, repairs, hints, expert, sup>>
  /\ pc' = AfterRepair'

-----------------------------------------------------------------------------
(* llm_runtime_diagnose and llm_runtime_propose: one of each per run.      *)

Diagnose ==
  /\ pc = "llm_runtime_diagnose"
  /\ IF ~Failed \/ rt.diagnoses >= 1 THEN rt' = rt
     ELSE \E d \in IF Policy[rt.primary].diagnose
                   THEN {rt.diagnosis, "blocked"}
                        \cup (IF Policy[rt.primary].propose THEN {"allowed"} ELSE {})
                   ELSE {rt.diagnosis} :
            rt' = [rt EXCEPT !.diagnoses = @ + 1, !.diagnosis = d]
  /\ UNCHANGED <<config, planVars, expert, sup, files>>
  /\ pc' = AfterDiagnosis'

RejectProposal ==
  /\ rt' = [rt EXCEPT !.proposals = @ + 1]
  /\ UNCHANGED <<plan, build, files>>

(* A commit of a proposal resets nothing else: the report and the results  *)
(* of the failure stay, and the failure is not the last one committed.     *)
CommitProposal ==
  /\ config.llmRepair = "apply_if_safe" /\ build # NoBuild
  /\ plan' = Repaired(plan) /\ build' \in Revisions
  /\ rt' = [rt EXCEPT !.proposals = @ + 1, !.applied = TRUE, !.commits = @ + 1,
                      !.repaired = @ \cup {rt.primary}, !.unassessed = TRUE]
  /\ files' = Outdated(files)

Propose ==
  /\ pc = "llm_runtime_propose" /\ rt.proposals < 1 /\ rt.diagnosis = "allowed"
  /\ RejectProposal \/ CommitProposal
  /\ UNCHANGED <<config, report, error, retry, pending, accepted, pass, repairs, hints, expert, sup>>
  /\ pc' = AfterProposal'

-----------------------------------------------------------------------------
(* runtime_supervisor, with compute_allowed_runtime_supervisor_actions.    *)

Repeats == Failed /\ rt.primary = rt.lastCommitted
Class == IF Failed THEN Policy[rt.primary].class ELSE "none"

FixableChoice ==
  CASE Policy[rt.primary].det /\ rt.count < MaxDeterministic -> {"attempt_deterministic_repair"}
    [] ~(Policy[rt.primary].det /\ rt.count < MaxDeterministic) /\ LlmRepair
       /\ Policy[rt.primary].diagnose /\ rt.diagnoses < MaxDiagnoses -> {"attempt_llm_repair"}
    [] OTHER -> {}

(* Mutant: a transient failure is retried while there are iterations.      *)
TransientAlways == {"retry_same_plan"}
TransientChoice == IF rt.transient < MaxTransient THEN {"retry_same_plan"} ELSE {}

(* In the order of the code: success, no progress, what a person decides,  *)
(* the budget of iterations, repair or retry.                              *)
RuntimeActions ==
  {"stop"} \cup
  CASE Report -> {"finish_success"}
    [] ~Report /\ (rt.noProgress \/ Repeats) -> {}
    [] OTHER ->
         CASE Class \in {"environment", "human_fact"} -> {"request_human_confirmation"}
           [] Class \notin {"environment", "human_fact"} /\ rt.iterations >= MaxIterations -> {}
           [] Class = "plan_fixable" /\ rt.iterations < MaxIterations -> FixableChoice
           [] Class = "transient" /\ rt.iterations < MaxIterations -> TransientChoice
           [] OTHER -> {}

(* Mutant: every decision clears the report of the failure.                *)
ClearsAlways(action) == action # "none"
ClearsReport(action) == action = "retry_same_plan"

SuperviseRuntime ==
  /\ pc = "runtime_supervisor"
  /\ \E a \in RuntimeActions :
       /\ rt' = [rt EXCEPT !.action = a,
                           !.iterations = IF @ < MaxIterations THEN @ + 1 ELSE @,
                           !.transient = IF a = "retry_same_plan" THEN @ + 1 ELSE @,
                           !.noProgress = @ \/ Repeats]
       /\ report' = IF ClearsReport(a) THEN "valid" ELSE report
       /\ error' = IF ClearsReport(a) THEN "none" ELSE error
  /\ UNCHANGED <<config, plan, retry, pending, accepted, pass, build, repairs, hints>>
  /\ UNCHANGED <<expert, sup, files>>
  /\ pc' = AfterRecovery'

-----------------------------------------------------------------------------
SaveRecord ==
  /\ pc = "save_record"
  /\ pc' = "done"
  /\ UNCHANGED <<config, planVars, expert, sup, rt, files>>

RuntimeNext ==
  \/ RenderPlanScript \/ ExecuteTools \/ ClassifyRuntimeFeedback \/ DeterministicRepair
  \/ Diagnose \/ Propose \/ SuperviseRuntime \/ SaveRecord
=============================================================================
