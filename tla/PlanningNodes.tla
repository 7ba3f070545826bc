--------------------------- MODULE PlanningNodes ---------------------------
(***************************************************************************)
(* The nodes of the plan workflow up to the rendered plan: generation,     *)
(* validation and its repairs, reflection, capability assessment, the run  *)
(* supervisor and the expert loop.  What a model, a validator or a person  *)
(* answers is nondeterministic.                                            *)
(***************************************************************************)
EXTENDS WorkflowState

frame == <<config, rt, files>>

-----------------------------------------------------------------------------
(* generate_plan                                                           *)

(* An error of an earlier node is left for validate_plan to report.        *)
SkipGeneration ==
  /\ pc = "generate_plan" /\ error # "none"
  /\ UNCHANGED <<config, planVars, expert, sup, rt, files>>
  /\ pc' = AfterGeneration'

GenerateWholePlan ==
  /\ pc = "generate_plan" /\ error = "none" /\ ~Incremental
  /\ plan' \in Plans
  /\ expert' = [expert EXCEPT !.action = "none", !.regenerate = FALSE, !.asked = FALSE]
  /\ rt' = [rt EXCEPT !.unassessed = FALSE]
  /\ files' = Outdated(files)
  /\ hints' = [hints EXCEPT !.rawOut = TRUE]
  /\ UNCHANGED <<config, report, error, retry, pending, accepted, pass, build, repairs, sup>>
  /\ pc' = AfterGeneration'

FailWholePlan ==
  /\ pc = "generate_plan" /\ error = "none" /\ ~Incremental
  /\ plan' = NoPlan /\ error' = "other"
  /\ \E answered \in BOOLEAN : hints' = [hints EXCEPT !.rawOut = @ \/ answered]
  /\ files' = Outdated(files)
  /\ UNCHANGED <<config, report, retry, pending, accepted, pass, build, repairs, expert, sup, rt>>
  /\ pc' = AfterGeneration'

(* The passes of the incremental planner.  Gates, and the requests of the  *)
(* retry loop (RetryController), exist in controlled mode only.            *)
AssemblePatches ==
  /\ pc = "generate_plan" /\ error = "none" /\ Incremental
  /\ plan' \in Plans /\ build' \in Revisions
  /\ pass' \in {"assembled"} \cup (IF config.controlled THEN {"assembled_retries"} ELSE {})
  /\ pending' = FALSE
  /\ expert' = [expert EXCEPT !.regenerate = FALSE, !.asked = FALSE]
  /\ rt' = [rt EXCEPT !.unassessed = FALSE]
  /\ files' = Outdated(files)
  /\ UNCHANGED <<config, report, error, retry, accepted, repairs, hints, sup>>
  /\ pc' = AfterGeneration'

FailPass ==
  /\ pc = "generate_plan" /\ error = "none" /\ Incremental
  /\ plan' = NoPlan /\ build' \in Revisions
  /\ pass' \in {"failed"} \cup (IF config.controlled
                                THEN {"exhausted", "blocked", "awaiting", "retries", "stopped"}
                                ELSE {})
  /\ error' = IF pass' \in {"retries", "stopped"} THEN "none" ELSE "incremental"
  /\ pending' = FALSE
  /\ expert' = [expert EXCEPT !.regenerate = @ /\ pass' # "stopped"]
  /\ files' = Outdated(files)
  /\ UNCHANGED <<config, report, retry, accepted, repairs, hints, sup, rt>>
  /\ pc' = AfterGeneration'

GeneratePlan == SkipGeneration \/ GenerateWholePlan \/ FailWholePlan \/ AssemblePatches \/ FailPass

(* ask_plan_expert: the gate's questions are answered already, or nobody   *)
(* is there to answer, or they are put to a person.                        *)
StopUnanswered ==
  /\ pc = "ask_plan_expert"
  /\ pc' = "save_record"
  /\ UNCHANGED <<planVars, expert, sup, frame>>

AnswerPlanQuestions ==
  /\ pc = "ask_plan_expert" /\ config.interactive
  /\ pc' = "resume_plan_closed_loop"
  /\ UNCHANGED <<planVars, expert, sup, frame>>

(* resume_plan_closed_loop leaves the error of the pass it resumes.        *)
ResumePlan ==
  /\ pc = "resume_plan_closed_loop"
  /\ pc' = "generate_plan"
  /\ UNCHANGED <<planVars, expert, sup, frame>>

(* One round of the retry loop, modelled by RetryController.               *)
ExecutePlanRetry ==
  /\ pc = "execute_plan_retry"
  /\ error' = "none" /\ build' \in Revisions
  /\ pc' = "generate_plan"
  /\ UNCHANGED <<plan, report, retry, pending, accepted, pass, repairs, hints, expert, sup, frame>>

-----------------------------------------------------------------------------
(* validate_plan                                                           *)

AcceptPlan ==
  /\ pc = "validate_plan" /\ IsValid(plan)
  /\ report' = "valid" /\ error' = "none" /\ accepted' = FALSE
  /\ UNCHANGED <<plan, retry, pending, pass, build, repairs, hints, expert, sup, frame>>
  /\ pc' = AfterValidation'

(* A pass that failed below assembly is taken up again, unless a gate or   *)
(* an exhausted patch ended it.                                            *)
Resumable == Incremental /\ ~HasPlan /\ error = "incremental"
             /\ pass \notin {"blocked", "awaiting", "exhausted"}
Repairable == Incremental /\ HasPlan
Owned == plan.defects \cap OwnedDefects # {}

ResumePass ==
  /\ pc = "validate_plan" /\ ~IsValid(plan) /\ retry < MaxRetries /\ Resumable
  /\ report' = "reflect" /\ retry' = Bump(retry) /\ error' = "none" /\ pending' = TRUE
  /\ UNCHANGED <<plan, accepted, pass, build, repairs, hints, expert, sup, frame>>
  /\ pc' = AfterValidation'

(* The repair model is asked at most twice about one set of defects; the   *)
(* deterministic repairs are not counted.                                  *)
Attempted ==
  { repairs } \cup
  ( IF Owned /\ repairs.attempts[plan.defects] < 2
    THEN { [repairs EXCEPT !.attempts[plan.defects] = @ + 1] } ELSE {} )

(* An accepted repair removes defects and adds none.  Others may remain.   *)
AcceptRepair ==
  /\ pc = "validate_plan" /\ ~IsValid(plan) /\ retry < MaxRetries /\ Repairable /\ Owned
  /\ \E left \in SUBSET plan.defects \ {plan.defects} : plan' = [plan EXCEPT !.defects = left]
  /\ repairs' \in Attempted
  /\ report' = "reflect" /\ accepted' = TRUE /\ pending' = FALSE
  /\ expert' = [expert EXCEPT !.asked = FALSE]
  /\ files' = Outdated(files)
  /\ UNCHANGED <<config, error, retry, pass, build, hints, sup, rt>>
  /\ pc' = AfterValidation'

(* No repair was accepted: the owner patch is regenerated, once per set of *)
(* defects, or the whole sequence if no patch owns them.                   *)
ScheduleRegeneration ==
  /\ pc = "validate_plan" /\ ~IsValid(plan) /\ retry < MaxRetries /\ Repairable
  /\ IF Owned
     THEN /\ plan.defects \notin repairs.regenerated
          /\ \E r \in Attempted : repairs' = [r EXCEPT !.regenerated = @ \cup {plan.defects}]
          /\ build' = build
     ELSE repairs' = NoRepairs /\ build' = NoBuild
  /\ plan' = NoPlan /\ report' = "reflect" /\ retry' = Bump(retry) /\ error' = "none"
  /\ pending' = TRUE
  /\ files' = Outdated(files)
  /\ UNCHANGED <<config, accepted, pass, hints, expert, sup, rt>>
  /\ pc' = AfterValidation'

ExhaustRepair ==
  /\ pc = "validate_plan" /\ ~IsValid(plan) /\ retry < MaxRetries /\ Repairable /\ Owned
  /\ plan.defects \in repairs.regenerated
  /\ repairs' \in Attempted /\ report' = "reflect" /\ error' = "other"
  /\ UNCHANGED <<plan, retry, pending, accepted, pass, build, hints, expert, sup, frame>>
  /\ pc' = AfterValidation'

(* _plan_with_validation_failure_capability                                *)
Downgraded(p) == IF p = NoPlan \/ p.kind = "unsupported" THEN p ELSE [p EXCEPT !.kind = "skeleton"]

RejectPlan ==
  /\ pc = "validate_plan" /\ ~IsValid(plan)
  /\ retry < MaxRetries => ~Resumable /\ ~Repairable
  /\ plan' = IF retry >= MaxRetries THEN Downgraded(plan) ELSE plan
  /\ files' = IF retry >= MaxRetries THEN Outdated(files) ELSE files
  /\ report' = "reflect" /\ error' = IF HasPlan THEN "other" ELSE error
  /\ UNCHANGED <<config, retry, pending, accepted, pass, build, repairs, hints, expert, sup, rt>>
  /\ pc' = AfterValidation'

ValidatePlan == \/ AcceptPlan \/ ResumePass \/ AcceptRepair \/ ScheduleRegeneration
                \/ ExhaustRepair \/ RejectPlan

-----------------------------------------------------------------------------
(* repair_plan_format and reflect_plan, both followed by validate_plan.    *)

RepairPlanFormat ==
  /\ pc = "repair_plan_format" /\ retry < MaxRetries
  /\ \/ plan' \in Plans /\ error' = "none" /\ expert' = [expert EXCEPT !.asked = FALSE]
     \/ plan' = NoPlan /\ error' = "other" /\ UNCHANGED expert
  /\ retry' = Bump(retry)
  /\ rt' = [rt EXCEPT !.unassessed = FALSE] /\ files' = Outdated(files)
  /\ pc' = "validate_plan"
  /\ UNCHANGED <<config, report, pending, accepted, pass, build, repairs, hints, sup>>

(* auto_repair_lattice_structure, then a patch of the investigation; each  *)
(* is only tried while fewer than two patches failed to apply.             *)
PatchFailures ==
  LET tries == IF plan.kind = "typo" THEN 2 ELSE 1
  IN { n \in hints.patchFailures .. hints.patchFailures + tries : n <= 2 }

ReflectPlan ==
  /\ pc = "reflect_plan" /\ HasPlan /\ report \in InvalidReports
  /\ retry' = Bump(retry)
  /\ \E n \in PatchFailures :
       \/ /\ n < 2 /\ plan' \in Plans  \* a patch was applied
          /\ error' = "none" /\ UNCHANGED accepted
          /\ hints' = [hints EXCEPT !.patchFailures = n, !.patchError = FALSE]
       \/ /\ plan' \in Plans           \* the model wrote a new plan
          /\ error' = "none" /\ accepted' = FALSE
          /\ hints' = [hints EXCEPT !.patchFailures = n, !.rawOut = TRUE]
       \/ /\ plan' = plan              \* the model failed
          /\ error' = "other" /\ UNCHANGED accepted
          /\ hints' = [hints EXCEPT !.patchFailures = n]
  /\ expert' = [expert EXCEPT !.asked = @ /\ plan' = plan]
  /\ rt' = [rt EXCEPT !.unassessed = @ /\ plan' = plan]
  /\ files' = IF plan' = plan THEN files ELSE Outdated(files)
  /\ pc' = "validate_plan"
  /\ UNCHANGED <<config, report, pending, pass, build, repairs, sup>>

-----------------------------------------------------------------------------
(* assess_plan_capability injects structural defects as validation errors  *)
(* while there are retries, or whenever they have a deterministic repair.  *)
(* Mutant: whatever the retries.                                           *)
InjectsAlways == SelfRepairable(plan)
Injects == SelfRepairable(plan) /\ (retry < MaxRetries \/ plan.kind = "typo")

AssessPlan ==
  /\ pc = "assess_plan_capability"
  /\ hints' = [hints EXCEPT !.capErrors = SelfRepairable(plan)]
  /\ report' = IF Injects THEN "reflect" ELSE report
  /\ IF Injects /\ Incremental
     THEN /\ plan' = NoPlan /\ retry' = Bump(retry) /\ error' = "none" /\ pending' = TRUE
          /\ build' = NoBuild /\ repairs' = NoRepairs /\ files' = Outdated(files)
     ELSE UNCHANGED <<plan, retry, error, pending, build, repairs, files>>
  /\ rt' = [rt EXCEPT !.unassessed = FALSE]
  /\ pc' = "run_supervisor"
  /\ UNCHANGED <<config, accepted, pass, expert, sup>>

-----------------------------------------------------------------------------
(* run_supervisor, with compute_allowed_supervisor_actions.  The statuses  *)
(* of the build state are kept by patch id.                                *)
PatchStatus ==
  IF build = NoBuild THEN <<>>
  ELSE [ id \in { [type |-> t, digest |-> build] : t \in RequiredTypes } |-> "valid" ]
PendingTypes == IF build = NoBuild THEN {} ELSE { t \in RequiredTypes : t \notin DOMAIN PatchStatus }
NeedsHuman == plan.kind = "unconfirmed"

(* Mutant: open confirmations do not block the rendering.                  *)
MayRenderUnconfirmed == report = "valid" /\ CanRender /\ PendingTypes = {}
MayRender == report = "valid" /\ CanRender /\ ~NeedsHuman /\ PendingTypes = {}

AllowedActions ==
  {"stop"}
  \cup { a \in {"continue_to_render"} : MayRender }
  \cup { a \in {"continue_patch_generation"} : Incremental /\ PendingTypes # {} /\ ~NeedsHuman }
  \cup { a \in {"request_human_confirmation"} : NeedsHuman }
  \cup { a \in {"downgrade_to_skeleton"} :
           \/ plan.kind \in {"skeleton", "structural", "typo"}
           \/ plan.kind \in {"unsupported", "missing"} /\ report = "valid" }

(* SUPERVISOR_ROUTE_MAP, with the routes named by their nodes.             *)
RouteOf == [ continue_to_render         |-> "render_plan_script",
             continue_patch_generation  |-> "generate_plan",
             request_human_confirmation |-> "ask_expert",
             downgrade_to_skeleton      |-> "save_record",
             stop                       |-> "save_record",
             none                       |-> "none" ]

(* compute_supervisor_state_fingerprint                                    *)
Fingerprint == <<plan.kind, report, build>>

(* The count of the last decisions made in one and the same state.         *)
Exhausted == \/ sup.count >= MaxDecisions
             \/ sup.last = Fingerprint /\ sup.same >= MaxSameState

(* A decision is one that is allowed: a vetoed proposal is replaced by the *)
(* deterministic choice, or by none if there is no fallback.               *)
SuperviseRun ==
  /\ pc = "run_supervisor"
  /\ IF config.supervisor = "off" THEN sup' = sup
     ELSE IF Exhausted THEN sup' = [sup EXCEPT !.gaveUp = TRUE]
     ELSE \E a \in AllowedActions \cup (IF config.fallback THEN {} ELSE {"none"}) :
            sup' = [ count    |-> sup.count + 1,
                     last     |-> Fingerprint,
                     same     |-> IF sup.last = Fingerprint THEN sup.same + 1 ELSE 1,
                     override |-> IF config.supervisor = "controlled_route"
                                  THEN RouteOf[a] ELSE "none",
                     gaveUp   |-> FALSE ]
  /\ UNCHANGED <<planVars, expert, frame>>
  /\ pc' = AfterSupervisor'

-----------------------------------------------------------------------------
(* ask_expert.  A plan with open confirmations, and issues only a person   *)
(* can resolve, raise questions; an answer may have resolved them before.  *)
Asks ==
  { b \in BOOLEAN :
      /\ ~HasPlan => ~b
      /\ HasPlan /\ plan.kind = "runnable" /\ report # "ask" => ~b
      /\ HasPlan /\ (plan.kind = "unconfirmed" \/ report = "ask") /\ expert.rounds = 0 => b }

SkipExpert ==
  /\ pc = "ask_expert" /\ (FALSE \in Asks \/ expert.rounds >= MaxExpertRounds)
  /\ expert' = [expert EXCEPT !.action = "none", !.regenerate = FALSE, !.asked = TRUE]
  /\ UNCHANGED <<planVars, sup, frame>>
  /\ pc' = AfterExpert'

(* A command or an empty answer continues or ends the run; feedback is     *)
(* classified.                                                             *)
HearExpert ==
  /\ pc = "ask_expert" /\ TRUE \in Asks /\ expert.rounds < MaxExpertRounds
  /\ \/ /\ \E stop \in BOOLEAN :
             expert' = [ rounds |-> expert.rounds + 1, action |-> "continue",
                         regenerate |-> FALSE, abort |-> stop, asked |-> TRUE ]
        /\ UNCHANGED error
     \/ /\ expert' = [expert EXCEPT !.rounds = @ + 1, !.action = "classify",
                                    !.regenerate = FALSE, !.asked = TRUE]
        /\ error' = "none"
  /\ UNCHANGED <<plan, report, retry, pending, accepted, pass, build, repairs, hints, sup, frame>>
  /\ pc' = AfterExpert'

ClassifyFeedback ==
  /\ pc = "classify_expert_feedback"
  /\ \E a \in {"continue", "patch_plan", "regenerate_plan"} :
       expert' = [expert EXCEPT !.action = a, !.regenerate = (a = "regenerate_plan")]
  /\ UNCHANGED <<planVars, sup, frame>>
  /\ pc' = AfterFeedback'

ApplyFeedback ==
  /\ pc = "patch_plan" /\ HasPlan
  /\ plan' \in Plans
  /\ error' = "none" /\ hints' = [hints EXCEPT !.patchError = FALSE]
  /\ expert' = [expert EXCEPT !.action = "none", !.regenerate = FALSE, !.asked = FALSE]
  /\ rt' = [rt EXCEPT !.unassessed = FALSE] /\ files' = Outdated(files)
  /\ UNCHANGED <<config, report, retry, pending, accepted, pass, build, repairs, sup>>
  /\ pc' = AfterPatch'

RefuseFeedback ==
  /\ pc = "patch_plan"
  /\ hints' = [hints EXCEPT !.patchError = TRUE]
  /\ expert' = [expert EXCEPT !.action = "regenerate_plan", !.regenerate = TRUE]
  /\ UNCHANGED <<plan, report, error, retry, pending, accepted, pass, build, repairs, sup, frame>>
  /\ pc' = AfterPatch'

(* The steps that wait for a person, and those that do not.                *)
Human == AnswerPlanQuestions \/ HearExpert
PlanningNext ==
  \/ GeneratePlan \/ StopUnanswered \/ ResumePlan \/ ExecutePlanRetry
  \/ ValidatePlan \/ RepairPlanFormat \/ ReflectPlan
  \/ AssessPlan \/ SuperviseRun
  \/ SkipExpert \/ ClassifyFeedback \/ ApplyFeedback \/ RefuseFeedback
=============================================================================
