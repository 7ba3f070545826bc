----------------------- MODULE PlanWorkflow_proofs -----------------------
(***************************************************************************)
(* The plan workflow, for every configuration, set of plans and failures   *)
(* and every budget: types, what is rendered, how often a failure is       *)
(* repaired, what the retry count is spent on, who was shown the open      *)
(* confirmations and what an outcome of "ok" rests on.                     *)
(***************************************************************************)
EXTENDS PlanWorkflow, FiniteSetTheorems, TLAPS

-----------------------------------------------------------------------------
(* TypeOK in parts, with what the bounds on the supervisor need: a run of  *)
(* decisions in one state is no longer than all decisions, and a route     *)
(* leads to one of four nodes.                                             *)
PlanTypes ==
  /\ plan \in PlanValues \cup {NoPlan}
  /\ report \in {"none", "valid"} \cup InvalidReports
  /\ error \in {"none", "incremental", "other"}
  /\ retry \in 0 .. MaxRetries + 1 /\ pending \in BOOLEAN /\ accepted \in BOOLEAN
  /\ pass \in Passes /\ build \in Revisions \cup {NoBuild}

RepairTypes ==
  repairs \in [attempts : [SUBSET Defects -> 0 .. 2], regenerated : SUBSET SUBSET Defects]

HintTypes ==
  hints \in [capErrors : BOOLEAN, rawOut : BOOLEAN, patchFailures : 0 .. 2, patchError : BOOLEAN]

ExpertTypes ==
  expert \in [rounds : 0 .. MaxExpertRounds,
              action : {"none", "continue", "classify", "patch_plan", "regenerate_plan"},
              regenerate : BOOLEAN, abort : BOOLEAN, asked : BOOLEAN]

Routes == {"none", "render_plan_script", "generate_plan", "ask_expert", "save_record"}
SupTypes ==
  /\ DOMAIN sup = {"count", "last", "same", "override", "gaveUp"}
  /\ sup.count \in 0 .. MaxDecisions /\ sup.same \in 0 .. sup.count
  /\ sup.override \in Routes /\ sup.gaveUp \in BOOLEAN

Decisions == {"none", "stop", "finish_success", "attempt_deterministic_repair",
              "attempt_llm_repair", "retry_same_plan", "request_human_confirmation"}
RtTypes ==
  rt \in [count : 0 .. MaxDeterministic, tried : SUBSET Failures, applied : BOOLEAN,
          commits : Nat, repaired : SUBSET Failures,
          lastCommitted : Failures \cup {NoFailure}, primary : Failures \cup {NoFailure},
          diagnoses : 0 .. 1, diagnosis : {"none", "blocked", "allowed"},
          proposals : 0 .. 1, iterations : 0 .. MaxIterations, transient : 0 .. MaxTransient,
          noProgress : BOOLEAN, action : Decisions, unassessed : BOOLEAN]

FileTypes ==
  files \in [script : {"none", "current", "old"}, path : BOOLEAN, ran : BOOLEAN,
             failure : Failures \cup {NoFailure}, fresh : BOOLEAN]

Types == /\ pc \in Nodes /\ config \in Configs
         /\ PlanTypes /\ RepairTypes /\ HintTypes /\ ExpertTypes
         /\ SupTypes /\ RtTypes /\ FileTypes

LEMMA TypesAreOK == Types => TypeOK
PROOF
<1> SUFFICES ASSUME Types
             PROVE  TypeOK
  OBVIOUS
<1>1. sup.same \in 0 .. MaxDecisions
  BY BoundAssumption DEF Types, SupTypes
<1>2. sup.override \in Nodes \cup {"none"}
  BY DEF Types, SupTypes, Routes, Nodes
<1>3. QED
  BY <1>1, <1>2 DEF Types, TypeOK, PlanTypes, RepairTypes, HintTypes, ExpertTypes, SupTypes,
     RtTypes, Decisions, FileTypes

(* A proposal is only worked on for a failure that allows one, right after *)
(* its diagnosis.                                                          *)
ProposalInv ==
  rt.diagnosis = "allowed" =>
    /\ rt.primary \in Failures
    /\ rt.proposals = 1 \/ (pc = "llm_runtime_propose" /\ Policy[rt.primary].propose)

-----------------------------------------------------------------------------
(* Where a node can lead.                                                  *)
LEMMA PlanningRoutes ==
  /\ AfterGeneration \in {"save_record", "ask_plan_expert", "execute_plan_retry", "validate_plan"}
  /\ AfterValidation \in {"validate_plan", "assess_plan_capability", "generate_plan",
                          "reflect_plan", "repair_plan_format", "save_record"}
  /\ sup.override \in Routes =>
       AfterSupervisor \in {"generate_plan", "render_plan_script", "ask_expert",
                            "save_record", "reflect_plan"}
  /\ AfterCapability \in {"render_plan_script", "save_record"}
  /\ AfterExpert \in {"save_record", "classify_expert_feedback", "render_plan_script"}
  /\ AfterFeedback \in {"patch_plan", "generate_plan", "render_plan_script", "save_record"}
  /\ AfterPatch \in {"generate_plan", "validate_plan"}
PROOF
<1>1. AfterGeneration \in {"save_record", "ask_plan_expert", "execute_plan_retry", "validate_plan"}
  BY DEF AfterGeneration
<1>2. AfterValidation \in {"validate_plan", "assess_plan_capability", "generate_plan",
                           "reflect_plan", "repair_plan_format", "save_record"}
  BY DEF AfterValidation
<1>3. sup.override \in Routes =>
       AfterSupervisor \in {"generate_plan", "render_plan_script", "ask_expert",
                            "save_record", "reflect_plan"}
  BY DEF AfterSupervisor, Routes
<1>4. AfterCapability \in {"render_plan_script", "save_record"}
  BY DEF AfterCapability
<1>5. QED
  BY <1>1, <1>2, <1>3, <1>4 DEF AfterExpert, AfterFeedback, AfterPatch

LEMMA RuntimeRoutes ==
  /\ AfterExecution \in {"runtime_supervisor", "classify_runtime_feedback", "save_record",
                         "ask_expert", "reflect_plan"}
  /\ AfterClassification \in {"runtime_supervisor", "save_record",
                              "deterministic_runtime_repair", "llm_runtime_diagnose"}
  /\ AfterRepair \in {"render_plan_script", "runtime_supervisor", "llm_runtime_diagnose",
                      "save_record"}
  /\ AfterDiagnosis \in {"llm_runtime_propose", "save_record"}
  /\ AfterProposal \in {"render_plan_script", "save_record"}
  /\ AfterRecovery \in {"deterministic_runtime_repair", "llm_runtime_diagnose",
                        "render_plan_script", "ask_expert", "save_record"}
PROOF
<1>1. AfterExecution \in {"runtime_supervisor", "classify_runtime_feedback", "save_record",
                          "ask_expert", "reflect_plan"}
  BY DEF AfterExecution
<1>2. AfterClassification \in {"runtime_supervisor", "save_record",
                               "deterministic_runtime_repair", "llm_runtime_diagnose"}
  BY DEF AfterClassification
<1>3. QED
  BY <1>1, <1>2 DEF AfterRepair, AfterDiagnosis, AfterProposal, AfterRecovery

LEMMA RoutesAreNodes ==
  /\ AfterGeneration \in Nodes /\ AfterValidation \in Nodes /\ AfterCapability \in Nodes
  /\ sup.override \in Routes => AfterSupervisor \in Nodes
  /\ AfterExpert \in Nodes /\ AfterFeedback \in Nodes /\ AfterPatch \in Nodes
  /\ AfterExecution \in Nodes /\ AfterClassification \in Nodes /\ AfterRepair \in Nodes
  /\ AfterDiagnosis \in Nodes /\ AfterProposal \in Nodes /\ AfterRecovery \in Nodes
PROOF
<1>1. Nodes = { "generate_plan", "ask_plan_expert", "resume_plan_closed_loop",
           "execute_plan_retry", "validate_plan", "repair_plan_format", "reflect_plan",
           "assess_plan_capability", "run_supervisor", "ask_expert",
           "classify_expert_feedback", "patch_plan", "render_plan_script",
           "execute_tools", "classify_runtime_feedback", "deterministic_runtime_repair",
           "runtime_supervisor", "llm_runtime_diagnose", "llm_runtime_propose",
           "save_record", "done" }
  BY DEF Nodes
<1>2. QED
  BY <1>1, PlanningRoutes, RuntimeRoutes

LEMMA NextRoutesAreNodes ==
  /\ AfterGeneration' \in Nodes /\ AfterValidation' \in Nodes /\ AfterCapability' \in Nodes
  /\ sup'.override \in Routes => AfterSupervisor' \in Nodes
  /\ AfterExpert' \in Nodes /\ AfterFeedback' \in Nodes /\ AfterPatch' \in Nodes
  /\ AfterExecution' \in Nodes /\ AfterClassification' \in Nodes /\ AfterRepair' \in Nodes
  /\ AfterDiagnosis' \in Nodes /\ AfterProposal' \in Nodes /\ AfterRecovery' \in Nodes
PROOF
<1> DEFINE Routed ==
      /\ AfterGeneration \in Nodes /\ AfterValidation \in Nodes /\ AfterCapability \in Nodes
      /\ sup.override \in Routes => AfterSupervisor \in Nodes
      /\ AfterExpert \in Nodes /\ AfterFeedback \in Nodes /\ AfterPatch \in Nodes
      /\ AfterExecution \in Nodes /\ AfterClassification \in Nodes /\ AfterRepair \in Nodes
      /\ AfterDiagnosis \in Nodes /\ AfterProposal \in Nodes /\ AfterRecovery \in Nodes
<1>1. Routed
  BY RoutesAreNodes
<1>2. Routed'
  BY <1>1, PTL
<1>3. QED
  BY <1>2 DEF Nodes, Routes

-----------------------------------------------------------------------------
(* Types through the nodes that write the plan.                            *)
LEMMA PlansAreValues == \A p \in Plans : p \in PlanValues
PROOF BY PlanAssumption

LEMMA RepairedIsValue == \A p : Repaired(p) \in PlanValues
PROOF BY DEF Repaired, PlanValues, Kinds

LEMMA BumpType == \A n \in 0 .. MaxRetries + 1 : Bump(n) \in 0 .. MaxRetries + 1
PROOF BY BoundAssumption DEF Bump

LEMMA OutdatedType == FileTypes => Outdated(files) \in
  [script : {"none", "current", "old"}, path : BOOLEAN, ran : BOOLEAN,
   failure : Failures \cup {NoFailure}, fresh : BOOLEAN]
PROOF BY DEF FileTypes, Outdated

LEMMA UnchangedTypes ==
  /\ PlanTypes /\ UNCHANGED << plan, report, error, retry, pending, accepted, pass, build >> => PlanTypes'
  /\ RepairTypes /\ UNCHANGED repairs => RepairTypes'
  /\ HintTypes /\ UNCHANGED hints => HintTypes'
  /\ ExpertTypes /\ UNCHANGED expert => ExpertTypes'
  /\ SupTypes /\ UNCHANGED sup => SupTypes'
  /\ RtTypes /\ UNCHANGED rt => RtTypes'
  /\ FileTypes /\ UNCHANGED files => FileTypes'
PROOF BY DEF PlanTypes, RepairTypes, HintTypes, ExpertTypes, SupTypes, RtTypes, FileTypes

LEMMA GenerationTypes ==
  ASSUME Types, GeneratePlan
  PROVE  Types'
PROOF
<1> pc \in Nodes /\ config \in Configs /\ PlanTypes /\ RepairTypes /\ HintTypes /\ ExpertTypes
    /\ SupTypes /\ RtTypes /\ FileTypes
  BY DEF Types
<1>1. pc' \in Nodes
  BY NextRoutesAreNodes DEF GeneratePlan, SkipGeneration, GenerateWholePlan, FailWholePlan,
     AssemblePatches, FailPass
<1>2. CASE SkipGeneration
  BY <1>1, <1>2, UnchangedTypes DEF SkipGeneration, planVars, Types
<1>3. CASE GenerateWholePlan
  <2>1. PlanTypes'
    BY <1>3, PlansAreValues DEF GenerateWholePlan, PlanTypes
  <2>2. HintTypes' /\ ExpertTypes' /\ RtTypes' /\ FileTypes'
    BY <1>3, OutdatedType DEF GenerateWholePlan, HintTypes, ExpertTypes, RtTypes, FileTypes
  <2>3. QED
    BY <1>1, <1>3, <2>1, <2>2, UnchangedTypes DEF GenerateWholePlan, Types
<1>4. CASE FailWholePlan
  <2>1. PlanTypes'
    BY <1>4 DEF FailWholePlan, PlanTypes
  <2>2. HintTypes' /\ FileTypes'
    BY <1>4, OutdatedType DEF FailWholePlan, HintTypes, FileTypes
  <2>3. QED
    BY <1>1, <1>4, <2>1, <2>2, UnchangedTypes DEF FailWholePlan, Types
<1>5. CASE AssemblePatches
  <2>1. PlanTypes'
    BY <1>5, PlansAreValues DEF AssemblePatches, PlanTypes, Passes
  <2>2. ExpertTypes' /\ RtTypes' /\ FileTypes'
    BY <1>5, OutdatedType DEF AssemblePatches, ExpertTypes, RtTypes, FileTypes
  <2>3. QED
    BY <1>1, <1>5, <2>1, <2>2, UnchangedTypes DEF AssemblePatches, Types
<1>6. CASE FailPass
  <2>1. PlanTypes'
    BY <1>6 DEF FailPass, PlanTypes, Passes
  <2>2. ExpertTypes' /\ FileTypes'
    BY <1>6, OutdatedType DEF FailPass, ExpertTypes, FileTypes
  <2>3. QED
    BY <1>1, <1>6, <2>1, <2>2, UnchangedTypes DEF FailPass, Types
<1>7. QED
  BY <1>2, <1>3, <1>4, <1>5, <1>6 DEF GeneratePlan

LEMMA ValidationTypes ==
  ASSUME Types, ValidatePlan
  PROVE  Types'
PROOF
<1> pc \in Nodes /\ config \in Configs /\ PlanTypes /\ RepairTypes /\ HintTypes /\ ExpertTypes
    /\ SupTypes /\ RtTypes /\ FileTypes
  BY DEF Types
<1>1. pc' \in Nodes
  BY NextRoutesAreNodes DEF ValidatePlan, AcceptPlan, ResumePass, AcceptRepair,
     ScheduleRegeneration, ExhaustRepair, RejectPlan
<1>2. CASE AcceptPlan
  <2>1. PlanTypes'
    BY <1>2 DEF AcceptPlan, PlanTypes
  <2>2. QED
    BY <1>1, <1>2, <2>1, UnchangedTypes DEF AcceptPlan, Types, frame
<1>3. CASE ResumePass
  <2>1. PlanTypes'
    BY <1>3, BumpType DEF ResumePass, PlanTypes, InvalidReports
  <2>2. QED
    BY <1>1, <1>3, <2>1, UnchangedTypes DEF ResumePass, Types, frame
<1>4. Repairable => plan \in PlanValues /\ plan.defects \in SUBSET Defects
  BY DEF Repairable, HasPlan, PlanTypes, PlanValues
<1>5. ASSUME Repairable, NEW r \in Attempted
      PROVE  r \in [attempts : [SUBSET Defects -> 0 .. 2], regenerated : SUBSET SUBSET Defects]
  <2>1. CASE r = repairs
    BY <2>1 DEF RepairTypes
  <2>2. CASE repairs.attempts[plan.defects] < 2
             /\ r = [repairs EXCEPT !.attempts[plan.defects] = @ + 1]
    <3> DEFINE tried == [repairs.attempts EXCEPT ![plan.defects] = @ + 1]
    <3>1. tried \in [SUBSET Defects -> 0 .. 2]
      BY <1>4, <1>5, <2>2 DEF RepairTypes
    <3>2. r = [repairs EXCEPT !.attempts = tried]
      BY <2>2 DEF RepairTypes
    <3> HIDE DEF tried
    <3>3. QED
      BY <3>1, <3>2 DEF RepairTypes
  <2>3. QED
    BY <1>5, <2>1, <2>2 DEF Attempted
<1>6. CASE AcceptRepair
  <2>1. PICK left \in SUBSET plan.defects : plan' = [plan EXCEPT !.defects = left]
    BY <1>6 DEF AcceptRepair
  <2>2. plan' \in PlanValues
    BY <1>4, <1>6, <2>1 DEF AcceptRepair, PlanValues
  <2>3. PlanTypes'
    BY <1>6, <2>2 DEF AcceptRepair, PlanTypes, InvalidReports
  <2>4. RepairTypes' /\ ExpertTypes' /\ FileTypes'
    BY <1>5, <1>6, OutdatedType DEF AcceptRepair, RepairTypes, ExpertTypes, FileTypes
  <2>5. QED
    BY <1>1, <1>6, <2>3, <2>4, UnchangedTypes DEF AcceptRepair, Types
<1>7. CASE ScheduleRegeneration
  <2>1. PlanTypes'
    BY <1>7, BumpType DEF ScheduleRegeneration, PlanTypes, InvalidReports
  <2>2. RepairTypes'
    <3>1. CASE Owned
      <4>1. PICK r \in Attempted :
              repairs' = [r EXCEPT !.regenerated = @ \cup {plan.defects}]
        BY <1>7, <3>1 DEF ScheduleRegeneration
      <4>2. r \in [attempts : [SUBSET Defects -> 0 .. 2], regenerated : SUBSET SUBSET Defects]
        BY <1>5, <1>7 DEF ScheduleRegeneration
      <4>3. QED
        BY <1>4, <1>7, <4>1, <4>2 DEF ScheduleRegeneration, RepairTypes
    <3>2. CASE ~Owned
      BY <1>7, <3>2 DEF ScheduleRegeneration, RepairTypes, NoRepairs
    <3>3. QED
      BY <3>1, <3>2
  <2>3. FileTypes'
    BY <1>7, OutdatedType DEF ScheduleRegeneration, FileTypes
  <2>4. QED
    BY <1>1, <1>7, <2>1, <2>2, <2>3, UnchangedTypes DEF ScheduleRegeneration, Types
<1>8. CASE ExhaustRepair
  <2>1. PlanTypes'
    BY <1>8 DEF ExhaustRepair, PlanTypes, InvalidReports
  <2>2. RepairTypes'
    BY <1>5, <1>8 DEF ExhaustRepair, RepairTypes
  <2>3. QED
    BY <1>1, <1>8, <2>1, <2>2, UnchangedTypes DEF ExhaustRepair, Types, frame
<1>9. CASE RejectPlan
  <2>1. Downgraded(plan) \in PlanValues \cup {NoPlan}
    BY DEF Downgraded, PlanTypes, PlanValues, Kinds
  <2>2. PlanTypes'
    BY <1>9, <2>1 DEF RejectPlan, PlanTypes, InvalidReports
  <2>3. FileTypes'
    BY <1>9, OutdatedType DEF RejectPlan, FileTypes
  <2>4. QED
    BY <1>1, <1>9, <2>2, <2>3, UnchangedTypes DEF RejectPlan, Types
<1>10. QED
  BY <1>2, <1>3, <1>6, <1>7, <1>8, <1>9 DEF ValidatePlan

LEMMA RevisionTypes ==
  ASSUME Types, RepairPlanFormat \/ ReflectPlan \/ AssessPlan
  PROVE  Types'
PROOF
<1> pc \in Nodes /\ config \in Configs /\ PlanTypes /\ RepairTypes /\ HintTypes /\ ExpertTypes
    /\ SupTypes /\ RtTypes /\ FileTypes
  BY DEF Types
<1>1. CASE RepairPlanFormat
  <2>1. PlanTypes'
    BY <1>1, PlansAreValues, BumpType DEF RepairPlanFormat, PlanTypes
  <2>2. ExpertTypes'
    BY <1>1 DEF RepairPlanFormat, ExpertTypes
  <2>3. RtTypes' /\ FileTypes'
    BY <1>1, OutdatedType DEF RepairPlanFormat, RtTypes, FileTypes
  <2>4. pc' \in Nodes
    BY <1>1 DEF RepairPlanFormat, Nodes
  <2>5. QED
    BY <1>1, <2>1, <2>2, <2>3, <2>4, UnchangedTypes DEF RepairPlanFormat, Types
<1>2. CASE ReflectPlan
  <2>1. PICK n \in PatchFailures :
          \/ /\ n < 2 /\ plan' \in Plans
             /\ error' = "none" /\ UNCHANGED accepted
             /\ hints' = [hints EXCEPT !.patchFailures = n, !.patchError = FALSE]
          \/ /\ plan' \in Plans
             /\ error' = "none" /\ accepted' = FALSE
             /\ hints' = [hints EXCEPT !.patchFailures = n, !.rawOut = TRUE]
          \/ /\ plan' = plan
             /\ error' = "other" /\ UNCHANGED accepted
             /\ hints' = [hints EXCEPT !.patchFailures = n]
    BY <1>2 DEF ReflectPlan
  <2>2. n \in 0 .. 2
    BY DEF PatchFailures, HintTypes
  <2>3. HintTypes'
    BY <2>1, <2>2 DEF HintTypes
  <2>4. PlanTypes'
    <3>1. plan' \in PlanValues \cup {NoPlan} /\ error' \in {"none", "other"} /\ accepted' \in BOOLEAN
      BY <2>1, PlansAreValues DEF PlanTypes
    <3>2. QED
      BY <1>2, <3>1, BumpType DEF ReflectPlan, PlanTypes
  <2>5. ExpertTypes'
    BY <1>2 DEF ReflectPlan, ExpertTypes
  <2>6. RtTypes'
    BY <1>2 DEF ReflectPlan, RtTypes
  <2>7. FileTypes'
    BY <1>2, OutdatedType DEF ReflectPlan, FileTypes
  <2>8. pc' \in Nodes
    BY <1>2 DEF ReflectPlan, Nodes
  <2>9. QED
    BY <1>2, <2>3, <2>4, <2>5, <2>6, <2>7, <2>8, UnchangedTypes DEF ReflectPlan, Types
<1>3. CASE AssessPlan
  <2>1. PlanTypes'
    BY <1>3, BumpType DEF AssessPlan, PlanTypes, InvalidReports
  <2>2. RepairTypes'
    BY <1>3 DEF AssessPlan, RepairTypes, NoRepairs
  <2>3. HintTypes'
    <3>1. SelfRepairable(plan) \in BOOLEAN
      BY DEF SelfRepairable
    <3>2. hints' = [hints EXCEPT !.capErrors = SelfRepairable(plan)]
      BY <1>3 DEF AssessPlan
    <3>3. QED
      BY <3>1, <3>2 DEF HintTypes
  <2>4. FileTypes'
    BY <1>3, OutdatedType DEF AssessPlan, FileTypes
  <2>5. pc' \in Nodes
    BY <1>3 DEF AssessPlan, Nodes
  <2>6. RtTypes'
    BY <1>3 DEF AssessPlan, RtTypes
  <2>7. QED
    BY <1>3, <2>1, <2>2, <2>3, <2>4, <2>5, <2>6, UnchangedTypes DEF AssessPlan, Types
<1>4. QED
  BY <1>1, <1>2, <1>3

LEMMA RoutesOfActions ==
  \A a \in AllowedActions \cup {"none"} : RouteOf[a] \in Routes
PROOF
<1>1. AllowedActions \subseteq { "stop", "continue_to_render", "continue_patch_generation",
                                 "request_human_confirmation", "downgrade_to_skeleton" }
  BY DEF AllowedActions
<1>2. QED
  BY <1>1 DEF RouteOf, Routes

LEMMA SupervisionTypes ==
  ASSUME Types, SuperviseRun
  PROVE  Types'
PROOF
<1>1. SupTypes'
  <2>1. CASE sup' = sup \/ sup' = [sup EXCEPT !.gaveUp = TRUE]
    BY <2>1 DEF Types, SupTypes
  <2>2. CASE ~(sup' = sup \/ sup' = [sup EXCEPT !.gaveUp = TRUE])
    <3>1. PICK a \in AllowedActions \cup {"none"} :
             sup' = [ count    |-> sup.count + 1,
                      last     |-> Fingerprint,
                      same     |-> IF sup.last = Fingerprint THEN sup.same + 1 ELSE 1,
                      override |-> IF config.supervisor = "controlled_route"
                                   THEN RouteOf[a] ELSE "none",
                      gaveUp   |-> FALSE ]
      BY <2>2 DEF SuperviseRun
    <3>2. ~Exhausted
      BY <2>2 DEF SuperviseRun
    <3>3. sup.count + 1 \in 0 .. MaxDecisions
      BY <3>2, BoundAssumption DEF Exhausted, Types, SupTypes
    <3>4. sup'.override \in Routes
      BY <3>1, RoutesOfActions DEF Routes
    <3>5. sup'.same \in 0 .. sup'.count /\ sup'.count = sup.count + 1 /\ sup'.gaveUp \in BOOLEAN
          /\ DOMAIN sup' = {"count", "last", "same", "override", "gaveUp"}
      BY <3>1 DEF Types, SupTypes
    <3>6. QED
      BY <3>3, <3>4, <3>5 DEF SupTypes
  <2>3. QED
    BY <2>1, <2>2
<1>2. pc' \in Nodes
  BY <1>1, NextRoutesAreNodes DEF SuperviseRun, SupTypes
<1>3. QED
  BY <1>1, <1>2, UnchangedTypes DEF SuperviseRun, Types, planVars, frame

LEMMA ExpertNodeTypes ==
  ASSUME Types, \/ StopUnanswered \/ AnswerPlanQuestions \/ ResumePlan \/ ExecutePlanRetry
                \/ SkipExpert \/ HearExpert \/ ClassifyFeedback \/ ApplyFeedback \/ RefuseFeedback
  PROVE  Types'
PROOF
<1> pc \in Nodes /\ config \in Configs /\ PlanTypes /\ RepairTypes /\ HintTypes /\ ExpertTypes
    /\ SupTypes /\ RtTypes /\ FileTypes
  BY DEF Types
<1>1. pc' \in Nodes
  BY NextRoutesAreNodes DEF StopUnanswered, AnswerPlanQuestions, ResumePlan, ExecutePlanRetry,
     SkipExpert, HearExpert, ClassifyFeedback, ApplyFeedback, RefuseFeedback, Nodes
<1>2. CASE StopUnanswered \/ AnswerPlanQuestions \/ ResumePlan
  BY <1>1, <1>2, UnchangedTypes DEF StopUnanswered, AnswerPlanQuestions, ResumePlan, planVars,
     frame, Types
<1>3. CASE ExecutePlanRetry
  <2>1. PlanTypes'
    BY <1>3 DEF ExecutePlanRetry, PlanTypes
  <2>2. QED
    BY <1>1, <1>3, <2>1, UnchangedTypes DEF ExecutePlanRetry, frame, Types
<1>4. CASE SkipExpert \/ ClassifyFeedback
  <2>1. ExpertTypes'
    BY <1>4 DEF SkipExpert, ClassifyFeedback, ExpertTypes
  <2>2. QED
    BY <1>1, <1>4, <2>1, UnchangedTypes DEF SkipExpert, ClassifyFeedback, planVars, frame, Types
<1>5. CASE HearExpert
  <2>1. expert.rounds + 1 \in 0 .. MaxExpertRounds
    BY <1>5, BoundAssumption DEF HearExpert, ExpertTypes
  <2>2. ExpertTypes'
    <3>1. \/ \E stop \in BOOLEAN :
               expert' = [ rounds |-> expert.rounds + 1, action |-> "continue",
                           regenerate |-> FALSE, abort |-> stop, asked |-> TRUE ]
          \/ expert' = [expert EXCEPT !.rounds = expert.rounds + 1, !.action = "classify",
                                      !.regenerate = FALSE, !.asked = TRUE]
      BY <1>5 DEF HearExpert
    <3>2. ASSUME NEW stop \in BOOLEAN,
                 expert' = [ rounds |-> expert.rounds + 1, action |-> "continue",
                             regenerate |-> FALSE, abort |-> stop, asked |-> TRUE ]
          PROVE  ExpertTypes'
      BY <2>1, <3>2 DEF ExpertTypes
    <3>3. CASE expert' = [expert EXCEPT !.rounds = expert.rounds + 1, !.action = "classify",
                                      !.regenerate = FALSE, !.asked = TRUE]
      BY <2>1, <3>3 DEF ExpertTypes
    <3>4. QED
      BY <3>1, <3>2, <3>3
  <2>3. PlanTypes'
    BY <1>5 DEF HearExpert, PlanTypes
  <2>4. QED
    BY <1>1, <1>5, <2>2, <2>3, UnchangedTypes DEF HearExpert, frame, Types
<1>6. CASE ApplyFeedback
  <2>1. PlanTypes'
    BY <1>6, PlansAreValues DEF ApplyFeedback, PlanTypes
  <2>2. HintTypes' /\ ExpertTypes' /\ RtTypes' /\ FileTypes'
    BY <1>6, OutdatedType DEF ApplyFeedback, HintTypes, ExpertTypes, RtTypes, FileTypes
  <2>3. QED
    BY <1>1, <1>6, <2>1, <2>2, UnchangedTypes DEF ApplyFeedback, Types
<1>7. CASE RefuseFeedback
  <2>1. HintTypes' /\ ExpertTypes'
    BY <1>7 DEF RefuseFeedback, HintTypes, ExpertTypes
  <2>2. QED
    BY <1>1, <1>7, <2>1, UnchangedTypes DEF RefuseFeedback, frame, Types
<1>8. QED
  BY <1>2, <1>3, <1>4, <1>5, <1>6, <1>7

-----------------------------------------------------------------------------
(* Types through the runtime nodes.                                        *)
LEMMA RenderingTypes ==
  ASSUME Types, RenderPlanScript \/ ExecuteTools
  PROVE  Types'
PROOF
<1> pc \in Nodes /\ config \in Configs /\ PlanTypes /\ RepairTypes /\ HintTypes /\ ExpertTypes
    /\ SupTypes /\ RtTypes /\ FileTypes
  BY DEF Types
<1>1. CASE RenderPlanScript
  <2>1. FileTypes'
    BY <1>1 DEF RenderPlanScript, SkipRender, WriteScript, FailRender, Cleaned, FileTypes
  <2>2. plan' \in PlanValues \cup {NoPlan}
    <3>1. CASE WriteScript
      BY <3>1 DEF WriteScript, HasPlan, PlanTypes, PlanValues, Kinds
    <3>2. QED
      BY <1>1, <3>1 DEF RenderPlanScript, SkipRender, FailRender, PlanTypes
  <2>3. PlanTypes'
    BY <1>1, <2>2 DEF RenderPlanScript, SkipRender, WriteScript, FailRender, PlanTypes,
       InvalidReports
  <2>4. pc' \in Nodes
    BY <1>1 DEF RenderPlanScript, Nodes
  <2>5. RtTypes'
    BY <1>1 DEF RenderPlanScript, SkipRender, WriteScript, FailRender, RtTypes
  <2>6. QED
    BY <1>1, <2>1, <2>3, <2>4, <2>5, UnchangedTypes DEF RenderPlanScript, Types
<1>2. CASE ExecuteTools
  <2>1. /\ report' \in {"none", "valid"} \cup InvalidReports
        /\ error' \in {"none", "incremental", "other"}
    <3>1. ASSUME NEW f \in Failures, FailTools(f)
          PROVE  report' \in InvalidReports /\ error' \in {error, "other"}
      <4>1. Policy[f] \in FailurePolicies
        BY FailureAssumption
      <4>2. QED
        BY <3>1, <4>1 DEF FailTools, FailurePolicies
    <3>2. QED
      BY <1>2, <3>1 DEF ExecuteTools, SkipExecution, SkipTools, PassTools, PlanTypes
  <2>2. PlanTypes'
    BY <1>2, <2>1 DEF ExecuteTools, PlanTypes
  <2>3. FileTypes'
    BY <1>2 DEF ExecuteTools, SkipExecution, SkipTools, PassTools, FailTools, RunTools, FileTypes
  <2>4. pc' \in Nodes
    BY <1>2, NextRoutesAreNodes DEF ExecuteTools
  <2>5. QED
    BY <1>2, <2>2, <2>3, <2>4, UnchangedTypes DEF ExecuteTools, Types
<1>3. QED
  BY <1>1, <1>2

LEMMA RecoveryTypes ==
  ASSUME Types, ProposalInv,
         \/ ClassifyRuntimeFeedback \/ DeterministicRepair \/ Diagnose \/ Propose
         \/ SuperviseRuntime \/ SaveRecord
  PROVE  Types'
PROOF
<1> pc \in Nodes /\ config \in Configs /\ PlanTypes /\ RepairTypes /\ HintTypes /\ ExpertTypes
    /\ SupTypes /\ RtTypes /\ FileTypes
  BY DEF Types
<1>1. pc' \in Nodes
  BY NextRoutesAreNodes DEF ClassifyRuntimeFeedback, DeterministicRepair, Diagnose, Propose,
     SuperviseRuntime, SaveRecord, Nodes
<1>2. CASE ClassifyRuntimeFeedback
  <2>1. RtTypes'
    BY <1>2 DEF ClassifyRuntimeFeedback, RtTypes, FileTypes
  <2>2. QED
    BY <1>1, <1>2, <2>1, UnchangedTypes DEF ClassifyRuntimeFeedback, planVars, Types
<1>3. CASE DeterministicRepair
  <2>1. Failed => rt.primary \in Failures
    BY DEF Failed, RtTypes
  <2>2. CASE UNCHANGED <<plan, report, error, build, rt, files>>
    BY <1>1, <1>3, <2>2, UnchangedTypes DEF DeterministicRepair, Types
  <2>3. CASE Failed /\ rt.count < MaxDeterministic /\ RefuseRepair
    <3>1. rt.count + 1 \in 0 .. MaxDeterministic
      BY <2>3, BoundAssumption DEF RtTypes
    <3>2. RtTypes'
      <4>1. \/ rt' = [rt EXCEPT !.count = rt.count + 1]
            \/ rt' = [rt EXCEPT !.count = rt.count + 1, !.tried = rt.tried \cup {rt.primary}]
        BY <2>3 DEF RefuseRepair
      <4>2. rt.tried \cup {rt.primary} \in SUBSET Failures
        BY <2>1, <2>3 DEF RtTypes
      <4>3. QED
        BY <3>1, <4>1, <4>2 DEF RtTypes
    <3>3. QED
      BY <1>1, <1>3, <2>3, <3>2, UnchangedTypes DEF DeterministicRepair, RefuseRepair, Types
  <2>4. CASE Failed /\ rt.count < MaxDeterministic /\ CommitRepair
    <3>1. rt.count + 1 \in 0 .. MaxDeterministic /\ rt.commits + 1 \in Nat
      BY <2>4, BoundAssumption DEF RtTypes
    <3>2. RtTypes'
      BY <2>1, <2>4, <3>1 DEF CommitRepair, RtTypes
    <3>3. PlanTypes'
      BY <1>3, <2>4, RepairedIsValue DEF CommitRepair, DeterministicRepair, PlanTypes
    <3>4. FileTypes'
      BY <2>4 DEF CommitRepair, FileTypes, Outdated
    <3>5. QED
      BY <1>1, <1>3, <3>2, <3>3, <3>4, UnchangedTypes DEF DeterministicRepair, Types
  <2>5. QED
    BY <1>3, <2>2, <2>3, <2>4 DEF DeterministicRepair
<1>4. CASE Diagnose
  <2>1. RtTypes'
    <3>1. CASE ~Failed \/ rt.diagnoses >= 1
      BY <1>4, <3>1 DEF Diagnose, RtTypes
    <3>2. CASE Failed /\ ~(rt.diagnoses >= 1)
      <4>1. PICK d \in {rt.diagnosis, "blocked", "allowed"} :
              rt' = [rt EXCEPT !.diagnoses = rt.diagnoses + 1, !.diagnosis = d]
        <5> DEFINE answers == IF Policy[rt.primary].diagnose
                              THEN {rt.diagnosis, "blocked"}
                                   \cup (IF Policy[rt.primary].propose THEN {"allowed"} ELSE {})
                              ELSE {rt.diagnosis}
        <5>1. PICK d \in answers :
                rt' = [rt EXCEPT !.diagnoses = rt.diagnoses + 1, !.diagnosis = d]
          BY <1>4, <3>2 DEF Diagnose
        <5>2. answers \subseteq {rt.diagnosis, "blocked", "allowed"}
          OBVIOUS
        <5> HIDE DEF answers
        <5>3. QED
          BY <5>1, <5>2
      <4>2. rt.diagnoses + 1 \in 0 .. 1 /\ d \in {"none", "blocked", "allowed"}
        BY <3>2, <4>1 DEF RtTypes
      <4>3. QED
        BY <4>1, <4>2 DEF RtTypes
    <3>3. QED
      BY <3>1, <3>2
  <2>2. QED
    BY <1>1, <1>4, <2>1, UnchangedTypes DEF Diagnose, planVars, Types
<1>5. CASE Propose
  <2>1. rt.primary \in Failures
    BY <1>5 DEF Propose, ProposalInv
  <2>2. CASE RejectProposal
    <3>1. RtTypes'
      BY <1>5, <2>2 DEF Propose, RejectProposal, RtTypes
    <3>2. QED
      BY <1>1, <1>5, <2>2, <3>1, UnchangedTypes DEF Propose, RejectProposal, Types
  <2>3. CASE CommitProposal
    <3>1. RtTypes'
      <4>1. rt' = [rt EXCEPT !.proposals = rt.proposals + 1, !.applied = TRUE,
                             !.commits = rt.commits + 1,
                             !.repaired = rt.repaired \cup {rt.primary}, !.unassessed = TRUE]
        BY <2>3 DEF CommitProposal
      <4>2. /\ rt.proposals + 1 \in 0 .. 1 /\ rt.commits + 1 \in Nat
            /\ rt.repaired \cup {rt.primary} \in SUBSET Failures
        BY <1>5, <2>1 DEF Propose, RtTypes
      <4>3. QED
        BY <4>1, <4>2 DEF RtTypes
    <3>2. PlanTypes' /\ FileTypes'
      BY <1>5, <2>3, RepairedIsValue, OutdatedType
         DEF Propose, CommitProposal, PlanTypes, FileTypes
    <3>3. QED
      BY <1>1, <1>5, <3>1, <3>2, UnchangedTypes DEF Propose, Types
  <2>4. QED
    BY <1>5, <2>2, <2>3 DEF Propose
<1>6. CASE SuperviseRuntime
  <2>1. PICK a \in RuntimeActions :
          /\ rt' = [rt EXCEPT !.action = a,
                              !.iterations = IF @ < MaxIterations THEN @ + 1 ELSE @,
                              !.transient = IF a = "retry_same_plan" THEN @ + 1 ELSE @,
                              !.noProgress = @ \/ Repeats]
          /\ report' = IF ClearsReport(a) THEN "valid" ELSE report
          /\ error' = IF ClearsReport(a) THEN "none" ELSE error
    BY <1>6 DEF SuperviseRuntime
  <2>2. a \in Decisions /\ (a = "retry_same_plan" => rt.transient < MaxTransient)
    BY DEF RuntimeActions, FixableChoice, TransientChoice, Decisions
  <2>3. RtTypes'
    <3> DEFINE iterations == IF rt.iterations < MaxIterations THEN rt.iterations + 1 ELSE rt.iterations
               transient == IF a = "retry_same_plan" THEN rt.transient + 1 ELSE rt.transient
               stuck == rt.noProgress \/ Repeats
    <3>1. iterations \in 0 .. MaxIterations /\ transient \in 0 .. MaxTransient
      BY <2>2, BoundAssumption DEF RtTypes
    <3>2. stuck \in BOOLEAN
      BY DEF RtTypes, Repeats
    <3>3. rt' = [rt EXCEPT !.action = a, !.iterations = iterations,
                           !.transient = transient, !.noProgress = stuck]
      BY <2>1
    <3> HIDE DEF iterations, transient, stuck
    <3>4. QED
      BY <2>2, <3>1, <3>2, <3>3 DEF RtTypes
  <2>4. PlanTypes'
    BY <1>6, <2>1 DEF SuperviseRuntime, PlanTypes
  <2>5. QED
    BY <1>1, <1>6, <2>3, <2>4, UnchangedTypes DEF SuperviseRuntime, Types
<1>7. CASE SaveRecord
  BY <1>1, <1>7, UnchangedTypes DEF SaveRecord, planVars, Types
<1>8. QED
  BY <1>2, <1>3, <1>4, <1>5, <1>6, <1>7

-----------------------------------------------------------------------------
(* One commit per failure.                                                 *)

(* The nodes that leave the history of the repairs alone.                  *)
Bystanders == \/ PlanningNext \/ Human \/ RenderPlanScript \/ ExecuteTools
              \/ SuperviseRuntime \/ SaveRecord
HistoryKept == /\ rt'.tried = rt.tried /\ rt'.commits = rt.commits /\ rt'.repaired = rt.repaired
               /\ rt'.primary = rt.primary /\ rt'.diagnosis = rt.diagnosis
               /\ rt'.proposals = rt.proposals

LEMMA HistoryOf ==
  ASSUME Types, Bystanders
  PROVE  HistoryKept /\ pc # "llm_runtime_propose"
PROOF
<1>1. \/ rt' = rt
      \/ \E own : rt' = [rt EXCEPT !.unassessed = own]
      \/ \E a, i, t, n : rt' = [rt EXCEPT !.action = a, !.iterations = i, !.transient = t,
                                          !.noProgress = n]
  <2>1. CASE GeneratePlan
    BY <2>1 DEF GeneratePlan, SkipGeneration, GenerateWholePlan, FailWholePlan,
       AssemblePatches, FailPass
  <2>2. CASE ValidatePlan
    BY <2>2 DEF ValidatePlan, AcceptPlan, ResumePass, AcceptRepair, ScheduleRegeneration,
       ExhaustRepair, RejectPlan, frame
  <2>3. CASE RepairPlanFormat \/ ReflectPlan \/ AssessPlan \/ SuperviseRun
    BY <2>3 DEF RepairPlanFormat, ReflectPlan, AssessPlan, SuperviseRun, frame
  <2>4. CASE StopUnanswered \/ ResumePlan \/ ExecutePlanRetry \/ Human
    BY <2>4 DEF StopUnanswered, ResumePlan, ExecutePlanRetry, Human, AnswerPlanQuestions,
       HearExpert, frame
  <2>5. CASE SkipExpert \/ ClassifyFeedback \/ ApplyFeedback \/ RefuseFeedback
    BY <2>5 DEF SkipExpert, ClassifyFeedback, ApplyFeedback, RefuseFeedback, frame
  <2>6. CASE RenderPlanScript \/ ExecuteTools \/ SaveRecord
    BY <2>6 DEF RenderPlanScript, SkipRender, WriteScript, FailRender, ExecuteTools, SaveRecord
  <2>7. CASE SuperviseRuntime
    <3> DEFINE i == IF rt.iterations < MaxIterations THEN rt.iterations + 1 ELSE rt.iterations
               n == rt.noProgress \/ Repeats
    <3>1. PICK a : rt' = [rt EXCEPT !.action = a, !.iterations = i,
                            !.transient = IF a = "retry_same_plan" THEN @ + 1 ELSE @,
                            !.noProgress = n]
      BY <2>7 DEF SuperviseRuntime
    <3> DEFINE t == IF a = "retry_same_plan" THEN rt.transient + 1 ELSE rt.transient
    <3>2. rt' = [rt EXCEPT !.action = a, !.iterations = i, !.transient = t, !.noProgress = n]
      BY <3>1
    <3> HIDE DEF i, n, t
    <3>3. QED
      BY <3>2
  <2>8. QED
    BY <2>1, <2>2, <2>3, <2>4, <2>5, <2>6, <2>7 DEF Bystanders, PlanningNext
<1>2. HistoryKept
  <2>1. CASE rt' = rt
    BY <2>1 DEF HistoryKept
  <2>2. ASSUME NEW own, rt' = [rt EXCEPT !.unassessed = own]
        PROVE  HistoryKept
    BY <2>2 DEF HistoryKept, Types, RtTypes
  <2>3. ASSUME NEW a, NEW i, NEW t, NEW n,
               rt' = [rt EXCEPT !.action = a, !.iterations = i, !.transient = t, !.noProgress = n]
        PROVE  HistoryKept
    BY <2>3 DEF HistoryKept, Types, RtTypes
  <2>4. QED
    BY <1>1, <2>1, <2>2, <2>3
<1>3. pc # "llm_runtime_propose"
  <2>1. ~PlanningNext \/ pc # "llm_runtime_propose"
    BY DEF PlanningNext, GeneratePlan, SkipGeneration, GenerateWholePlan, FailWholePlan,
       AssemblePatches, FailPass, StopUnanswered, ResumePlan, ExecutePlanRetry, ValidatePlan,
       AcceptPlan, ResumePass, AcceptRepair, ScheduleRegeneration, ExhaustRepair, RejectPlan,
       RepairPlanFormat, ReflectPlan, AssessPlan, SuperviseRun, SkipExpert, ClassifyFeedback,
       ApplyFeedback, RefuseFeedback
  <2>2. QED
    BY <2>1 DEF Bystanders, Human, AnswerPlanQuestions, HearExpert, RenderPlanScript, SkipRender,
       WriteScript, FailRender, ExecuteTools, SkipExecution, SkipTools, PassTools, FailTools,
       RunTools, SuperviseRuntime, SaveRecord
<1>4. QED
  BY <1>2, <1>3

(* A failure repaired deterministically is marked as tried; the one that   *)
(* was repaired by a proposal allows no deterministic repair.              *)
RepairedInv ==
  /\ IsFiniteSet(rt.repaired) /\ rt.commits = Cardinality(rt.repaired)
  /\ \A f \in rt.repaired :
       \/ Policy[f].det /\ f \in rt.tried
       \/ Policy[f].propose /\ rt.proposals = 1

LEMMA Proposable == \A f \in Failures : Policy[f].propose => ~Policy[f].det
PROOF BY FailureAssumption

LEMMA AnotherRepaired ==
  ASSUME Types, RepairedInv, NEW f \in Failures, f \notin rt.repaired
  PROVE  IsFiniteSet(rt.repaired \cup {f})
         /\ Cardinality(rt.repaired \cup {f}) = rt.commits + 1
PROOF
<1>1. IsFiniteSet(rt.repaired) /\ rt.commits = Cardinality(rt.repaired)
  BY DEF RepairedInv
<1>2. QED
  BY <1>1, FS_AddElement

LEMMA RepairStep ==
  ASSUME Types, ProposalInv, RepairedInv, [Next]_vars
  PROVE  ProposalInv' /\ RepairedInv'
PROOF
<1>1. CASE UNCHANGED vars
  BY <1>1 DEF vars, ProposalInv, RepairedInv
<1>2. CASE Bystanders
  BY <1>2, HistoryOf DEF HistoryKept, ProposalInv, RepairedInv
<1>3. CASE ClassifyRuntimeFeedback
  <2>1. /\ pc # "llm_runtime_propose"
        /\ \/ rt' = rt
           \/ files.failure \in Failures /\ rt' = [rt EXCEPT !.primary = files.failure]
    BY <1>3 DEF ClassifyRuntimeFeedback, Types, FileTypes
  <2>2. /\ rt'.tried = rt.tried /\ rt'.commits = rt.commits /\ rt'.repaired = rt.repaired
        /\ rt'.diagnosis = rt.diagnosis /\ rt'.proposals = rt.proposals
        /\ rt'.primary \in Failures \cup {rt.primary}
    BY <2>1 DEF Types, RtTypes
  <2>3. QED
    BY <2>1, <2>2 DEF ProposalInv, RepairedInv
<1>4. CASE DeterministicRepair
  <2>1. pc # "llm_runtime_propose"
    BY <1>4 DEF DeterministicRepair
  <2>2. CASE rt' = rt
    BY <2>1, <2>2 DEF ProposalInv, RepairedInv
  <2>3. CASE RefuseRepair
    <3>1. /\ rt'.commits = rt.commits /\ rt'.repaired = rt.repaired /\ rt.tried \subseteq rt'.tried
          /\ rt'.diagnosis = rt.diagnosis /\ rt'.proposals = rt.proposals
          /\ rt'.primary = rt.primary
      <4>1. \/ rt' = [rt EXCEPT !.count = rt.count + 1]
            \/ rt' = [rt EXCEPT !.count = rt.count + 1, !.tried = rt.tried \cup {rt.primary}]
        BY <2>3 DEF RefuseRepair
      <4>2. CASE rt' = [rt EXCEPT !.count = rt.count + 1]
        BY <4>2 DEF Types, RtTypes
      <4>3. CASE rt' = [rt EXCEPT !.count = rt.count + 1, !.tried = rt.tried \cup {rt.primary}]
        BY <4>3 DEF Types, RtTypes
      <4>4. QED
        BY <4>1, <4>2, <4>3
    <3>2. QED
      BY <2>1, <3>1 DEF ProposalInv, RepairedInv
  <2>4. CASE Failed /\ CommitRepair
    <3> DEFINE f == rt.primary
    <3>1. /\ f \in Failures /\ Policy[f].det /\ f \notin rt.tried
      BY <2>4 DEF CommitRepair, Failed, Tried, Types, RtTypes
    <3>2. /\ rt'.commits = rt.commits + 1 /\ rt'.repaired = rt.repaired \cup {f}
          /\ rt'.tried = rt.tried \cup {f}
          /\ rt'.diagnosis = rt.diagnosis /\ rt'.proposals = rt.proposals
          /\ rt'.primary = rt.primary
      BY <2>4 DEF CommitRepair, Types, RtTypes
    <3>3. f \notin rt.repaired
      BY <3>1, Proposable DEF RepairedInv
    <3>4. IsFiniteSet(rt'.repaired) /\ rt'.commits = Cardinality(rt'.repaired)
      BY <3>1, <3>2, <3>3, AnotherRepaired
    <3>5. QED
      BY <2>1, <3>1, <3>2, <3>4 DEF ProposalInv, RepairedInv
  <2>5. QED
    BY <1>4, <2>2, <2>3, <2>4 DEF DeterministicRepair
<1>5. CASE Diagnose
  <2>1. pc = "llm_runtime_diagnose" /\ pc' = AfterDiagnosis'
    BY <1>5 DEF Diagnose
  <2>2. \/ rt' = rt
        \/ \E d : /\ rt' = [rt EXCEPT !.diagnoses = @ + 1, !.diagnosis = d]
                  /\ d = "allowed" => \/ rt.diagnosis = "allowed"
                                      \/ Failed /\ Policy[rt.primary].propose
    BY <1>5 DEF Diagnose
  <2>3. /\ rt'.tried = rt.tried /\ rt'.commits = rt.commits /\ rt'.repaired = rt.repaired
        /\ rt'.primary = rt.primary /\ rt'.proposals = rt.proposals
        /\ rt'.diagnosis = "allowed" => \/ rt.diagnosis = "allowed"
                                        \/ Failed /\ Policy[rt.primary].propose
    BY <2>2 DEF Types, RtTypes
  <2>4. RepairedInv'
    BY <2>3 DEF RepairedInv
  <2>5. ProposalInv'
    <3>1. CASE rt'.diagnosis # "allowed" \/ rt.diagnosis = "allowed"
      BY <2>1, <2>3, <3>1 DEF ProposalInv
    <3>2. CASE rt'.diagnosis = "allowed" /\ Failed /\ Policy[rt.primary].propose
      <4>1. rt.primary \in Failures /\ rt.proposals \in {0, 1}
        BY <3>2 DEF Failed, Types, RtTypes
      <4>2. rt'.proposals = 0 => pc' = "llm_runtime_propose"
        BY <2>1, <3>2 DEF AfterDiagnosis
      <4>3. QED
        BY <2>3, <3>2, <4>1, <4>2 DEF ProposalInv
    <3>3. QED
      BY <2>3, <3>1, <3>2
  <2>6. QED
    BY <2>4, <2>5
<1>6. CASE Propose
  <2> DEFINE f == rt.primary
  <2>1. f \in Failures /\ Policy[f].propose /\ rt.proposals = 0
    BY <1>6 DEF Propose, ProposalInv, Types, RtTypes
  <2>2. f \notin rt.repaired
    BY <2>1, Proposable DEF RepairedInv
  <2>3. /\ rt'.proposals = 1 /\ rt'.tried = rt.tried /\ rt'.primary = rt.primary
        /\ \/ rt'.commits = rt.commits /\ rt'.repaired = rt.repaired
           \/ rt'.commits = rt.commits + 1 /\ rt'.repaired = rt.repaired \cup {f}
    <3>1. CASE RejectProposal
      BY <2>1, <3>1 DEF RejectProposal, Types, RtTypes
    <3>2. CASE CommitProposal
      <4>1. rt' = [rt EXCEPT !.proposals = rt.proposals + 1, !.applied = TRUE,
                             !.commits = rt.commits + 1,
                             !.repaired = rt.repaired \cup {rt.primary}, !.unassessed = TRUE]
        BY <3>2 DEF CommitProposal
      <4>2. QED
        BY <2>1, <4>1 DEF Types, RtTypes
    <3>3. QED
      BY <1>6, <3>1, <3>2 DEF Propose
  <2>4. IsFiniteSet(rt'.repaired) /\ rt'.commits = Cardinality(rt'.repaired)
    BY <2>1, <2>2, <2>3, AnotherRepaired DEF RepairedInv
  <2>5. QED
    BY <2>1, <2>3, <2>4 DEF ProposalInv, RepairedInv
<1>7. QED
  BY <1>1, <1>2, <1>3, <1>4, <1>5, <1>6
     DEF Next, Machine, RuntimeNext, Bystanders

LEMMA TypesStep == Types /\ ProposalInv /\ [Next]_vars => Types'
PROOF
<1> SUFFICES ASSUME Types, ProposalInv, [Next]_vars
             PROVE  Types'
  OBVIOUS
<1>1. CASE UNCHANGED vars
  BY <1>1, UnchangedTypes DEF vars, planVars, Types
<1>2. CASE PlanningNext \/ Human
  BY <1>2, GenerationTypes, ValidationTypes, RevisionTypes, SupervisionTypes, ExpertNodeTypes
     DEF PlanningNext, Human
<1>3. CASE RuntimeNext
  BY <1>3, RenderingTypes, RecoveryTypes DEF RuntimeNext
<1>4. QED
  BY <1>1, <1>2, <1>3 DEF Next, Machine

RepairInv == Types /\ ProposalInv /\ RepairedInv

LEMMA RepairInvariant == Spec => []RepairInv
PROOF
<1>1. Init => RepairInv
  <2> SUFFICES ASSUME Init
               PROVE  RepairInv
    OBVIOUS
  <2>1. PlanTypes /\ RepairTypes /\ HintTypes /\ ExpertTypes
    <3>1. PlanTypes
      <4>1. 0 \in 0 .. MaxRetries + 1
        BY BoundAssumption
      <4>2. QED
        BY <4>1 DEF Init, PlanTypes, Passes
    <3>2. RepairTypes
      BY DEF Init, RepairTypes, NoRepairs
    <3>3. HintTypes /\ ExpertTypes
      BY BoundAssumption DEF Init, HintTypes, ExpertTypes
    <3>4. QED
      BY <3>1, <3>2, <3>3
  <2>2. SupTypes /\ RtTypes /\ FileTypes
    BY BoundAssumption DEF Init, SupTypes, Routes, RtTypes, Decisions, FileTypes
  <2>3. ProposalInv /\ RepairedInv
    BY FS_EmptySet DEF Init, ProposalInv, RepairedInv
  <2>4. QED
    BY <2>1, <2>2, <2>3 DEF Init, RepairInv, Types, Nodes
<1>2. RepairInv /\ [Next]_vars => RepairInv'
  BY TypesStep, RepairStep DEF RepairInv
<1>3. QED
  BY <1>1, <1>2, PTL DEF Spec

(* Every variable keeps its type and every counter its limit, through      *)
(* every node and every budget.                                            *)
THEOREM WorkflowTypeCorrect == Spec => []TypeOK
PROOF
<1>1. RepairInv => TypeOK
  BY TypesAreOK DEF RepairInv
<1>2. QED
  BY <1>1, RepairInvariant, PTL

(* However often a runtime failure returns and whichever of the two        *)
(* repairs answers it, it is repaired by at most one commit.               *)
THEOREM RepairsAreCommittedOnce == Spec => []CommittedOnce
PROOF
<1>1. RepairInv => CommittedOnce
  BY DEF RepairInv, RepairedInv, CommittedOnce
<1>2. QED
  BY <1>1, RepairInvariant, PTL

-----------------------------------------------------------------------------
(* What is rendered was validated.                                         *)

(* Past validation the plan has no defects, and every node that writes     *)
(* another plan goes back before them.                                     *)
Downstream == { "assess_plan_capability", "run_supervisor", "ask_expert",
                "classify_expert_feedback", "render_plan_script", "execute_tools",
                "classify_runtime_feedback", "deterministic_runtime_repair",
                "runtime_supervisor", "llm_runtime_diagnose", "llm_runtime_propose" }
Clean == plan.defects = {}
CheckedInv ==
  /\ pc \in Downstream => Clean
  /\ files.script = "current" => HasPlan /\ Clean

LEMMA ScriptOutdated == FileTypes => Outdated(files).script # "current"
PROOF BY DEF FileTypes, Outdated

LEMMA ValidationLeads ==
  ASSUME ValidatePlan
  PROVE  pc' \in Downstream => AcceptPlan
PROOF
<1> SUFFICES ASSUME pc' \in Downstream
             PROVE  AcceptPlan
  OBVIOUS
<1>1. pc' = AfterValidation'
  BY DEF ValidatePlan, AcceptPlan, ResumePass, AcceptRepair, ScheduleRegeneration,
     ExhaustRepair, RejectPlan
<1>2. report' = "valid"
  BY <1>1 DEF AfterValidation, Downstream
<1>3. QED
  BY <1>2 DEF ValidatePlan, ResumePass, AcceptRepair, ScheduleRegeneration, ExhaustRepair,
     RejectPlan

(* The nodes before validation lead to it, or to each other.               *)
Upstream == { "generate_plan", "ask_plan_expert", "resume_plan_closed_loop",
              "execute_plan_retry", "validate_plan", "save_record" }

LEMMA UpstreamRoutes ==
  ASSUME \/ GeneratePlan \/ StopUnanswered \/ AnswerPlanQuestions \/ ResumePlan
         \/ ExecutePlanRetry \/ RepairPlanFormat \/ ReflectPlan \/ ApplyFeedback
         \/ RefuseFeedback
  PROVE  pc' \in Upstream
PROOF
<1>1. AfterGeneration' \in Upstream /\ AfterPatch' \in Upstream
  BY DEF AfterGeneration, AfterPatch, Upstream
<1>2. QED
  BY <1>1 DEF GeneratePlan, SkipGeneration, GenerateWholePlan, FailWholePlan, AssemblePatches,
     FailPass, StopUnanswered, AnswerPlanQuestions, ResumePlan, ExecutePlanRetry,
     RepairPlanFormat, ReflectPlan, ApplyFeedback, RefuseFeedback, Upstream

(* The plan and its script stay, or the script is no longer that of the    *)
(* plan.                                                                   *)
ScriptKept == \/ files'.script # "current"
              \/ plan' = plan /\ files'.script = files.script

LEMMA KeptOrOutdated ==
  ASSUME FileTypes, (plan' = plan /\ files' = files) \/ files' = Outdated(files)
  PROVE  ScriptKept
PROOF BY ScriptOutdated DEF ScriptKept

LEMMA CheckedStep ==
  ASSUME Types, CheckedInv, [Next]_vars
  PROVE  CheckedInv'
PROOF
<1> FileTypes /\ PlanTypes
  BY DEF Types
<1>1. ASSUME pc' \notin Downstream, ScriptKept
      PROVE  CheckedInv'
  BY <1>1 DEF ScriptKept, CheckedInv, HasPlan, Clean
<1>2. ASSUME pc \in Downstream, plan' = plan \/ Clean', ScriptKept
      PROVE  CheckedInv'
  BY <1>2 DEF ScriptKept, CheckedInv, HasPlan, Clean
<1>3. CASE UNCHANGED vars
  BY <1>3 DEF vars, planVars, CheckedInv, HasPlan, Clean
<1>4. CASE \/ GeneratePlan \/ StopUnanswered \/ AnswerPlanQuestions \/ ResumePlan
           \/ ExecutePlanRetry \/ RepairPlanFormat \/ ReflectPlan \/ ApplyFeedback
           \/ RefuseFeedback
  <2>1. pc' \notin Downstream
    BY <1>4, UpstreamRoutes DEF Upstream, Downstream
  <2>2. CASE GeneratePlan
    <3>1. (plan' = plan /\ files' = files) \/ files' = Outdated(files)
      <4>1. CASE SkipGeneration
        BY <4>1 DEF SkipGeneration, planVars
      <4>2. CASE GenerateWholePlan \/ FailWholePlan
        BY <4>2 DEF GenerateWholePlan, FailWholePlan
      <4>3. CASE AssemblePatches \/ FailPass
        BY <4>3 DEF AssemblePatches, FailPass
      <4>4. QED
        BY <2>2, <4>1, <4>2, <4>3 DEF GeneratePlan
    <3>2. QED
      BY <1>1, <2>1, <3>1, KeptOrOutdated
  <2>3. CASE StopUnanswered \/ AnswerPlanQuestions \/ ResumePlan \/ ExecutePlanRetry \/ RefuseFeedback
    <3>1. plan' = plan
      BY <2>3 DEF StopUnanswered, AnswerPlanQuestions, ResumePlan, ExecutePlanRetry,
         RefuseFeedback, planVars
    <3>2. files' = files
      BY <2>3 DEF StopUnanswered, AnswerPlanQuestions, ResumePlan, ExecutePlanRetry,
         RefuseFeedback, frame
    <3>3. QED
      BY <1>1, <2>1, <3>1, <3>2, KeptOrOutdated
  <2>4. CASE RepairPlanFormat \/ ReflectPlan \/ ApplyFeedback
    <3>1. CASE RepairPlanFormat
      BY <1>1, <2>1, <3>1, KeptOrOutdated DEF RepairPlanFormat
    <3>2. CASE ReflectPlan
      <4>1. files' = IF plan' = plan THEN files ELSE Outdated(files)
        BY <3>2 DEF ReflectPlan
      <4>2. QED
        BY <1>1, <2>1, <4>1, KeptOrOutdated
    <3>3. CASE ApplyFeedback
      BY <1>1, <2>1, <3>3, KeptOrOutdated DEF ApplyFeedback
    <3>4. QED
      BY <2>4, <3>1, <3>2, <3>3
  <2>5. QED
    BY <1>1, <1>4, <2>1, <2>2, <2>3, <2>4
<1>5. CASE ValidatePlan
  <2>1. CASE AcceptPlan
    <3>1. Clean /\ plan' = plan /\ files' = files
      BY <2>1 DEF AcceptPlan, IsValid, Clean, frame
    <3>2. QED
      BY <3>1 DEF CheckedInv, HasPlan, Clean
  <2>2. CASE ~AcceptPlan
    <3>1. pc' \notin Downstream
      BY <1>5, <2>2, ValidationLeads
    <3>2. ScriptKept
      BY <1>5, <2>2, ScriptOutdated DEF ScriptKept, ValidatePlan, ResumePass, AcceptRepair,
         ScheduleRegeneration, ExhaustRepair, RejectPlan, frame
    <3>3. QED
      BY <1>1, <3>1, <3>2
  <2>3. QED
    BY <2>1, <2>2
<1>6. CASE AssessPlan
  <2>1. \/ plan' = plan /\ files' = files
        \/ plan' = NoPlan /\ files' = Outdated(files)
    <3>1. CASE Injects /\ Incremental
      BY <1>6, <3>1 DEF AssessPlan
    <3>2. CASE ~(Injects /\ Incremental)
      <4>1. UNCHANGED <<plan, retry, error, pending, build, repairs, files>>
        BY <1>6, <3>2 DEF AssessPlan
      <4>2. plan' = plan /\ files' = files
        BY <4>1
      <4>3. QED
        BY <4>2
    <3>3. QED
      BY <3>1, <3>2
  <2>2. pc \in Downstream
    BY <1>6 DEF AssessPlan, Downstream
  <2>3. plan' = plan \/ Clean'
    BY <2>1 DEF Clean, NoPlan
  <2>4. QED
    BY <1>2, <2>1, <2>2, <2>3, KeptOrOutdated
<1>7. CASE SuperviseRun \/ SkipExpert \/ HearExpert \/ ClassifyFeedback
  <2>1. pc \in Downstream /\ plan' = plan /\ files' = files
    BY <1>7 DEF SuperviseRun, SkipExpert, HearExpert, ClassifyFeedback, Downstream, planVars, frame
  <2>2. QED
    BY <1>2, <2>1 DEF ScriptKept
<1>8. CASE RenderPlanScript
  <2>1. pc = "render_plan_script" /\ Clean
    BY <1>8 DEF RenderPlanScript, SkipRender, WriteScript, FailRender, CheckedInv, Downstream
  <2>2. CASE SkipRender \/ FailRender
    BY <1>2, <2>1, <2>2 DEF SkipRender, FailRender, Cleaned, ScriptKept, FileTypes, Downstream
  <2>3. CASE WriteScript
    <3>1. PICK kind \in {plan.kind, "skeleton"} : plan' = [plan EXCEPT !.kind = kind]
      BY <2>3 DEF WriteScript
    <3>2. plan \in PlanValues
      BY <2>3 DEF WriteScript, HasPlan, PlanTypes
    <3>3. plan'.kind = kind /\ plan'.defects = plan.defects /\ kind # "missing"
      BY <3>1, <3>2 DEF PlanValues, Kinds
    <3>4. HasPlan' /\ Clean'
      BY <2>1, <3>3 DEF HasPlan, NoPlan, Clean
    <3>5. QED
      BY <3>4 DEF CheckedInv
  <2>4. QED
    BY <1>8, <2>2, <2>3 DEF RenderPlanScript
<1>9. CASE ExecuteTools
  <2>1. pc \in Downstream /\ plan' = plan
    BY <1>9 DEF ExecuteTools, SkipExecution, SkipTools, PassTools, FailTools, RunTools, Downstream
  <2>2. files'.script = files.script
    BY <1>9 DEF ExecuteTools, SkipExecution, SkipTools, PassTools, FailTools, RunTools, FileTypes
  <2>3. QED
    BY <1>2, <2>1, <2>2 DEF ScriptKept
<1>10. CASE ClassifyRuntimeFeedback \/ Diagnose \/ SuperviseRuntime
  <2>1. pc \in Downstream /\ plan' = plan /\ files' = files
    BY <1>10 DEF ClassifyRuntimeFeedback, Diagnose, SuperviseRuntime, Downstream, planVars
  <2>2. QED
    BY <1>2, <2>1 DEF ScriptKept
<1>11. CASE DeterministicRepair
  <2>1. pc \in Downstream
    BY <1>11 DEF DeterministicRepair, Downstream
  <2>2. CASE plan' = plan /\ files' = files
    BY <1>2, <2>1, <2>2 DEF ScriptKept
  <2>3. CASE CommitRepair
    <3>1. Clean' /\ files'.script # "current"
      BY <2>3 DEF CommitRepair, Repaired, Clean, Outdated, FileTypes
    <3>2. QED
      BY <1>2, <2>1, <3>1 DEF ScriptKept
  <2>4. QED
    BY <1>11, <2>2, <2>3 DEF DeterministicRepair, RefuseRepair
<1>12. CASE Propose
  <2>1. pc \in Downstream
    BY <1>12 DEF Propose, Downstream
  <2>2. CASE RejectProposal
    BY <1>2, <2>1, <2>2 DEF RejectProposal, ScriptKept
  <2>3. CASE CommitProposal
    <3>1. Clean' /\ files'.script # "current"
      BY <2>3, ScriptOutdated DEF CommitProposal, Repaired, Clean
    <3>2. QED
      BY <1>2, <2>1, <3>1 DEF ScriptKept
  <2>4. QED
    BY <1>12, <2>2, <2>3 DEF Propose
<1>13. CASE SaveRecord
  BY <1>1, <1>13 DEF SaveRecord, Downstream, ScriptKept, planVars
<1>14. QED
  BY <1>3, <1>4, <1>5, <1>6, <1>7, <1>8, <1>9, <1>10, <1>11, <1>12, <1>13
     DEF Next, Machine, PlanningNext, Human, RuntimeNext

(* The script on disk is of a plan the validator accepted, whichever of    *)
(* the nodes that write plans wrote it last.                               *)
THEOREM RenderedPlansAreValid == Spec => []OnlyValidPlansRendered
PROOF
<1>1. Init => CheckedInv
  BY DEF Init, CheckedInv, Downstream
<1>2. RepairInv /\ CheckedInv /\ [Next]_vars => CheckedInv'
  BY CheckedStep DEF RepairInv
<1>3. CheckedInv => OnlyValidPlansRendered
  BY DEF CheckedInv, OnlyValidPlansRendered, IsValid, HasPlan, Clean
<1>4. QED
  BY <1>1, <1>2, <1>3, RepairInvariant, PTL DEF Spec

-----------------------------------------------------------------------------
(* What the retry count is spent on.                                       *)
MayRetry == retry < MaxRetries \/ plan.kind = "typo"

(* Reflection is only entered below the limit, or for a typo; from the     *)
(* supervisor because the assessment found something to repair in a plan   *)
(* that had passed validation.                                             *)
RetryInv ==
  /\ pc = "reflect_plan" => MayRetry
  /\ pc = "assess_plan_capability" => report = "valid"
  /\ pc = "run_supervisor" /\ report # "valid" => Incremental \/ MayRetry

LEMMA RetryStep ==
  ASSUME Types, RetryInv, [Next]_vars
  PROVE  RetryInv'
PROOF
<1>1. CASE UNCHANGED vars
  BY <1>1 DEF vars, planVars, RetryInv, MayRetry, Incremental
<1>2. ASSUME pc' \notin { "reflect_plan", "assess_plan_capability", "run_supervisor" }
      PROVE  RetryInv'
  BY <1>2 DEF RetryInv
<1>3. CASE \/ GeneratePlan \/ StopUnanswered \/ AnswerPlanQuestions \/ ResumePlan
           \/ ExecutePlanRetry \/ RepairPlanFormat \/ ReflectPlan \/ ApplyFeedback
           \/ RefuseFeedback
  BY <1>2, <1>3, UpstreamRoutes DEF Upstream
<1>4. CASE ValidatePlan
  <2>1. pc' = AfterValidation'
    BY <1>4 DEF ValidatePlan, AcceptPlan, ResumePass, AcceptRepair, ScheduleRegeneration,
       ExhaustRepair, RejectPlan
  <2>2. /\ pc' = "reflect_plan" => retry' < MaxRetries
        /\ pc' = "assess_plan_capability" => report' = "valid"
        /\ pc' # "run_supervisor"
    BY <2>1 DEF AfterValidation, RetriesLeft
  <2>3. QED
    BY <2>2 DEF RetryInv, MayRetry
<1>5. CASE AssessPlan
  <2>1. pc' = "run_supervisor" /\ report = "valid" /\ config' = config
    BY <1>5 DEF AssessPlan, RetryInv
  <2>2. CASE ~Injects \/ Incremental
    BY <1>5, <2>1, <2>2 DEF AssessPlan, RetryInv, Incremental
  <2>3. CASE Injects /\ ~Incremental
    BY <1>5, <2>1, <2>3 DEF AssessPlan, RetryInv, MayRetry, Injects
  <2>4. QED
    BY <2>2, <2>3
<1>6. CASE SuperviseRun
  <2>1. /\ pc = "run_supervisor" /\ pc' = AfterSupervisor'
        /\ UNCHANGED << plan, report, retry, config, pending, hints >>
    BY <1>6 DEF SuperviseRun, planVars, frame
  <2>2. sup'.override \in Routes
    BY <1>6, SupervisionTypes DEF Types, SupTypes
  <2>3. pc' = "reflect_plan" => report # "valid" /\ ~Incremental
    BY <2>1, <2>2 DEF AfterSupervisor, Routes, Incremental
  <2>4. pc' \notin { "assess_plan_capability", "run_supervisor" }
    BY <2>1, <2>2 DEF AfterSupervisor, Routes
  <2>5. QED
    BY <2>1, <2>3, <2>4 DEF RetryInv, MayRetry
<1>7. CASE SkipExpert \/ HearExpert \/ ClassifyFeedback
  <2>1. pc' \in { AfterExpert', AfterFeedback' }
    BY <1>7 DEF SkipExpert, HearExpert, ClassifyFeedback
  <2>2. AfterCapability' \in {"render_plan_script", "save_record"}
    BY DEF AfterCapability
  <2>3. QED
    BY <1>2, <2>1, <2>2 DEF AfterExpert, AfterFeedback
<1>8. CASE ExecuteTools
  <2>1. pc' = AfterExecution'
    BY <1>8 DEF ExecuteTools
  <2>2. /\ pc' = "reflect_plan" => retry' < MaxRetries
        /\ pc' \notin { "assess_plan_capability", "run_supervisor" }
    BY <2>1 DEF AfterExecution
  <2>3. QED
    BY <2>2 DEF RetryInv, MayRetry
<1>9. CASE \/ RenderPlanScript \/ ClassifyRuntimeFeedback \/ DeterministicRepair \/ Diagnose
           \/ Propose \/ SuperviseRuntime \/ SaveRecord
  <2>1. pc' \in { "execute_tools", "done", AfterClassification', AfterRepair', AfterDiagnosis',
                  AfterProposal', AfterRecovery' }
    BY <1>9 DEF RenderPlanScript, ClassifyRuntimeFeedback, DeterministicRepair, Diagnose,
       Propose, SuperviseRuntime, SaveRecord
  <2>2. QED
    BY <1>2, <2>1 DEF AfterClassification, AfterRepair, AfterDiagnosis, AfterProposal,
       AfterRecovery
<1>10. QED
  BY <1>1, <1>3, <1>4, <1>5, <1>6, <1>7, <1>8, <1>9
     DEF Next, Machine, PlanningNext, Human, RuntimeNext

LEMMA OverBudget ==
  ASSUME Types, RetryInv, [Next]_vars, retry' > MaxRetries, retry <= MaxRetries
  PROVE  plan.kind = "typo"
PROOF
<1>0. retry \in Nat /\ MaxRetries \in Nat
  BY BoundAssumption DEF Types, PlanTypes
<1>1. retry' # retry
  BY <1>0
<1>2. ResumePass \/ ScheduleRegeneration \/ RepairPlanFormat \/ ReflectPlan \/ AssessPlan
  <2>1. CASE PlanningNext \/ Human
    BY <1>1, <2>1 DEF PlanningNext, Human, GeneratePlan, SkipGeneration, GenerateWholePlan,
       FailWholePlan, AssemblePatches, FailPass, StopUnanswered, AnswerPlanQuestions, ResumePlan,
       ExecutePlanRetry, ValidatePlan, AcceptPlan, AcceptRepair, ExhaustRepair, RejectPlan,
       SuperviseRun, SkipExpert, HearExpert, ClassifyFeedback, ApplyFeedback, RefuseFeedback,
       planVars
  <2>2. CASE RuntimeNext
    BY <1>1, <2>2 DEF RuntimeNext, RenderPlanScript, ExecuteTools, ClassifyRuntimeFeedback,
       DeterministicRepair, Diagnose, Propose, SuperviseRuntime, SaveRecord, planVars
  <2>3. QED
    BY <1>1, <2>1, <2>2 DEF Next, Machine, vars, planVars
<1>3. retry < MaxRetries => Bump(retry) <= MaxRetries
  BY <1>0 DEF Bump
<1>4. ~(retry < MaxRetries /\ retry' = Bump(retry))
  <2>1. Bump(retry) \in Nat /\ retry' > MaxRetries
    BY <1>0 DEF Bump
  <2>2. QED
    BY <1>0, <1>3, <2>1
<1>5. CASE ResumePass \/ ScheduleRegeneration \/ RepairPlanFormat
  BY <1>4, <1>5 DEF ResumePass, ScheduleRegeneration, RepairPlanFormat
<1>6. CASE ReflectPlan
  BY <1>4, <1>6 DEF ReflectPlan, RetryInv, MayRetry
<1>7. CASE AssessPlan
  BY <1>1, <1>4, <1>7 DEF AssessPlan, Injects
<1>8. QED
  BY <1>2, <1>5, <1>6, <1>7

(* No chain of validation failures, reflections, capability defects and    *)
(* runtime feedback spends more retries than there are, except on a        *)
(* lattice typo, whose repair asks no model.                               *)
THEOREM RetriesWithinBudget == Spec => OnlyAutoRepairPastBudget
PROOF
<1>1. Init => RetryInv
  BY DEF Init, RetryInv
<1>2. RepairInv /\ RetryInv /\ [Next]_vars => RetryInv'
  BY RetryStep DEF RepairInv
<1>3. RepairInv /\ RetryInv /\ [Next]_vars =>
        [retry' > MaxRetries /\ retry <= MaxRetries => plan.kind = "typo"]_vars
  BY OverBudget DEF RepairInv
<1>4. QED
  BY <1>1, <1>2, <1>3, RepairInvariant, PTL DEF Spec, OnlyAutoRepairPastBudget

-----------------------------------------------------------------------------
(* Open confirmations.                                                     *)

(* From rendering on, and as long as its script is there, a plan with open *)
(* confirmations was shown to the expert node, or came by a route that the *)
(* supervisor chose for another plan and, all decisions spent, no longer   *)
(* changes.                                                                *)
Rendering == { "render_plan_script", "execute_tools", "classify_runtime_feedback",
               "deterministic_runtime_repair", "runtime_supervisor",
               "llm_runtime_diagnose", "llm_runtime_propose" }
Spent == sup.gaveUp /\ sup.count >= MaxDecisions
Shown == plan.kind = "unconfirmed" => expert.asked \/ Spent
ShownRoute ==
  sup.override = "render_plan_script" => \A r, d : sup.last # <<"unconfirmed", r, d>>
ConfirmedInv ==
  /\ ShownRoute
  /\ pc \in Rendering => Shown
  /\ files.script = "current" => Shown
  /\ pc = "classify_expert_feedback" => expert.asked

(* What the supervisor decides keeps a shown plan shown, and a route to    *)
(* rendering is one for a plan that may be rendered.                       *)
LEMMA ShownBySupervisor ==
  ASSUME Types, ConfirmedInv, SuperviseRun
  PROVE  /\ Shown => Shown'
         /\ pc' = "render_plan_script" => Shown'
         /\ ShownRoute'
PROOF
<1>0. UNCHANGED << plan, report, build, expert, config >>
  BY DEF SuperviseRun, planVars, frame
<1>1. CASE config.supervisor = "off"
  <2>1. sup' = sup /\ pc' = AfterSupervisor'
    BY <1>1 DEF SuperviseRun
  <2>2. pc' # "render_plan_script"
    BY <1>0, <1>1, <2>1 DEF AfterSupervisor
  <2>3. QED
    BY <1>0, <2>1, <2>2 DEF Shown, Spent, ConfirmedInv, ShownRoute
<1>2. CASE config.supervisor # "off" /\ Exhausted
  <2>1. sup' = [sup EXCEPT !.gaveUp = TRUE]
    BY <1>2 DEF SuperviseRun
  <2>2. /\ sup'.gaveUp /\ sup'.count = sup.count
        /\ sup'.override = sup.override /\ sup'.last = sup.last
    BY <2>1 DEF Types, SupTypes
  <2>3. Shown => Shown'
    BY <1>0, <2>2 DEF Shown, Spent
  <2>4. ASSUME pc' = "render_plan_script", plan.kind = "unconfirmed"
        PROVE  Spent'
    <3>1. pc' = AfterSupervisor'
      BY DEF SuperviseRun
    <3>2. sup'.override = "render_plan_script"
      BY <2>4, <3>1 DEF AfterSupervisor
    <3>3. sup.last # Fingerprint
      BY <2>2, <2>4, <3>2 DEF ConfirmedInv, ShownRoute, Fingerprint
    <3>4. QED
      BY <1>2, <2>2, <3>3 DEF Exhausted, Spent
  <2>5. QED
    BY <1>0, <2>2, <2>3, <2>4 DEF Shown, ConfirmedInv, ShownRoute
<1>3. CASE config.supervisor # "off" /\ ~Exhausted
  <2>1. PICK a \in AllowedActions \cup {"none"} :
          /\ sup'.override = IF config.supervisor = "controlled_route" THEN RouteOf[a] ELSE "none"
          /\ sup'.last = Fingerprint
    BY <1>3 DEF SuperviseRun
  <2>2. sup'.override = "render_plan_script" => plan.kind # "unconfirmed"
    BY <2>1 DEF RouteOf, AllowedActions, MayRender, NeedsHuman
  <2>3. ~Spent
    BY <1>3 DEF Exhausted, Spent
  <2>4. Shown => Shown'
    BY <1>0, <2>3 DEF Shown
  <2>5. pc' = "render_plan_script" => sup'.override = "render_plan_script"
    BY DEF SuperviseRun, AfterSupervisor
  <2>6. QED
    BY <1>0, <2>1, <2>2, <2>4, <2>5 DEF Shown, ShownRoute, Fingerprint
<1>4. QED
  BY <1>1, <1>2, <1>3

LEMMA ConfirmedStep ==
  ASSUME Types, ConfirmedInv, [Next]_vars
  PROVE  ConfirmedInv'
PROOF
<1> FileTypes /\ PlanTypes /\ ExpertTypes
  BY DEF Types
<1> DEFINE Apart == Rendering \cup {"classify_expert_feedback"}
<1>1. ASSUME pc' \notin Apart, sup' = sup,
             \/ files'.script # "current"
             \/ /\ plan' = plan /\ expert'.asked = expert.asked
                /\ files'.script = files.script
      PROVE  ConfirmedInv'
  BY <1>1 DEF ConfirmedInv, ShownRoute, Shown, Spent
<1>2. ASSUME Shown', sup' = sup, pc' # "classify_expert_feedback"
      PROVE  ConfirmedInv'
  BY <1>2 DEF ConfirmedInv, ShownRoute
<1>3. ASSUME pc \in Rendering, expert' = expert, sup' = sup,
             plan'.kind \in {plan.kind, "skeleton", "runnable"}
      PROVE  Shown'
  BY <1>3 DEF ConfirmedInv, Shown, Spent
<1>4. CASE UNCHANGED vars
  BY <1>4 DEF vars, planVars, ConfirmedInv, ShownRoute, Shown, Spent
<1>5. CASE \/ GeneratePlan \/ StopUnanswered \/ AnswerPlanQuestions \/ ResumePlan
           \/ ExecutePlanRetry \/ RepairPlanFormat \/ ReflectPlan \/ ApplyFeedback
           \/ RefuseFeedback
  <2>1. pc' \notin Apart
    BY <1>5, UpstreamRoutes DEF Upstream, Rendering
  <2>2. CASE GeneratePlan
    <3>1. CASE SkipGeneration
      BY <1>1, <2>1, <3>1 DEF SkipGeneration, planVars
    <3>2. CASE GenerateWholePlan \/ FailWholePlan \/ AssemblePatches \/ FailPass
      <4>1. sup' = sup /\ files' = Outdated(files)
        BY <3>2 DEF GenerateWholePlan, FailWholePlan, AssemblePatches, FailPass
      <4>2. QED
        BY <1>1, <2>1, <4>1, ScriptOutdated
    <3>3. QED
      BY <2>2, <3>1, <3>2 DEF GeneratePlan
  <2>3. CASE StopUnanswered \/ AnswerPlanQuestions \/ ResumePlan \/ ExecutePlanRetry \/ RefuseFeedback
    <3>1. plan' = plan /\ files' = files /\ sup' = sup /\ expert'.asked = expert.asked
      BY <2>3 DEF StopUnanswered, AnswerPlanQuestions, ResumePlan, ExecutePlanRetry,
         RefuseFeedback, planVars, frame, ExpertTypes
    <3>2. QED
      BY <1>1, <2>1, <3>1
  <2>4. CASE RepairPlanFormat \/ ApplyFeedback
    <3>1. sup' = sup /\ files' = Outdated(files)
      BY <2>4 DEF RepairPlanFormat, ApplyFeedback
    <3>2. QED
      BY <1>1, <2>1, <3>1, ScriptOutdated
  <2>5. CASE ReflectPlan
    <3>1. /\ sup' = sup /\ expert' = [expert EXCEPT !.asked = @ /\ plan' = plan]
          /\ files' = IF plan' = plan THEN files ELSE Outdated(files)
      BY <2>5 DEF ReflectPlan
    <3>2. CASE plan' = plan
      <4>1. expert'.asked = expert.asked
        BY <3>1, <3>2 DEF ExpertTypes
      <4>2. QED
        BY <1>1, <2>1, <3>1, <3>2, <4>1
    <3>3. CASE plan' # plan
      BY <1>1, <2>1, <3>1, <3>3, ScriptOutdated
    <3>4. QED
      BY <3>2, <3>3
  <2>6. QED
    BY <1>5, <2>2, <2>3, <2>4, <2>5
<1>6. CASE ValidatePlan
  <2>1. sup' = sup /\ pc' = AfterValidation'
    BY <1>6 DEF ValidatePlan, AcceptPlan, ResumePass, AcceptRepair, ScheduleRegeneration,
       ExhaustRepair, RejectPlan
  <2>2. pc' \notin Apart
    BY <2>1 DEF AfterValidation, Rendering
  <2>3. \/ files'.script # "current"
        \/ plan' = plan /\ expert' = expert /\ files' = files
    BY <1>6, ScriptOutdated DEF ValidatePlan, AcceptPlan, ResumePass, AcceptRepair,
       ScheduleRegeneration, ExhaustRepair, RejectPlan, frame
  <2>4. QED
    BY <1>1, <2>1, <2>2, <2>3
<1>7. CASE AssessPlan
  <2>1. sup' = sup /\ expert' = expert /\ pc' = "run_supervisor"
    BY <1>7 DEF AssessPlan
  <2>2. files' = Outdated(files) \/ (plan' = plan /\ files' = files)
    BY <1>7 DEF AssessPlan
  <2>3. QED
    BY <1>1, <2>1, <2>2, ScriptOutdated DEF Rendering
<1>8. CASE SuperviseRun
  <2>1. pc' = AfterSupervisor' /\ sup'.override \in Routes /\ files' = files
    BY <1>8, SupervisionTypes DEF SuperviseRun, frame, Types, SupTypes
  <2>2. pc' \in {"generate_plan", "render_plan_script", "ask_expert", "save_record", "reflect_plan"}
    BY <2>1 DEF AfterSupervisor, Routes
  <2>3. QED
    BY <1>8, <2>1, <2>2, ShownBySupervisor DEF ConfirmedInv, Rendering
<1>9. CASE SkipExpert \/ HearExpert
  <2>1. sup' = sup
    BY <1>9 DEF SkipExpert, HearExpert
  <2>2. CASE SkipExpert
    <3>1. expert' = [expert EXCEPT !.action = "none", !.regenerate = FALSE, !.asked = TRUE]
      BY <2>2 DEF SkipExpert
    <3>2. expert'.asked = TRUE
      BY <3>1 DEF ExpertTypes
    <3>3. QED
      BY <2>1, <3>2 DEF ConfirmedInv, ShownRoute, Shown
  <2>3. CASE HearExpert
    <3>1. \/ \E stop \in BOOLEAN :
               expert' = [ rounds |-> expert.rounds + 1, action |-> "continue",
                           regenerate |-> FALSE, abort |-> stop, asked |-> TRUE ]
          \/ expert' = [expert EXCEPT !.rounds = @ + 1, !.action = "classify",
                                      !.regenerate = FALSE, !.asked = TRUE]
      BY <2>3 DEF HearExpert
    <3>2. ASSUME expert' = [expert EXCEPT !.rounds = @ + 1, !.action = "classify",
                                          !.regenerate = FALSE, !.asked = TRUE]
          PROVE  expert'.asked = TRUE
      BY <3>2 DEF ExpertTypes
    <3>3. ASSUME NEW stop \in BOOLEAN,
                 expert' = [ rounds |-> expert.rounds + 1, action |-> "continue",
                             regenerate |-> FALSE, abort |-> stop, asked |-> TRUE ]
          PROVE  expert'.asked = TRUE
      BY <3>3
    <3>4. expert'.asked = TRUE
      BY <3>1, <3>2, <3>3
    <3>5. QED
      BY <2>1, <3>4 DEF ConfirmedInv, ShownRoute, Shown
  <2>4. QED
    BY <1>9, <2>2, <2>3
<1>10. CASE ClassifyFeedback
  <2>1. sup' = sup /\ expert'.asked
    BY <1>10 DEF ClassifyFeedback, ConfirmedInv, ExpertTypes
  <2>2. QED
    BY <2>1 DEF ConfirmedInv, ShownRoute, Shown
<1>11. CASE RenderPlanScript
  <2>1. pc = "render_plan_script" /\ pc' = "execute_tools" /\ expert' = expert /\ sup' = sup
    BY <1>11 DEF RenderPlanScript, SkipRender, WriteScript, FailRender
  <2>2. plan'.kind \in {plan.kind, "skeleton"}
    BY <1>11 DEF RenderPlanScript, SkipRender, WriteScript, FailRender, HasPlan, PlanTypes,
       PlanValues
  <2>3. QED
    BY <1>2, <1>3, <2>1, <2>2 DEF Rendering
<1>12. CASE ExecuteTools \/ ClassifyRuntimeFeedback \/ Diagnose \/ SuperviseRuntime
  <2>1. pc \in Rendering
    BY <1>12 DEF ExecuteTools, SkipExecution, SkipTools, PassTools, FailTools, RunTools,
       ClassifyRuntimeFeedback, Diagnose, SuperviseRuntime, Rendering
  <2>2. plan' = plan /\ expert' = expert /\ sup' = sup
    BY <1>12 DEF ExecuteTools, ClassifyRuntimeFeedback, Diagnose, SuperviseRuntime, planVars
  <2>3. pc' # "classify_expert_feedback"
    BY <1>12 DEF ExecuteTools, ClassifyRuntimeFeedback, Diagnose, SuperviseRuntime,
       AfterExecution, AfterClassification, AfterDiagnosis, AfterRecovery
  <2>4. QED
    BY <1>2, <1>3, <2>1, <2>2, <2>3
<1>13. CASE DeterministicRepair \/ Propose
  <2>1. pc \in Rendering /\ expert' = expert /\ sup' = sup
    BY <1>13 DEF DeterministicRepair, Propose, Rendering
  <2>2. plan'.kind \in {plan.kind, "runnable"}
    BY <1>13 DEF DeterministicRepair, RefuseRepair, CommitRepair, Propose, RejectProposal,
       CommitProposal, Repaired
  <2>3. pc' # "classify_expert_feedback"
    BY <1>13 DEF DeterministicRepair, Propose, AfterRepair, AfterProposal
  <2>4. QED
    BY <1>2, <1>3, <2>1, <2>2, <2>3
<1>14. CASE SaveRecord
  BY <1>1, <1>14 DEF SaveRecord, Rendering, planVars
<1>15. QED
  BY <1>4, <1>5, <1>6, <1>7, <1>8, <1>9, <1>10, <1>11, <1>12, <1>13, <1>14
     DEF Next, Machine, PlanningNext, Human, RuntimeNext

(* Open confirmations are put to the expert node before they are rendered, *)
(* on whichever of the routes to the renderer, or the run supervisor has   *)
(* spent its decisions on other plans (compute_allowed_supervisor_actions  *)
(* never allows one).                                                      *)
THEOREM ConfirmationsAreShown == Spec => []NoConfirmationBypass
PROOF
<1>1. Init => ConfirmedInv
  BY DEF Init, ConfirmedInv, ShownRoute, Rendering
<1>2. RepairInv /\ ConfirmedInv /\ [Next]_vars => ConfirmedInv'
  BY ConfirmedStep DEF RepairInv
<1>3. ConfirmedInv => NoConfirmationBypass
  BY DEF ConfirmedInv, Shown, Spent, NoConfirmationBypass
<1>4. QED
  BY <1>1, <1>2, <1>3, RepairInvariant, PTL DEF Spec

-----------------------------------------------------------------------------
(* What a run ends with.                                                   *)

(* A pass that put questions or stopped left no plan, and is followed by   *)
(* the answers or the end.                                                 *)
PassInv ==
  /\ pass \in {"awaiting", "stopped"} =>
       /\ Incremental /\ plan = NoPlan
       /\ pc \in {"generate_plan", "ask_plan_expert", "resume_plan_closed_loop",
                  "save_record", "done"}
  /\ pc \in {"ask_plan_expert", "resume_plan_closed_loop"} => pass = "awaiting"

(* A failure is diagnosed under the report that found it; the tools find   *)
(* no old script; and where a run may end, an outcome that is ok is earned. *)
Earned == Outcome = "ok" /\ ~Cut => files.fresh /\ files.failure = NoFailure
Diagnosing == { "classify_runtime_feedback", "deterministic_runtime_repair",
                "llm_runtime_diagnose", "llm_runtime_propose" }
EarnedInv ==
  /\ PassInv
  /\ pc \in Diagnosing => report # "valid"
  /\ pc = "execute_tools" => files.script # "old"
  /\ files.ran => files.path
  /\ pc \in {"runtime_supervisor", "save_record", "done"} => Earned

LEMMA NotOk == Outcome = "ok" => CanRender /\ files.ran /\ report = "valid"
PROOF BY DEF Outcome

LEMMA NoPlanNotRendered == plan = NoPlan => ~CanRender
PROOF BY DEF NoPlan, CanRender

(* The routes that lead to the end without an ok.                          *)
LEMMA EarnedAtTheEnd ==
  /\ AfterValidation = "save_record" => Earned
  /\ AfterCapability = "save_record" => Earned
  /\ AfterSupervisor = "save_record" => Earned
  /\ AfterExpert = "save_record" => Earned
  /\ AfterFeedback = "save_record" => Earned
PROOF
<1>1. AfterValidation = "save_record" => ~(report = "valid" /\ HasPlan)
  BY DEF AfterValidation
<1>2. AfterCapability = "save_record" => ~(report = "valid" /\ CanRender)
  BY DEF AfterCapability, HasPlan, NoPlan, CanRender
<1>3. AfterSupervisor = "save_record" => sup.override = "save_record"
  BY DEF AfterSupervisor
<1>4. AfterExpert = "save_record" => expert.abort \/ AfterCapability = "save_record"
  BY DEF AfterExpert
<1>5. AfterFeedback = "save_record" => AfterCapability = "save_record"
  BY DEF AfterFeedback
<1>6. ~(report = "valid" /\ HasPlan) => Earned
  BY NotOk, NoPlanNotRendered DEF Earned, HasPlan
<1>7. ~(report = "valid" /\ CanRender) => Earned
  BY NotOk DEF Earned
<1>8. QED
  BY <1>1, <1>2, <1>3, <1>4, <1>5, <1>6, <1>7 DEF Earned, Cut

LEMMA EarnedAtTheNextEnd ==
  /\ AfterValidation' = "save_record" => Earned'
  /\ AfterCapability' = "save_record" => Earned'
  /\ AfterSupervisor' = "save_record" => Earned'
  /\ AfterExpert' = "save_record" => Earned'
  /\ AfterFeedback' = "save_record" => Earned'
  /\ plan' = NoPlan \/ report' # "valid" => Earned'
PROOF
<1> DEFINE AtTheEnd ==
      /\ AfterValidation = "save_record" => Earned
      /\ AfterCapability = "save_record" => Earned
      /\ AfterSupervisor = "save_record" => Earned
      /\ AfterExpert = "save_record" => Earned
      /\ AfterFeedback = "save_record" => Earned
      /\ plan = NoPlan \/ report # "valid" => Earned
<1>1. plan = NoPlan \/ report # "valid" => Earned
  BY NotOk, NoPlanNotRendered DEF Earned
<1>2. AtTheEnd
  BY <1>1, EarnedAtTheEnd
<1>3. AtTheEnd'
  BY <1>2, PTL
<1>4. QED
  BY <1>3

LEMMA PassStep ==
  ASSUME Types, PassInv, [Next]_vars
  PROVE  PassInv'
PROOF
<1> DEFINE Waits == {"ask_plan_expert", "resume_plan_closed_loop"}
<1>1. ASSUME pass' = pass, config' = config, pc' \notin Waits,
             pc \notin Waits \cup {"generate_plan", "save_record", "done"}
      PROVE  PassInv'
  BY <1>1 DEF PassInv
<1>2. CASE UNCHANGED vars
  BY <1>2 DEF vars, planVars, PassInv, Incremental
<1>3. CASE GeneratePlan
  <2>1. config' = config /\ pc' = AfterGeneration'
    BY <1>3 DEF GeneratePlan, SkipGeneration, GenerateWholePlan, FailWholePlan, AssemblePatches,
       FailPass
  <2>2. /\ pass' = "awaiting" => pc' = "ask_plan_expert"
        /\ pass' = "stopped" => pc' = "save_record"
        /\ pc' \notin {"resume_plan_closed_loop"} /\ (pc' = "ask_plan_expert" => pass' = "awaiting")
    BY <2>1 DEF AfterGeneration
  <2>3. pass' \in {"awaiting", "stopped"} => Incremental /\ plan' = NoPlan
    <3>1. CASE SkipGeneration
      BY <3>1 DEF SkipGeneration, planVars, PassInv
    <3>2. CASE GenerateWholePlan \/ FailWholePlan
      BY <3>2 DEF GenerateWholePlan, FailWholePlan, PassInv
    <3>3. CASE AssemblePatches
      BY <3>3 DEF AssemblePatches
    <3>4. CASE FailPass
      BY <3>4 DEF FailPass
    <3>5. QED
      BY <1>3, <3>1, <3>2, <3>3, <3>4 DEF GeneratePlan
  <2>4. QED
    BY <2>1, <2>2, <2>3 DEF PassInv, Incremental
<1>4. CASE StopUnanswered \/ AnswerPlanQuestions \/ ResumePlan
  <2>1. /\ pc \in Waits /\ pc' \in {"save_record", "resume_plan_closed_loop", "generate_plan"}
        /\ UNCHANGED << plan, pass, config >>
    BY <1>4 DEF StopUnanswered, AnswerPlanQuestions, ResumePlan, planVars, frame
  <2>2. QED
    BY <2>1 DEF PassInv, Incremental
<1>5. CASE ExecutePlanRetry \/ RepairPlanFormat \/ ReflectPlan \/ ApplyFeedback \/ RefuseFeedback
  <2>1. /\ pass' = pass /\ config' = config
        /\ pc \in {"execute_plan_retry", "repair_plan_format", "reflect_plan", "patch_plan"}
    BY <1>5 DEF ExecutePlanRetry, RepairPlanFormat, ReflectPlan, ApplyFeedback, RefuseFeedback, frame
  <2>2. pc' \in {"generate_plan", "validate_plan"}
    BY <1>5 DEF ExecutePlanRetry, RepairPlanFormat, ReflectPlan, ApplyFeedback, RefuseFeedback,
       AfterPatch
  <2>3. QED
    BY <1>1, <2>1, <2>2
<1>6. CASE ValidatePlan
  <2>1. pass' = pass /\ config' = config /\ pc = "validate_plan" /\ pc' = AfterValidation'
    BY <1>6 DEF ValidatePlan, AcceptPlan, ResumePass, AcceptRepair, ScheduleRegeneration,
       ExhaustRepair, RejectPlan, frame
  <2>2. QED
    BY <1>1, <2>1 DEF AfterValidation
<1>7. CASE AssessPlan \/ SuperviseRun \/ SkipExpert \/ HearExpert \/ ClassifyFeedback
  <2>1. /\ pass' = pass /\ config' = config
        /\ pc \in {"assess_plan_capability", "run_supervisor", "ask_expert",
                   "classify_expert_feedback"}
    BY <1>7 DEF AssessPlan, SuperviseRun, SkipExpert, HearExpert, ClassifyFeedback, planVars, frame
  <2>2. pc' \notin Waits
    <3>1. CASE AssessPlan
      BY <3>1 DEF AssessPlan
    <3>2. CASE SuperviseRun
      <4>1. pc' = AfterSupervisor' /\ sup'.override \in Routes
        BY <3>2, SupervisionTypes DEF SuperviseRun, Types, SupTypes
      <4>2. QED
        BY <4>1 DEF AfterSupervisor, Routes
    <3>3. CASE SkipExpert \/ HearExpert \/ ClassifyFeedback
      BY <3>3 DEF SkipExpert, HearExpert, ClassifyFeedback, AfterExpert, AfterFeedback,
         AfterCapability
    <3>4. QED
      BY <1>7, <3>1, <3>2, <3>3
  <2>3. QED
    BY <1>1, <2>1, <2>2
<1>8. CASE RuntimeNext
  <2>1. pass' = pass /\ config' = config
    BY <1>8 DEF RuntimeNext, RenderPlanScript, ExecuteTools, ClassifyRuntimeFeedback,
       DeterministicRepair, Diagnose, Propose, SuperviseRuntime, SaveRecord, planVars
  <2>2. CASE SaveRecord
    BY <2>2 DEF SaveRecord, PassInv, planVars, Incremental
  <2>3. CASE ~SaveRecord
    <3>1. pc \in Rendering
      BY <1>8, <2>3 DEF RuntimeNext, RenderPlanScript, SkipRender, WriteScript, FailRender,
         ExecuteTools, SkipExecution, SkipTools, PassTools, FailTools, RunTools,
         ClassifyRuntimeFeedback, DeterministicRepair, Diagnose, Propose, SuperviseRuntime, Rendering
    <3>2. pc' \notin Waits
      BY <1>8, <2>3 DEF RuntimeNext, RenderPlanScript, ExecuteTools, ClassifyRuntimeFeedback,
         DeterministicRepair, Diagnose, Propose, SuperviseRuntime, AfterExecution,
         AfterClassification, AfterRepair, AfterDiagnosis, AfterProposal, AfterRecovery
    <3>3. QED
      BY <1>1, <2>1, <3>1, <3>2 DEF Rendering
  <2>4. QED
    BY <2>2, <2>3
<1>9. QED
  BY <1>2, <1>3, <1>4, <1>5, <1>6, <1>7, <1>8 DEF Next, Machine, PlanningNext, Human

LEMMA EarnedStep ==
  ASSUME Types, EarnedInv, [Next]_vars
  PROVE  EarnedInv'
PROOF
<1> FileTypes
  BY DEF Types
<1> DEFINE Ends == {"runtime_supervisor", "save_record", "done"}
<1>1. PassInv'
  BY PassStep DEF EarnedInv
<1>2. ASSUME pc' \notin Diagnosing \cup {"execute_tools"}, pc' \in Ends => Earned',
             files' = files \/ files' = Outdated(files)
      PROVE  EarnedInv'
  <2>1. files'.ran => files'.path
    BY <1>2 DEF EarnedInv, Outdated, FileTypes
  <2>2. QED
    BY <1>1, <1>2, <2>1 DEF EarnedInv
<1>3. CASE UNCHANGED vars
  <2>1. Earned => Earned'
    BY <1>3 DEF vars, planVars, Earned, Outcome, CanRender, Cut
  <2>2. QED
    BY <1>1, <1>3, <2>1 DEF vars, planVars, EarnedInv
<1>4. CASE \/ GeneratePlan \/ StopUnanswered \/ AnswerPlanQuestions \/ ResumePlan
           \/ ExecutePlanRetry \/ RepairPlanFormat \/ ReflectPlan \/ ApplyFeedback
           \/ RefuseFeedback
  <2>1. pc' \in Upstream
    BY <1>4, UpstreamRoutes
  <2>2. files' = files \/ files' = Outdated(files)
    BY <1>4 DEF GeneratePlan, SkipGeneration, GenerateWholePlan, FailWholePlan, AssemblePatches,
       FailPass, StopUnanswered, AnswerPlanQuestions, ResumePlan, ExecutePlanRetry,
       RepairPlanFormat, ReflectPlan, ApplyFeedback, RefuseFeedback, frame
  <2>3. pc' = "save_record" => plan' = NoPlan
    <3>1. CASE GeneratePlan
      <4>1. pc' = AfterGeneration'
        BY <3>1 DEF GeneratePlan, SkipGeneration, GenerateWholePlan, FailWholePlan,
           AssemblePatches, FailPass
      <4>2. pc' = "save_record" => pass' = "stopped"
        BY <4>1 DEF AfterGeneration
      <4>3. QED
        BY <1>1, <4>2 DEF PassInv
    <3>2. CASE StopUnanswered
      BY <3>2 DEF StopUnanswered, EarnedInv, PassInv, planVars
    <3>3. CASE \/ AnswerPlanQuestions \/ ResumePlan \/ ExecutePlanRetry \/ RepairPlanFormat
               \/ ReflectPlan \/ ApplyFeedback \/ RefuseFeedback
      BY <3>3 DEF AnswerPlanQuestions, ResumePlan, ExecutePlanRetry, RepairPlanFormat,
         ReflectPlan, ApplyFeedback, RefuseFeedback, AfterPatch
    <3>4. QED
      BY <1>4, <3>1, <3>2, <3>3
  <2>4. QED
    BY <1>2, <2>1, <2>2, <2>3, EarnedAtTheNextEnd DEF Upstream, Diagnosing
<1>5. CASE ValidatePlan
  <2>1. pc' = AfterValidation'
    BY <1>5 DEF ValidatePlan, AcceptPlan, ResumePass, AcceptRepair, ScheduleRegeneration,
       ExhaustRepair, RejectPlan
  <2>2. files' = files \/ files' = Outdated(files)
    BY <1>5 DEF ValidatePlan, AcceptPlan, ResumePass, AcceptRepair, ScheduleRegeneration,
       ExhaustRepair, RejectPlan, frame
  <2>3. pc' \notin Diagnosing \cup {"execute_tools", "runtime_supervisor", "done"}
    BY <2>1 DEF AfterValidation, Diagnosing
  <2>4. QED
    BY <1>2, <2>1, <2>2, <2>3, EarnedAtTheNextEnd
<1>6. CASE AssessPlan
  <2>1. pc' = "run_supervisor" /\ (files' = files \/ files' = Outdated(files))
    BY <1>6 DEF AssessPlan
  <2>2. QED
    BY <1>2, <2>1 DEF Diagnosing
<1>7. CASE SuperviseRun
  <2>1. pc' = AfterSupervisor' /\ sup'.override \in Routes /\ files' = files
    BY <1>7, SupervisionTypes DEF SuperviseRun, frame, Types, SupTypes
  <2>2. pc' \notin Diagnosing \cup {"execute_tools", "runtime_supervisor", "done"}
    BY <2>1 DEF AfterSupervisor, Routes, Diagnosing
  <2>3. QED
    BY <1>2, <2>1, <2>2, EarnedAtTheNextEnd
<1>8. CASE SkipExpert \/ HearExpert \/ ClassifyFeedback
  <2>1. (pc' = AfterExpert' \/ pc' = AfterFeedback') /\ files' = files
    BY <1>8 DEF SkipExpert, HearExpert, ClassifyFeedback, frame
  <2>2. pc' \notin Diagnosing \cup {"execute_tools", "runtime_supervisor", "done"}
    BY <2>1 DEF AfterExpert, AfterFeedback, AfterCapability, Diagnosing
  <2>3. QED
    BY <1>2, <2>1, <2>2, EarnedAtTheNextEnd
<1>9. CASE RenderPlanScript
  <2>1. pc' = "execute_tools"
    BY <1>9 DEF RenderPlanScript
  <2>2. files'.script # "old" /\ (files'.ran => files'.path)
    BY <1>9 DEF RenderPlanScript, SkipRender, WriteScript, FailRender, Cleaned, EarnedInv, FileTypes
  <2>3. QED
    BY <1>1, <2>1, <2>2 DEF EarnedInv, Diagnosing
<1>10. CASE ExecuteTools
  <2>1. /\ pc' = AfterExecution' /\ pc = "execute_tools" /\ files.script # "old"
        /\ plan' = plan
    BY <1>10 DEF ExecuteTools, SkipExecution, SkipTools, PassTools, FailTools, RunTools, EarnedInv
  <2>2. files'.ran => files'.path
    BY <1>10 DEF ExecuteTools, SkipExecution, SkipTools, PassTools, FailTools, RunTools,
       EarnedInv, FileTypes
  <2>3. Earned'
    <3>1. CASE SkipExecution
      <4>1. plan' = NoPlan \/ ~files'.ran
        BY <2>1, <3>1 DEF SkipExecution, HasPlan, EarnedInv
      <4>2. QED
        BY <4>1, EarnedAtTheNextEnd DEF Earned, Outcome
    <3>2. CASE SkipTools
      BY <2>1, <3>2 DEF SkipTools, Earned, Outcome, CanRender
    <3>3. CASE PassTools
      BY <2>1, <3>3 DEF PassTools, RunTools, Earned, FileTypes
    <3>4. CASE \E f \in Failures : FailTools(f)
      <4>1. report' \in InvalidReports
        BY <3>4, FailureAssumption DEF FailTools, FailurePolicies
      <4>2. QED
        BY <4>1, EarnedAtTheNextEnd DEF InvalidReports
    <3>5. QED
      BY <1>10, <3>1, <3>2, <3>3, <3>4 DEF ExecuteTools
  <2>4. pc' \in Diagnosing => report' # "valid"
    BY <2>1 DEF AfterExecution, Diagnosing
  <2>5. pc' # "execute_tools"
    BY <2>1 DEF AfterExecution
  <2>6. QED
    BY <1>1, <2>2, <2>3, <2>4, <2>5 DEF EarnedInv
<1>11. CASE ClassifyRuntimeFeedback \/ Diagnose
  <2>1. report # "valid" /\ report' = report /\ files' = files
    BY <1>11 DEF ClassifyRuntimeFeedback, Diagnose, EarnedInv, Diagnosing, planVars
  <2>2. pc' # "execute_tools"
    BY <1>11 DEF ClassifyRuntimeFeedback, Diagnose, AfterClassification, AfterDiagnosis
  <2>3. QED
    BY <1>1, <2>1, <2>2, EarnedAtTheNextEnd DEF EarnedInv
<1>12. CASE DeterministicRepair
  <2>1. report # "valid" /\ pc' = AfterRepair'
    BY <1>12 DEF DeterministicRepair, EarnedInv, Diagnosing
  <2>2. pc' # "execute_tools"
    BY <2>1 DEF AfterRepair
  <2>3. CASE CommitRepair
    <3>1. rt'.applied = TRUE
      BY <2>3 DEF CommitRepair, Types, RtTypes
    <3>2. pc' = "render_plan_script"
      BY <2>1, <3>1 DEF AfterRepair
    <3>3. ~files'.ran
      BY <2>3 DEF CommitRepair, Outdated, FileTypes
    <3>4. QED
      BY <1>1, <3>2, <3>3 DEF EarnedInv, Diagnosing
  <2>4. CASE report' = report /\ files' = files
    BY <1>1, <2>1, <2>2, <2>4, EarnedAtTheNextEnd DEF EarnedInv
  <2>5. QED
    BY <1>12, <2>3, <2>4 DEF DeterministicRepair, RefuseRepair
<1>13. CASE Propose
  <2>1. report # "valid" /\ report' = report
    BY <1>13 DEF Propose, EarnedInv, Diagnosing
  <2>2. files' = files \/ files' = Outdated(files)
    BY <1>13 DEF Propose, RejectProposal, CommitProposal
  <2>3. files'.ran => files'.path
    BY <2>2 DEF EarnedInv, Outdated, FileTypes
  <2>4. pc' # "execute_tools"
    BY <1>13 DEF Propose, AfterProposal
  <2>5. QED
    BY <1>1, <2>1, <2>3, <2>4, EarnedAtTheNextEnd DEF EarnedInv
<1>14. CASE SuperviseRuntime
  <2>1. /\ pc' = AfterRecovery' /\ files' = files /\ pc = "runtime_supervisor"
        /\ UNCHANGED << plan, expert, sup >>
    BY <1>14 DEF SuperviseRuntime
  <2>2. PICK a \in RuntimeActions :
          /\ rt'.action = a /\ rt'.unassessed = rt.unassessed
          /\ report' = IF ClearsReport(a) THEN "valid" ELSE report
    BY <1>14 DEF SuperviseRuntime, Types, RtTypes
  <2>3. CASE a = "retry_same_plan"
    <3>1. pc' = "render_plan_script"
      BY <2>1, <2>2, <2>3 DEF AfterRecovery
    <3>2. QED
      BY <1>2, <2>1, <3>1 DEF Diagnosing
  <2>4. CASE a # "retry_same_plan"
    <3>1. report' = report
      BY <2>2, <2>4 DEF ClearsReport
    <3>2. Earned'
      BY <2>1, <2>2, <3>1 DEF EarnedInv, Earned, Outcome, CanRender, Cut
    <3>3. report = "valid" => a \in {"stop", "finish_success"}
      BY <2>2 DEF RuntimeActions, Report
    <3>4. pc' \in Diagnosing => a \in {"attempt_deterministic_repair", "attempt_llm_repair"}
      BY <2>1, <2>2 DEF AfterRecovery, Diagnosing
    <3>5. pc' # "execute_tools"
      BY <2>1 DEF AfterRecovery
    <3>6. QED
      BY <1>1, <2>1, <3>1, <3>2, <3>3, <3>4, <3>5 DEF EarnedInv
  <2>5. QED
    BY <2>3, <2>4
<1>15. CASE SaveRecord
  <2>1. Earned => Earned'
    BY <1>15 DEF SaveRecord, planVars, Earned, Outcome, CanRender, Cut
  <2>2. QED
    BY <1>1, <1>15, <2>1 DEF SaveRecord, EarnedInv, Diagnosing
<1>16. QED
  BY <1>3, <1>4, <1>5, <1>6, <1>7, <1>8, <1>9, <1>10, <1>11, <1>12, <1>13, <1>14, <1>15
     DEF Next, Machine, PlanningNext, Human, RuntimeNext

(* A run that ends ok, and was not cut short, ends with the results of     *)
(* tools that passed on the plan it ends with: no route to save_record     *)
(* carries old results of another plan or a report that was cleared        *)
(* (_compute_workflow_outcome reads whatever is there).                    *)
THEOREM OkRunsHavePassed == Spec => []OkIsEarned
PROOF
<1>1. Init => EarnedInv
  BY DEF Init, EarnedInv, PassInv, Diagnosing
<1>2. RepairInv /\ EarnedInv /\ [Next]_vars => EarnedInv'
  BY EarnedStep DEF RepairInv
<1>3. EarnedInv => OkIsEarned
  BY DEF EarnedInv, Earned, OkIsEarned
<1>4. QED
  BY <1>1, <1>2, <1>3, RepairInvariant, PTL DEF Spec

-----------------------------------------------------------------------------
(* The loops.  What a run can still spend: retries, rounds with a person,  *)
(* decisions of the supervisor, repairs of the runtime half, and what      *)
(* spending one of these can bring with it, a scheduled regeneration or a  *)
(* supervisor that has not given up.                                       *)
Flag(b) == IF b THEN 1 ELSE 0
RetriesToGo == MaxRetries + 1 - retry
RoundsToGo == MaxExpertRounds - expert.rounds
DecisionsToGo == MaxDecisions - sup.count
RepairsToGo == (MaxDeterministic - rt.count) + (1 - rt.proposals)
               + (MaxTransient - rt.transient)
Budgets == 2 * (RetriesToGo + RoundsToGo + DecisionsToGo + RepairsToGo)
           + Flag(pending) + Flag(~sup.gaveUp)

(* How far a node is from the end of the run while nothing is spent.  A    *)
(* scheduled regeneration is spent in generate_plan, a reflection has been *)
(* paid for unless the retries are used up, and ask_expert goes on to the  *)
(* renderer only with a valid report.                                      *)
RankAt(node, late, scheduled, checked) ==
  CASE node = "run_supervisor"               -> IF late THEN 20 ELSE 13
    [] node = "reflect_plan"                 -> IF late THEN 19 ELSE 3
    [] node = "classify_expert_feedback"     -> 18
    [] node = "patch_plan"                   -> 17
    [] node = "generate_plan"                -> IF scheduled THEN 2 ELSE 16
    [] node = "validate_plan"                -> 15
    [] node = "assess_plan_capability"       -> 14
    [] node = "ask_expert"                   -> IF checked THEN 12 ELSE 4
    [] node = "render_plan_script"           -> 11
    [] node = "execute_tools"                -> 10
    [] node = "classify_runtime_feedback"    -> 9
    [] node = "runtime_supervisor"           -> 8
    [] node = "deterministic_runtime_repair" -> 7
    [] node = "llm_runtime_diagnose"         -> 6
    [] node = "llm_runtime_propose"          -> 5
    [] node \in {"repair_plan_format", "ask_plan_expert"} -> 3
    [] node = "save_record"                  -> 1
    [] OTHER                                 -> 0
Rank == RankAt(pc, retry > MaxRetries, pending, report = "valid")
RunLeft == 21 * Budgets + Rank

(* Where a run is in one of the loops that the code does not bound         *)
(* (UnboundedLoops).                                                       *)
Looping ==
  \/ pc \in {"execute_plan_retry", "resume_plan_closed_loop"}
  \/ pc = "validate_plan" /\ accepted
  \/ pc = "assess_plan_capability" /\ retry > MaxRetries
  \/ pc = "run_supervisor" /\ sup.gaveUp /\ sup.override = "generate_plan"

(* A regeneration that is scheduled is on its way to generate_plan, which  *)
(* will run it: there is no error to make it skip.                         *)
PendingInv ==
  pending =>
    /\ Incremental
    /\ pc \in {"generate_plan", "validate_plan", "assess_plan_capability", "run_supervisor",
               "save_record", "done"}
    /\ pc \in {"generate_plan", "assess_plan_capability", "run_supervisor"} => error = "none"
    /\ pc = "validate_plan" => accepted

(* The deterministic repair is entered with an attempt left or, where no   *)
(* supervisor decides, before anything was repaired.                       *)
RepairStartInv ==
  /\ pc = "classify_runtime_feedback" /\ ~config.recovery => ~rt.applied
  /\ pc = "deterministic_runtime_repair" =>
       Failed /\ (rt.count < MaxDeterministic \/ (~rt.applied /\ ~config.recovery))

Falls == Budgets' < Budgets \/ (Budgets' = Budgets /\ Rank' < Rank)
Goes == Looping \/ Looping' \/ Falls

LEMMA BudgetTypes ==
  ASSUME Types
  PROVE  /\ RetriesToGo \in Nat /\ RoundsToGo \in Nat /\ DecisionsToGo \in Nat
         /\ RepairsToGo \in Nat /\ Budgets \in Nat
         /\ retry \in Nat /\ expert.rounds \in Nat /\ sup.count \in Nat
         /\ rt.count \in Nat /\ rt.proposals \in Nat /\ rt.transient \in Nat
         /\ MaxRetries \in Nat /\ MaxExpertRounds \in Nat /\ MaxDecisions \in Nat
         /\ MaxDeterministic \in Nat /\ MaxTransient \in Nat
         /\ pending \in BOOLEAN /\ accepted \in BOOLEAN /\ sup.gaveUp \in BOOLEAN
PROOF
<1>1. /\ retry \in 0 .. MaxRetries + 1 /\ expert.rounds \in 0 .. MaxExpertRounds
      /\ sup.count \in 0 .. MaxDecisions /\ rt.count \in 0 .. MaxDeterministic
      /\ rt.proposals \in 0 .. 1 /\ rt.transient \in 0 .. MaxTransient
      /\ pending \in BOOLEAN /\ accepted \in BOOLEAN /\ sup.gaveUp \in BOOLEAN
  BY DEF Types, PlanTypes, ExpertTypes, SupTypes, RtTypes
<1>2. /\ MaxRetries \in Nat /\ MaxExpertRounds \in Nat /\ MaxDecisions \in Nat
      /\ MaxDeterministic \in Nat /\ MaxTransient \in Nat
  BY BoundAssumption
<1>3. /\ RetriesToGo \in Nat /\ RoundsToGo \in Nat /\ DecisionsToGo \in Nat
      /\ RepairsToGo \in Nat
  BY <1>1, <1>2 DEF RetriesToGo, RoundsToGo, DecisionsToGo, RepairsToGo
<1>4. Budgets \in Nat
  BY <1>3 DEF Budgets, Flag
<1>5. QED
  BY <1>1, <1>2, <1>3, <1>4

LEMMA RankType ==
  \A node, late, scheduled, checked : RankAt(node, late, scheduled, checked) \in 0 .. 20
PROOF
  BY DEF RankAt

(* The three ways in which a step spends nothing but a flag, or spends.    *)
Untouched ==
  /\ retry' = retry /\ expert'.rounds = expert.rounds
  /\ rt'.count = rt.count /\ rt'.proposals = rt.proposals /\ rt'.transient = rt.transient

LEMMA NothingSpent ==
  ASSUME Untouched, sup'.count = sup.count, sup'.gaveUp = sup.gaveUp, pending' = pending
  PROVE  Budgets' = Budgets
PROOF
  BY DEF Untouched, Budgets, RetriesToGo, RoundsToGo, DecisionsToGo, RepairsToGo

LEMMA FlagSpent ==
  ASSUME Types, Untouched, sup'.count = sup.count,
         \/ pending /\ ~pending' /\ sup'.gaveUp = sup.gaveUp
         \/ ~sup.gaveUp /\ sup'.gaveUp /\ pending' = pending
  PROVE  Budgets' < Budgets
PROOF
<1>1. /\ RetriesToGo' = RetriesToGo /\ RoundsToGo' = RoundsToGo
      /\ DecisionsToGo' = DecisionsToGo /\ RepairsToGo' = RepairsToGo
  BY DEF Untouched, RetriesToGo, RoundsToGo, DecisionsToGo, RepairsToGo
<1>2. QED
  BY <1>1, BudgetTypes DEF Budgets, Flag

LEMMA BudgetSpent ==
  ASSUME Types,
         NEW d1 \in {0, 1}, NEW d2 \in {0, 1}, NEW d3 \in {0, 1}, NEW d4 \in {0, 1},
         d1 + d2 + d3 + d4 >= 1,
         RetriesToGo' = RetriesToGo - d1, RoundsToGo' = RoundsToGo - d2,
         DecisionsToGo' = DecisionsToGo - d3, RepairsToGo' = RepairsToGo - d4,
         sup'.gaveUp = sup.gaveUp \/ pending' = pending
  PROVE  Budgets' < Budgets
PROOF
  BY BudgetTypes DEF Budgets, Flag

LEMMA RetrySpent ==
  ASSUME Types, retry <= MaxRetries, retry' = Bump(retry),
         expert'.rounds = expert.rounds, sup' = sup,
         rt'.count = rt.count, rt'.proposals = rt.proposals, rt'.transient = rt.transient
  PROVE  Budgets' < Budgets
PROOF
<1>1. retry' = retry + 1
  BY BudgetTypes DEF Bump
<1>2. RetriesToGo' = RetriesToGo - 1
  BY <1>1, BudgetTypes DEF RetriesToGo
<1>3. RoundsToGo' = RoundsToGo /\ DecisionsToGo' = DecisionsToGo /\ RepairsToGo' = RepairsToGo
  BY DEF RoundsToGo, DecisionsToGo, RepairsToGo
<1>4. RoundsToGo' = RoundsToGo - 0 /\ DecisionsToGo' = DecisionsToGo - 0
      /\ RepairsToGo' = RepairsToGo - 0
  BY <1>3, BudgetTypes
<1>5. QED
  BY <1>2, <1>4, BudgetSpent

(* A repair, a proposal or a retry of the plan, whatever the flags.        *)
LEMMA RepairSpent ==
  ASSUME Types, retry' = retry, expert'.rounds = expert.rounds, sup' = sup,
         \/ /\ rt'.count = rt.count + 1
            /\ rt'.proposals = rt.proposals /\ rt'.transient = rt.transient
         \/ /\ rt'.proposals = rt.proposals + 1
            /\ rt'.count = rt.count /\ rt'.transient = rt.transient
         \/ /\ rt'.transient = rt.transient + 1
            /\ rt'.count = rt.count /\ rt'.proposals = rt.proposals
  PROVE  Budgets' < Budgets
PROOF
<1>1. RepairsToGo' = RepairsToGo - 1
  <2>1. \A n, c, p, m, t \in Nat : /\ (n - (c + 1)) + (1 - p) + (m - t)
                                         = (n - c) + (1 - p) + (m - t) - 1
                                  /\ (n - c) + (1 - (p + 1)) + (m - t)
                                         = (n - c) + (1 - p) + (m - t) - 1
                                  /\ (n - c) + (1 - p) + (m - (t + 1))
                                         = (n - c) + (1 - p) + (m - t) - 1
    OBVIOUS
  <2>2. RepairsToGo' = (MaxDeterministic - rt'.count) + (1 - rt'.proposals)
                       + (MaxTransient - rt'.transient)
    BY DEF RepairsToGo
  <2>3. /\ rt.count \in Nat /\ rt.proposals \in Nat /\ rt.transient \in Nat
        /\ MaxDeterministic \in Nat /\ MaxTransient \in Nat
    BY BudgetTypes
  <2>4. QED
    BY <2>1, <2>2, <2>3 DEF RepairsToGo
<1>2. RetriesToGo' = RetriesToGo /\ RoundsToGo' = RoundsToGo /\ DecisionsToGo' = DecisionsToGo
  BY DEF RetriesToGo, RoundsToGo, DecisionsToGo
<1>3. RetriesToGo' = RetriesToGo - 0 /\ RoundsToGo' = RoundsToGo - 0
      /\ DecisionsToGo' = DecisionsToGo - 0
  BY <1>2, BudgetTypes
<1>4. QED
  BY <1>1, <1>3, BudgetSpent

-----------------------------------------------------------------------------
LEMMA PendingStep ==
  ASSUME Types, PendingInv, [Next]_vars
  PROVE  PendingInv'
PROOF
<1> SUFFICES ASSUME pending'
             PROVE  PendingInv'
  BY DEF PendingInv
<1>1. CASE UNCHANGED vars
  BY <1>1 DEF vars, planVars, PendingInv, Incremental
<1>2. ~GeneratePlan
  BY DEF GeneratePlan, SkipGeneration, GenerateWholePlan, FailWholePlan, AssemblePatches, FailPass,
     planVars, PendingInv
<1>3. /\ ~StopUnanswered /\ ~AnswerPlanQuestions /\ ~ResumePlan /\ ~ExecutePlanRetry
      /\ ~RepairPlanFormat /\ ~ReflectPlan /\ ~SkipExpert /\ ~HearExpert /\ ~ClassifyFeedback
      /\ ~ApplyFeedback /\ ~RefuseFeedback
  BY DEF StopUnanswered, AnswerPlanQuestions, ResumePlan, ExecutePlanRetry, RepairPlanFormat,
     ReflectPlan, SkipExpert, HearExpert, ClassifyFeedback, ApplyFeedback, RefuseFeedback,
     planVars, PendingInv
<1>4. /\ ~RenderPlanScript /\ ~ExecuteTools /\ ~ClassifyRuntimeFeedback /\ ~DeterministicRepair
      /\ ~Diagnose /\ ~Propose /\ ~SuperviseRuntime
  BY DEF RenderPlanScript, SkipRender, WriteScript, FailRender, ExecuteTools, SkipExecution,
     SkipTools, PassTools, FailTools, RunTools, ClassifyRuntimeFeedback, DeterministicRepair,
     Diagnose, Propose, SuperviseRuntime, planVars, PendingInv
<1>5. CASE ValidatePlan
  <2>1. pc = "validate_plan" /\ pc' = AfterValidation' /\ config' = config
    BY <1>5 DEF ValidatePlan, AcceptPlan, ResumePass, AcceptRepair, ScheduleRegeneration,
       ExhaustRepair, RejectPlan, frame
  <2>2. CASE AcceptPlan
    <3>1. /\ pending /\ Incremental' /\ error' = "none" /\ plan' = plan
          /\ report' = "valid" /\ ~accepted'
      BY <2>2 DEF AcceptPlan, PendingInv, Incremental, frame
    <3>2. HasPlan'
      BY <2>2, <3>1 DEF AcceptPlan, IsValid, HasPlan
    <3>3. pc' = "assess_plan_capability"
      BY <2>1, <3>1, <3>2 DEF AfterValidation
    <3>4. QED
      BY <3>1, <3>3 DEF PendingInv
  <2>3. CASE ResumePass \/ ScheduleRegeneration
    <3>1. Incremental' /\ error' = "none" /\ report' = "reflect"
      BY <2>1, <2>3 DEF ResumePass, ScheduleRegeneration, Resumable, Repairable, Incremental
    <3>2. CASE accepted'
      BY <2>1, <3>1, <3>2 DEF AfterValidation, PendingInv
    <3>3. CASE ~accepted'
      <4>1. pc' \in { "save_record", "generate_plan" }
        BY <2>1, <3>1, <3>3 DEF AfterValidation, RetriesLeft
      <4>2. QED
        BY <3>1, <4>1 DEF PendingInv
    <3>4. QED
      BY <3>2, <3>3
  <2>4. ~AcceptRepair
    BY DEF AcceptRepair
  <2>5. CASE ExhaustRepair \/ RejectPlan
    <3>1. pending /\ accepted' = accepted
      BY <2>5 DEF ExhaustRepair, RejectPlan
    <3>2. Incremental' /\ accepted'
      BY <2>1, <3>1 DEF PendingInv, Incremental
    <3>3. pc' = "validate_plan"
      BY <2>1, <3>2 DEF AfterValidation
    <3>4. QED
      BY <3>2, <3>3 DEF PendingInv
  <2>6. QED
    BY <1>5, <2>2, <2>3, <2>4, <2>5 DEF ValidatePlan
<1>6. CASE AssessPlan
  <2>1. pc = "assess_plan_capability" /\ pc' = "run_supervisor" /\ config' = config
    BY <1>6 DEF AssessPlan
  <2>2. Incremental' /\ error' = "none"
    BY <1>6, <2>1 DEF AssessPlan, PendingInv, Incremental
  <2>3. QED
    BY <2>1, <2>2 DEF PendingInv
<1>7. CASE SuperviseRun
  <2>1. /\ pc = "run_supervisor" /\ pc' = AfterSupervisor' /\ config' = config
        /\ pending /\ error' = error
    BY <1>7 DEF SuperviseRun, planVars, frame
  <2>2. pc' = "generate_plan"
    BY <2>1 DEF AfterSupervisor
  <2>3. QED
    BY <2>1, <2>2 DEF PendingInv, Incremental
<1>8. CASE SaveRecord
  BY <1>8 DEF SaveRecord, planVars, PendingInv, Incremental
<1>9. QED
  BY <1>1, <1>2, <1>3, <1>4, <1>5, <1>6, <1>7, <1>8
     DEF Next, Machine, PlanningNext, Human, RuntimeNext

LEMMA RepairStartStep ==
  ASSUME Types, RepairStartInv, [Next]_vars
  PROVE  RepairStartInv'
PROOF
<1>1. CASE UNCHANGED vars
  BY <1>1 DEF vars, RepairStartInv, Failed
<1>2. ASSUME pc' \notin { "classify_runtime_feedback", "deterministic_runtime_repair" }
      PROVE  RepairStartInv'
  BY <1>2 DEF RepairStartInv
<1>3. CASE ExecuteTools
  <2>1. pc' = AfterExecution' /\ config' = config
    BY <1>3 DEF ExecuteTools
  <2>2. /\ pc' # "deterministic_runtime_repair"
        /\ pc' = "classify_runtime_feedback" /\ ~config'.recovery => ~rt'.applied
    BY <2>1 DEF AfterExecution
  <2>3. QED
    BY <2>2 DEF RepairStartInv
<1>4. CASE ClassifyRuntimeFeedback
  <2>1. /\ pc = "classify_runtime_feedback" /\ pc' = AfterClassification' /\ config' = config
        /\ rt'.applied = rt.applied
    BY <1>4 DEF ClassifyRuntimeFeedback, Types, RtTypes
  <2>2. /\ pc' # "classify_runtime_feedback"
        /\ pc' = "deterministic_runtime_repair" =>
             ~config'.recovery /\ rt'.primary # NoFailure
    BY <2>1 DEF AfterClassification
  <2>3. QED
    BY <2>1, <2>2 DEF RepairStartInv, Failed
<1>5. CASE SuperviseRuntime
  <2>1. PICK a \in RuntimeActions :
          rt' = [rt EXCEPT !.action = a,
                           !.iterations = IF @ < MaxIterations THEN @ + 1 ELSE @,
                           !.transient = IF a = "retry_same_plan" THEN @ + 1 ELSE @,
                           !.noProgress = @ \/ Repeats]
    BY <1>5 DEF SuperviseRuntime
  <2>2. /\ rt'.action = a /\ rt'.primary = rt.primary /\ rt'.count = rt.count
        /\ pc' = AfterRecovery'
    BY <1>5, <2>1 DEF SuperviseRuntime, Types, RtTypes
  <2>3. pc' # "classify_runtime_feedback"
    BY <2>2 DEF AfterRecovery
  <2>4. CASE pc' = "deterministic_runtime_repair"
    <3>1. a = "attempt_deterministic_repair"
      BY <2>2, <2>4 DEF AfterRecovery
    <3>2. Failed /\ rt.count < MaxDeterministic
      BY <3>1 DEF RuntimeActions, FixableChoice, TransientChoice, Class
    <3>3. Failed' /\ rt'.count < MaxDeterministic
      BY <2>2, <3>2 DEF Failed
    <3>4. QED
      BY <2>3, <3>3 DEF RepairStartInv
  <2>5. QED
    BY <1>2, <2>3, <2>4
<1>6. CASE \/ RenderPlanScript \/ DeterministicRepair \/ Diagnose \/ Propose \/ SaveRecord
  <2>1. pc' \in { "execute_tools", "done", AfterRepair', AfterDiagnosis', AfterProposal' }
    BY <1>6 DEF RenderPlanScript, DeterministicRepair, Diagnose, Propose, SaveRecord
  <2>2. QED
    BY <1>2, <2>1 DEF AfterRepair, AfterDiagnosis, AfterProposal
<1>7. CASE PlanningNext \/ Human
  <2>1. pc' \in { "save_record", "resume_plan_closed_loop", "generate_plan", "validate_plan",
                  "run_supervisor", AfterGeneration', AfterValidation', AfterSupervisor',
                  AfterExpert', AfterFeedback', AfterPatch' }
    BY <1>7 DEF PlanningNext, Human, GeneratePlan, SkipGeneration, GenerateWholePlan,
       FailWholePlan, AssemblePatches, FailPass, StopUnanswered, AnswerPlanQuestions, ResumePlan,
       ExecutePlanRetry, ValidatePlan, AcceptPlan, ResumePass, AcceptRepair, ScheduleRegeneration,
       ExhaustRepair, RejectPlan, RepairPlanFormat, ReflectPlan, AssessPlan, SuperviseRun,
       SkipExpert, HearExpert, ClassifyFeedback, ApplyFeedback, RefuseFeedback
  <2>2. sup'.override \in Routes
    BY <1>7, GenerationTypes, ValidationTypes, RevisionTypes, SupervisionTypes, ExpertNodeTypes
       DEF PlanningNext, Human, Types, SupTypes
  <2>3. /\ AfterSupervisor' \notin { "classify_runtime_feedback", "deterministic_runtime_repair" }
        /\ AfterCapability' \notin { "classify_runtime_feedback", "deterministic_runtime_repair" }
    BY <2>2 DEF AfterSupervisor, Routes, AfterCapability
  <2>4. QED
    BY <1>2, <2>1, <2>3 DEF AfterGeneration, AfterValidation, AfterExpert, AfterFeedback, AfterPatch
<1>8. QED
  BY <1>1, <1>3, <1>4, <1>5, <1>6, <1>7 DEF Next, Machine, RuntimeNext

-----------------------------------------------------------------------------
(* Every node brings the run on, or is in one of the loops.                *)
LEMMA GenerationGoes ==
  ASSUME Types, PendingInv, GeneratePlan
  PROVE  Goes
PROOF
<1>1. pc = "generate_plan" /\ pc' = AfterGeneration'
  BY DEF GeneratePlan, SkipGeneration, GenerateWholePlan, FailWholePlan, AssemblePatches, FailPass
<1>2. Untouched /\ sup' = sup
  BY DEF GeneratePlan, SkipGeneration, GenerateWholePlan, FailWholePlan, AssemblePatches, FailPass,
     planVars, Untouched, Types, ExpertTypes, RtTypes
<1>3. CASE pending
  <2>1. AssemblePatches \/ FailPass
    BY <1>1, <1>3 DEF GeneratePlan, SkipGeneration, GenerateWholePlan, FailWholePlan, PendingInv
  <2>2. ~pending'
    BY <2>1 DEF AssemblePatches, FailPass
  <2>3. QED
    BY <1>2, <1>3, <2>2, FlagSpent DEF Goes, Falls
<1>4. CASE ~pending
  <2>1. pending' = pending
    BY <1>4, BudgetTypes DEF GeneratePlan, SkipGeneration, GenerateWholePlan, FailWholePlan,
       AssemblePatches, FailPass, planVars
  <2>2. Budgets' = Budgets
    BY <1>2, <2>1, NothingSpent
  <2>3. CASE pc' = "execute_plan_retry"
    BY <2>3 DEF Goes, Looping
  <2>4. CASE pc' # "execute_plan_retry"
    <3>1. pc' \in {"save_record", "ask_plan_expert", "validate_plan"}
      BY <1>1, <2>4 DEF AfterGeneration
    <3>2. Rank = 16 /\ Rank' < 16
      BY <1>1, <1>4, <3>1 DEF Rank, RankAt
    <3>3. QED
      BY <2>2, <3>2 DEF Goes, Falls
  <2>5. QED
    BY <2>3, <2>4
<1>5. QED
  BY <1>3, <1>4

LEMMA QuestionsGo ==
  ASSUME Types, StopUnanswered \/ AnswerPlanQuestions \/ ResumePlan \/ ExecutePlanRetry
  PROVE  Goes
PROOF
<1>1. CASE StopUnanswered
  <2>1. Budgets' = Budgets
    BY <1>1, NothingSpent DEF StopUnanswered, planVars, frame, Untouched
  <2>2. Rank = 3 /\ Rank' = 1
    BY <1>1 DEF StopUnanswered, Rank, RankAt
  <2>3. QED
    BY <2>1, <2>2 DEF Goes, Falls
<1>2. CASE AnswerPlanQuestions \/ ResumePlan \/ ExecutePlanRetry
  BY <1>2 DEF AnswerPlanQuestions, ResumePlan, ExecutePlanRetry, Goes, Looping
<1>3. QED
  BY <1>1, <1>2

LEMMA ValidationGoes ==
  ASSUME Types, PendingInv, ValidatePlan
  PROVE  Goes
PROOF
<1>1. pc = "validate_plan" /\ pc' = AfterValidation' /\ sup' = sup /\ rt' = rt
  BY DEF ValidatePlan, AcceptPlan, ResumePass, AcceptRepair, ScheduleRegeneration, ExhaustRepair,
     RejectPlan, frame
<1>2. CASE accepted
  BY <1>1, <1>2 DEF Goes, Looping
<1>3. CASE ~accepted
  <2>1. ~pending
    BY <1>1, <1>3 DEF PendingInv
  <2>2. Rank = 15
    BY <1>1 DEF Rank, RankAt
  <2>3. CASE AcceptPlan
    <3>1. Budgets' = Budgets
      BY <1>1, <2>3, NothingSpent DEF AcceptPlan, Untouched
    <3>2. report' = "valid" /\ ~accepted' /\ HasPlan'
      BY <2>3 DEF AcceptPlan, IsValid, HasPlan
    <3>3. pc' = "assess_plan_capability"
      BY <1>1, <3>2 DEF AfterValidation
    <3>4. Rank' = 14
      BY <3>3 DEF Rank, RankAt
    <3>5. QED
      BY <2>2, <3>1, <3>4 DEF Goes, Falls
  <2>4. CASE ResumePass \/ ScheduleRegeneration
    <3>1. retry <= MaxRetries /\ retry' = Bump(retry) /\ expert' = expert
      BY <2>4, BudgetTypes DEF ResumePass, ScheduleRegeneration
    <3>2. QED
      BY <1>1, <3>1, RetrySpent DEF Goes, Falls
  <2>5. CASE AcceptRepair
    <3>1. accepted'
      BY <2>5 DEF AcceptRepair
    <3>2. pc' = "validate_plan"
      BY <1>1, <3>1 DEF AfterValidation
    <3>3. QED
      BY <3>1, <3>2 DEF Goes, Looping
  <2>6. CASE ExhaustRepair \/ RejectPlan
    <3>1. Untouched /\ pending' = pending /\ accepted' = accepted /\ report' = "reflect"
      BY <1>1, <2>6 DEF ExhaustRepair, RejectPlan, Untouched
    <3>2. Budgets' = Budgets
      BY <1>1, <3>1, NothingSpent
    <3>3. CASE retry' < MaxRetries
      <4>1. pc' \in {"save_record", "reflect_plan", "repair_plan_format"}
        BY <1>1, <1>3, <2>1, <3>1 DEF AfterValidation
      <4>2. ~(retry' > MaxRetries)
        BY <3>1, <3>3, BudgetTypes DEF Untouched
      <4>3. Rank' <= 3
        BY <4>1, <4>2 DEF Rank, RankAt
      <4>4. QED
        BY <2>2, <3>2, <4>1, <4>3, <4>2 DEF Goes, Falls, Rank, RankAt
    <3>4. CASE ~(retry' < MaxRetries)
      <4>1. pc' = "save_record"
        BY <1>1, <1>3, <3>1, <3>4 DEF AfterValidation, RetriesLeft
      <4>2. Rank' = 1
        BY <4>1 DEF Rank, RankAt
      <4>3. QED
        BY <2>2, <3>2, <4>2 DEF Goes, Falls
    <3>5. QED
      BY <3>3, <3>4
  <2>7. QED
    BY <2>3, <2>4, <2>5, <2>6 DEF ValidatePlan
<1>4. QED
  BY <1>2, <1>3

LEMMA RevisionGoes ==
  ASSUME Types, PendingInv, RepairPlanFormat \/ ReflectPlan \/ AssessPlan
  PROVE  Goes
PROOF
<1>1. CASE RepairPlanFormat
  <2>1. /\ retry <= MaxRetries /\ retry' = Bump(retry) /\ expert'.rounds = expert.rounds
        /\ sup' = sup /\ rt'.count = rt.count /\ rt'.proposals = rt.proposals
        /\ rt'.transient = rt.transient
    BY <1>1, BudgetTypes DEF RepairPlanFormat, Types, ExpertTypes, RtTypes
  <2>2. QED
    BY <2>1, RetrySpent DEF Goes, Falls
<1>2. CASE ReflectPlan
  <2>1. /\ retry' = Bump(retry) /\ expert'.rounds = expert.rounds
        /\ sup' = sup /\ rt'.count = rt.count /\ rt'.proposals = rt.proposals
        /\ rt'.transient = rt.transient /\ pending' = pending
        /\ pc = "reflect_plan" /\ pc' = "validate_plan"
    BY <1>2 DEF ReflectPlan, Types, ExpertTypes, RtTypes
  <2>2. CASE retry <= MaxRetries
    BY <2>1, <2>2, RetrySpent DEF Goes, Falls
  <2>3. CASE retry > MaxRetries
    <3>1. Untouched
      BY <2>1, <2>3 DEF Bump, Untouched
    <3>2. Budgets' = Budgets
      BY <2>1, <3>1, NothingSpent
    <3>3. Rank = 19 /\ Rank' = 15
      BY <2>1, <2>3 DEF Rank, RankAt
    <3>4. QED
      BY <3>2, <3>3 DEF Goes, Falls
  <2>4. QED
    BY <2>2, <2>3, BudgetTypes
<1>3. CASE AssessPlan
  <2>1. /\ expert' = expert /\ sup' = sup
        /\ rt'.count = rt.count /\ rt'.proposals = rt.proposals /\ rt'.transient = rt.transient
        /\ pc = "assess_plan_capability" /\ pc' = "run_supervisor"
    BY <1>3 DEF AssessPlan, Types, RtTypes
  <2>2. CASE retry > MaxRetries
    BY <2>1, <2>2 DEF Goes, Looping
  <2>3. CASE retry <= MaxRetries /\ Injects /\ Incremental
    BY <1>3, <2>1, <2>3, RetrySpent DEF AssessPlan, Goes, Falls
  <2>4. CASE retry <= MaxRetries /\ ~(Injects /\ Incremental)
    <3>1. retry' = retry /\ pending' = pending
      BY <1>3, <2>4 DEF AssessPlan
    <3>2. Budgets' = Budgets
      BY <2>1, <3>1, NothingSpent DEF Untouched
    <3>3. ~(retry' > MaxRetries)
      BY <2>4, <3>1, BudgetTypes
    <3>4. Rank = 14 /\ Rank' = 13
      BY <2>1, <3>3 DEF Rank, RankAt
    <3>5. QED
      BY <3>2, <3>4 DEF Goes, Falls
  <2>5. QED
    BY <2>2, <2>3, <2>4, BudgetTypes
<1>4. QED
  BY <1>1, <1>2, <1>3

LEMMA SupervisionGoes ==
  ASSUME Types, SuperviseRun
  PROVE  Goes
PROOF
<1>1. /\ pc = "run_supervisor" /\ pc' = AfterSupervisor' /\ config' = config
      /\ Untouched /\ pending' = pending /\ retry' = retry
  BY DEF SuperviseRun, planVars, frame, Untouched
<1> DEFINE Keeps == /\ sup'.count = sup.count /\ sup'.gaveUp = sup.gaveUp
                   /\ sup'.override = sup.override
<1>2. CASE Keeps
  <2>1. config.supervisor = "off" \/ sup.gaveUp
    <3>1. CASE config.supervisor # "off" /\ Exhausted
      <4>1. sup' = [sup EXCEPT !.gaveUp = TRUE]
        BY <3>1 DEF SuperviseRun
      <4>2. sup'.gaveUp = TRUE
        BY <4>1 DEF Types, SupTypes
      <4>3. QED
        BY <1>2, <4>2
    <3>2. CASE config.supervisor # "off" /\ ~Exhausted
      <4>1. sup'.count = sup.count + 1
        BY <3>2 DEF SuperviseRun
      <4>2. QED
        BY <1>2, <4>1, BudgetTypes
    <3>3. QED
      BY <3>1, <3>2
  <2>2. Budgets' = Budgets
    BY <1>1, <1>2, NothingSpent
  <2>3. Rank = IF retry > MaxRetries THEN 20 ELSE 13
    BY <1>1 DEF Rank, RankAt
  <2>4. CASE config.supervisor = "controlled_route" /\ sup.override = "generate_plan"
    BY <1>1, <2>1, <2>4 DEF Goes, Looping
  <2>5. CASE pending
    <3>1. pc' = "generate_plan"
      BY <1>1, <2>5 DEF AfterSupervisor
    <3>2. Rank' = 2
      BY <1>1, <2>5, <3>1 DEF Rank, RankAt
    <3>3. QED
      BY <2>2, <2>3, <3>2 DEF Goes, Falls
  <2>6. CASE ~pending /\ ~(config.supervisor = "controlled_route" /\ sup.override = "generate_plan")
    <3>1. pc' \in {"render_plan_script", "ask_expert", "save_record", "reflect_plan"}
      BY <1>1, <1>2, <2>6 DEF AfterSupervisor, Types, SupTypes, Routes
    <3>2. CASE pc' = "reflect_plan"
      <4>1. Rank' = IF retry > MaxRetries THEN 19 ELSE 3
        BY <1>1, <3>2 DEF Rank, RankAt
      <4>2. QED
        BY <2>2, <2>3, <4>1 DEF Goes, Falls
    <3>3. CASE pc' # "reflect_plan"
      <4>1. Rank' \in 0 .. 12
        BY <3>1, <3>3 DEF Rank, RankAt
      <4>2. QED
        BY <2>2, <2>3, <4>1 DEF Goes, Falls
    <3>4. QED
      BY <3>2, <3>3
  <2>7. QED
    BY <2>4, <2>5, <2>6, BudgetTypes
<1>3. CASE config.supervisor # "off" /\ Exhausted
  <2>1. sup' = [sup EXCEPT !.gaveUp = TRUE]
    BY <1>3 DEF SuperviseRun
  <2>2. sup'.count = sup.count /\ sup'.gaveUp = TRUE /\ sup'.override = sup.override
    BY <2>1 DEF Types, SupTypes
  <2>3. CASE sup.gaveUp
    <3>1. sup.gaveUp = TRUE
      BY <2>3, BudgetTypes
    <3>2. QED
      BY <1>2, <2>2, <3>1
  <2>4. CASE ~sup.gaveUp
    BY <1>1, <2>2, <2>4, FlagSpent DEF Goes, Falls
  <2>5. QED
    BY <2>3, <2>4
<1>4. CASE config.supervisor # "off" /\ ~Exhausted
  <2>1. sup'.count = sup.count + 1
    BY <1>4 DEF SuperviseRun
  <2>2. DecisionsToGo' = DecisionsToGo - 1
    BY <2>1, BudgetTypes DEF DecisionsToGo
  <2>3. RetriesToGo' = RetriesToGo /\ RoundsToGo' = RoundsToGo /\ RepairsToGo' = RepairsToGo
    BY <1>1 DEF Untouched, RetriesToGo, RoundsToGo, RepairsToGo
  <2>4. RetriesToGo' = RetriesToGo - 0 /\ RoundsToGo' = RoundsToGo - 0
        /\ RepairsToGo' = RepairsToGo - 0
    BY <2>3, BudgetTypes
  <2>5. QED
    BY <1>1, <2>2, <2>4, BudgetSpent DEF Goes, Falls
<1>5. QED
  BY <1>2, <1>3, <1>4 DEF SuperviseRun

LEMMA ExpertGoes ==
  ASSUME Types,
         SkipExpert \/ HearExpert \/ ClassifyFeedback \/ ApplyFeedback \/ RefuseFeedback
  PROVE  Goes
PROOF
<1>1. CASE SkipExpert
  <2>1. /\ pc = "ask_expert" /\ pc' = AfterExpert' /\ sup' = sup
        /\ expert'.rounds = expert.rounds /\ expert'.action = "none"
        /\ Untouched /\ pending' = pending /\ report' = report
    BY <1>1 DEF SkipExpert, planVars, frame, Untouched, Types, ExpertTypes
  <2>2. Budgets' = Budgets
    BY <2>1, NothingSpent
  <2>3. pc' = "save_record" \/ (pc' = "render_plan_script" /\ report = "valid")
    BY <2>1 DEF AfterExpert, AfterCapability
  <2>4. Rank' < Rank
    BY <2>1, <2>3 DEF Rank, RankAt
  <2>5. QED
    BY <2>2, <2>4 DEF Goes, Falls
<1>2. CASE HearExpert
  <2>1. expert'.rounds = expert.rounds + 1
    <3>1. \/ \E stop \in BOOLEAN :
               expert' = [ rounds |-> expert.rounds + 1, action |-> "continue",
                           regenerate |-> FALSE, abort |-> stop, asked |-> TRUE ]
          \/ expert' = [expert EXCEPT !.rounds = @ + 1, !.action = "classify",
                                      !.regenerate = FALSE, !.asked = TRUE]
      BY <1>2 DEF HearExpert
    <3>2. ASSUME NEW stop \in BOOLEAN,
                 expert' = [ rounds |-> expert.rounds + 1, action |-> "continue",
                             regenerate |-> FALSE, abort |-> stop, asked |-> TRUE ]
          PROVE  expert'.rounds = expert.rounds + 1
      BY <3>2
    <3>3. CASE expert' = [expert EXCEPT !.rounds = @ + 1, !.action = "classify",
                                        !.regenerate = FALSE, !.asked = TRUE]
      BY <3>3 DEF Types, ExpertTypes
    <3>4. QED
      BY <3>1, <3>2, <3>3
  <2>2. RoundsToGo' = RoundsToGo - 1
    BY <2>1, BudgetTypes DEF RoundsToGo
  <2>3. RetriesToGo' = RetriesToGo /\ DecisionsToGo' = DecisionsToGo /\ RepairsToGo' = RepairsToGo
        /\ pending' = pending
    BY <1>2 DEF HearExpert, frame, RetriesToGo, DecisionsToGo, RepairsToGo
  <2>4. RetriesToGo' = RetriesToGo - 0 /\ DecisionsToGo' = DecisionsToGo - 0
        /\ RepairsToGo' = RepairsToGo - 0
    BY <2>3, BudgetTypes
  <2>5. QED
    BY <2>2, <2>3, <2>4, BudgetSpent DEF Goes, Falls
<1>3. CASE ClassifyFeedback \/ ApplyFeedback \/ RefuseFeedback
  <2>1. sup' = sup /\ expert'.rounds = expert.rounds /\ Untouched /\ pending' = pending
    BY <1>3 DEF ClassifyFeedback, ApplyFeedback, RefuseFeedback, planVars, frame, Untouched,
       Types, ExpertTypes, RtTypes
  <2>2. Budgets' = Budgets
    BY <2>1, NothingSpent
  <2>3. CASE ClassifyFeedback
    <3>1. pc' \in {"patch_plan", "generate_plan", "render_plan_script", "save_record"}
      BY <2>3 DEF ClassifyFeedback, AfterFeedback, AfterCapability
    <3>2. Rank = 18 /\ Rank' < 18
      BY <2>3, <3>1 DEF ClassifyFeedback, Rank, RankAt
    <3>3. QED
      BY <2>2, <3>2 DEF Goes, Falls
  <2>4. CASE ApplyFeedback \/ RefuseFeedback
    <3>1. pc = "patch_plan" /\ pc' \in {"generate_plan", "validate_plan"}
      BY <2>4 DEF ApplyFeedback, RefuseFeedback, AfterPatch
    <3>2. Rank = 17 /\ Rank' < 17
      BY <3>1 DEF Rank, RankAt
    <3>3. QED
      BY <2>2, <3>2 DEF Goes, Falls
  <2>5. QED
    BY <1>3, <2>3, <2>4
<1>4. QED
  BY <1>1, <1>2, <1>3

LEMMA ExecutionGoes ==
  ASSUME Types, RenderPlanScript \/ ExecuteTools \/ ClassifyRuntimeFeedback \/ SaveRecord
  PROVE  Goes
PROOF
<1>1. sup' = sup /\ Untouched /\ pending' = pending /\ retry' = retry /\ config' = config
  BY DEF RenderPlanScript, SkipRender, WriteScript, FailRender, ExecuteTools,
     ClassifyRuntimeFeedback, SaveRecord, planVars, Untouched, Types, RtTypes
<1>2. Budgets' = Budgets
  BY <1>1, NothingSpent
<1>3. CASE RenderPlanScript
  <2>1. pc = "render_plan_script" /\ pc' = "execute_tools"
    BY <1>3 DEF RenderPlanScript, SkipRender, WriteScript, FailRender
  <2>2. Rank = 11 /\ Rank' = 10
    BY <2>1 DEF Rank, RankAt
  <2>3. QED
    BY <1>2, <2>2 DEF Goes, Falls
<1>4. CASE ExecuteTools
  <2>1. pc = "execute_tools" /\ pc' = AfterExecution'
    BY <1>4 DEF ExecuteTools, SkipExecution, SkipTools, PassTools, FailTools, RunTools
  <2>2. \/ pc' \in {"runtime_supervisor", "classify_runtime_feedback", "save_record"}
        \/ pc' = "ask_expert" /\ report' # "valid"
        \/ pc' = "reflect_plan" /\ retry' < MaxRetries
    BY <2>1 DEF AfterExecution
  <2>3. retry' < MaxRetries => ~(retry' > MaxRetries)
    BY <1>1, BudgetTypes
  <2>4. Rank = 10 /\ Rank' < 10
    BY <2>1, <2>2, <2>3 DEF Rank, RankAt
  <2>5. QED
    BY <1>2, <2>4 DEF Goes, Falls
<1>5. CASE ClassifyRuntimeFeedback
  <2>1. pc = "classify_runtime_feedback"
        /\ pc' \in {"runtime_supervisor", "save_record", "deterministic_runtime_repair",
                    "llm_runtime_diagnose"}
    BY <1>5 DEF ClassifyRuntimeFeedback, AfterClassification
  <2>2. Rank = 9 /\ Rank' < 9
    BY <2>1 DEF Rank, RankAt
  <2>3. QED
    BY <1>2, <2>2 DEF Goes, Falls
<1>6. CASE SaveRecord
  <2>1. Rank = 1 /\ Rank' = 0
    BY <1>6 DEF SaveRecord, Rank, RankAt
  <2>2. QED
    BY <1>2, <2>1 DEF Goes, Falls
<1>7. QED
  BY <1>3, <1>4, <1>5, <1>6

LEMMA RecoveryGoes ==
  ASSUME Types, RepairStartInv, DeterministicRepair \/ Diagnose \/ Propose \/ SuperviseRuntime
  PROVE  Goes
PROOF
<1>1. /\ sup' = sup /\ expert' = expert /\ pending' = pending /\ retry' = retry
      /\ config' = config
  BY DEF DeterministicRepair, Diagnose, Propose, SuperviseRuntime, planVars
<1>2. CASE DeterministicRepair
  <2>1. CASE Failed /\ rt.count < MaxDeterministic
    <3>1. rt'.count = rt.count + 1 /\ rt'.proposals = rt.proposals
          /\ rt'.transient = rt.transient
      BY <1>2, <2>1 DEF DeterministicRepair, RefuseRepair, CommitRepair, Types, RtTypes
    <3>2. QED
      BY <1>1, <3>1, RepairSpent DEF Goes, Falls
  <2>2. CASE ~(Failed /\ rt.count < MaxDeterministic)
    <3>1. rt' = rt /\ pc = "deterministic_runtime_repair" /\ pc' = AfterRepair'
      BY <1>2, <2>2 DEF DeterministicRepair
    <3>2. ~rt'.applied /\ ~config'.recovery
      BY <1>1, <2>2, <3>1 DEF RepairStartInv
    <3>3. pc' \in {"llm_runtime_diagnose", "save_record"}
      BY <3>1, <3>2 DEF AfterRepair
    <3>4. Rank = 7 /\ Rank' < 7
      BY <3>1, <3>3 DEF Rank, RankAt
    <3>5. Budgets' = Budgets
      BY <1>1, <3>1, NothingSpent DEF Untouched
    <3>6. QED
      BY <3>4, <3>5 DEF Goes, Falls
  <2>3. QED
    BY <2>1, <2>2
<1>3. CASE Diagnose
  <2>1. Untouched
    BY <1>1, <1>3 DEF Diagnose, Untouched, Types, RtTypes
  <2>2. Budgets' = Budgets
    BY <1>1, <2>1, NothingSpent
  <2>3. pc = "llm_runtime_diagnose" /\ pc' \in {"llm_runtime_propose", "save_record"}
    BY <1>3 DEF Diagnose, AfterDiagnosis
  <2>4. Rank = 6 /\ Rank' < 6
    BY <2>3 DEF Rank, RankAt
  <2>5. QED
    BY <2>2, <2>4 DEF Goes, Falls
<1>4. CASE Propose
  <2>1. rt'.proposals = rt.proposals + 1 /\ rt'.count = rt.count
        /\ rt'.transient = rt.transient
    BY <1>4 DEF Propose, RejectProposal, CommitProposal, Types, RtTypes
  <2>2. QED
    BY <1>1, <2>1, RepairSpent DEF Goes, Falls
<1>5. CASE SuperviseRuntime
  <2>1. PICK a \in RuntimeActions :
          /\ rt' = [rt EXCEPT !.action = a,
                              !.iterations = IF @ < MaxIterations THEN @ + 1 ELSE @,
                              !.transient = IF a = "retry_same_plan" THEN @ + 1 ELSE @,
                              !.noProgress = @ \/ Repeats]
          /\ report' = IF ClearsReport(a) THEN "valid" ELSE report
    BY <1>5 DEF SuperviseRuntime
  <2>2. /\ rt'.action = a /\ rt'.count = rt.count /\ rt'.proposals = rt.proposals
        /\ rt'.transient = IF a = "retry_same_plan" THEN rt.transient + 1 ELSE rt.transient
    BY <2>1 DEF Types, RtTypes
  <2>3. CASE a = "retry_same_plan"
    BY <1>1, <2>2, <2>3, RepairSpent DEF Goes, Falls
  <2>4. CASE a # "retry_same_plan"
    <3>1. Budgets' = Budgets
      BY <1>1, <2>2, <2>4, NothingSpent DEF Untouched
    <3>2. pc = "runtime_supervisor" /\ pc' = AfterRecovery' /\ report' = report
      BY <1>5, <2>1, <2>4 DEF SuperviseRuntime, ClearsReport
    <3>3. \/ pc' \in {"deterministic_runtime_repair", "llm_runtime_diagnose", "save_record"}
          \/ pc' = "ask_expert" /\ a = "request_human_confirmation"
      BY <2>2, <2>4, <3>2 DEF AfterRecovery
    <3>4. a = "request_human_confirmation" => report # "valid"
      BY DEF RuntimeActions, Report, FixableChoice, TransientChoice
    <3>5. Rank = 8 /\ Rank' < 8
      BY <3>2, <3>3, <3>4 DEF Rank, RankAt
    <3>6. QED
      BY <3>1, <3>5 DEF Goes, Falls
  <2>5. QED
    BY <2>3, <2>4
<1>6. QED
  BY <1>2, <1>3, <1>4, <1>5

-----------------------------------------------------------------------------
(* Only the named loops are unbounded.  A step that starts and ends        *)
(* outside the five loops of UnboundedLoops lowers RunLeft, a natural      *)
(* number: a run that meets those loops finitely often has finitely many   *)
(* steps.  The routers of graph.py are read here with every budget they    *)
(* test, those of the retries, the expert, the supervisor and the runtime  *)
(* repairs.  It is the part of EndsOrLoops that is about single steps;     *)
(* that the next step is taken is fairness.                                *)
OnlyTheLoopsRepeat == [][Looping \/ Looping' \/ RunLeft' < RunLeft]_vars

LEMMA BudgetsAreNat == Types => Budgets \in Nat
PROOF BY BudgetTypes

LEMMA NextBudgetsAreNat == Types' => Budgets' \in Nat
PROOF
<1> DEFINE Counted == Types => Budgets \in Nat
<1>1. Counted
  BY BudgetsAreNat
<1>2. Counted'
  BY <1>1, PTL
<1>3. QED
  BY <1>2

LEMMA RunLeftFalls ==
  ASSUME Types, Types', PendingInv, RepairStartInv, Next
  PROVE  Looping \/ Looping' \/ RunLeft' < RunLeft
PROOF
<1>1. Goes
  <2>1. CASE GeneratePlan \/ ValidatePlan
    BY <2>1, GenerationGoes, ValidationGoes
  <2>2. CASE StopUnanswered \/ AnswerPlanQuestions \/ ResumePlan \/ ExecutePlanRetry
    BY <2>2, QuestionsGo
  <2>3. CASE RepairPlanFormat \/ ReflectPlan \/ AssessPlan
    BY <2>3, RevisionGoes
  <2>4. CASE SuperviseRun
    BY <2>4, SupervisionGoes
  <2>5. CASE SkipExpert \/ HearExpert \/ ClassifyFeedback \/ ApplyFeedback \/ RefuseFeedback
    BY <2>5, ExpertGoes
  <2>6. CASE RenderPlanScript \/ ExecuteTools \/ ClassifyRuntimeFeedback \/ SaveRecord
    BY <2>6, ExecutionGoes
  <2>7. CASE DeterministicRepair \/ Diagnose \/ Propose \/ SuperviseRuntime
    BY <2>7, RecoveryGoes
  <2>8. QED
    BY <2>1, <2>2, <2>3, <2>4, <2>5, <2>6, <2>7
       DEF Next, Machine, PlanningNext, Human, RuntimeNext
<1>2. Budgets \in Nat /\ Rank \in 0 .. 20
  BY BudgetTypes, RankType DEF Rank
<1>3. Budgets' \in Nat /\ Rank' \in 0 .. 20
  BY NextBudgetsAreNat, RankType DEF Rank
<1>4. Falls => RunLeft' < RunLeft
  <2>1. \A b, c \in Nat, r, s \in 0 .. 20 :
          b < c \/ (b = c /\ r < s) => 21 * b + r < 21 * c + s
    OBVIOUS
  <2>2. QED
    BY <1>2, <1>3, <2>1 DEF Falls, RunLeft
<1>5. QED
  BY <1>1, <1>4 DEF Goes

THEOREM OnlyNamedLoops == Spec => [](RunLeft \in Nat) /\ OnlyTheLoopsRepeat
PROOF
<1> DEFINE RunInv == RepairInv /\ PendingInv /\ RepairStartInv
<1>1. Init => PendingInv /\ RepairStartInv
  BY DEF Init, PendingInv, RepairStartInv
<1>2. RepairInv /\ PendingInv /\ RepairStartInv /\ [Next]_vars => PendingInv' /\ RepairStartInv'
  BY PendingStep, RepairStartStep DEF RepairInv
<1>3. RepairInv => RunLeft \in Nat
  <2>1. ASSUME RepairInv
        PROVE  RunLeft \in Nat
    <3>1. Budgets \in Nat /\ Rank \in 0 .. 20
      BY <2>1, BudgetTypes, RankType DEF Rank, RepairInv
    <3>2. QED
      BY <3>1 DEF RunLeft
  <2>2. QED
    BY <2>1
<1>4. RepairInv /\ RepairInv' /\ PendingInv /\ RepairStartInv /\ [Next]_vars =>
        [Looping \/ Looping' \/ RunLeft' < RunLeft]_vars
  BY RunLeftFalls DEF RepairInv
<1>5. QED
  BY <1>1, <1>2, <1>3, <1>4, RepairInvariant, PTL DEF Spec, OnlyTheLoopsRepeat
=========================================================================
