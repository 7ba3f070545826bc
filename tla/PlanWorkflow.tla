---------------------------- MODULE PlanWorkflow ----------------------------
(***************************************************************************)
(* The plan workflow: build_plan_graph's nodes and routers (PlanningNodes, *)
(* RuntimeNodes) as one specification, and what a run of it promises.      *)
(***************************************************************************)
EXTENDS PlanningNodes, RuntimeNodes

Machine == PlanningNext \/ RuntimeNext
Next == Machine \/ Human

(* The graph runtime executes the node it is at; a person may never answer. *)
Spec == Init /\ [][Next]_vars
FairSpec == Spec /\ WF_vars(Machine)

-----------------------------------------------------------------------------
TypeOK ==
  /\ pc \in Nodes /\ config \in Configs
  /\ plan \in PlanValues \cup {NoPlan}
  /\ report \in {"none", "valid"} \cup InvalidReports
  /\ error \in {"none", "incremental", "other"}
  /\ retry \in 0 .. MaxRetries + 1 /\ pending \in BOOLEAN /\ accepted \in BOOLEAN
  /\ pass \in Passes /\ build \in Revisions \cup {NoBuild}
  /\ repairs \in [attempts : [SUBSET Defects -> 0 .. 2], regenerated : SUBSET SUBSET Defects]
  /\ hints \in [capErrors : BOOLEAN, rawOut : BOOLEAN, patchFailures : 0 .. 2, patchError : BOOLEAN]
  /\ expert \in [rounds : 0 .. MaxExpertRounds,
                 action : {"none", "continue", "classify", "patch_plan", "regenerate_plan"},
                 regenerate : BOOLEAN, abort : BOOLEAN, asked : BOOLEAN]
  /\ DOMAIN sup = {"count", "last", "same", "override", "gaveUp"}
  /\ sup.count \in 0 .. MaxDecisions /\ sup.same \in 0 .. MaxDecisions
  /\ sup.override \in Nodes \cup {"none"} /\ sup.gaveUp \in BOOLEAN
  /\ rt \in [count : 0 .. MaxDeterministic, tried : SUBSET Failures, applied : BOOLEAN,
             commits : Nat, repaired : SUBSET Failures,
             lastCommitted : Failures \cup {NoFailure}, primary : Failures \cup {NoFailure},
             diagnoses : 0 .. 1, diagnosis : {"none", "blocked", "allowed"},
             proposals : 0 .. 1, iterations : 0 .. MaxIterations, transient : 0 .. MaxTransient,
             noProgress : BOOLEAN,
             action : {"none", "stop", "finish_success", "attempt_deterministic_repair",
                       "attempt_llm_repair", "retry_same_plan", "request_human_confirmation"},
             unassessed : BOOLEAN]
  /\ files \in [script : {"none", "current", "old"}, path : BOOLEAN, ran : BOOLEAN,
                failure : Failures \cup {NoFailure}, fresh : BOOLEAN]

-----------------------------------------------------------------------------
(* Only a plan the validator found nothing wrong with is rendered and run, *)
(* whichever of generation, repair, reflection, feedback or runtime repair *)
(* wrote it: no replacement of the plan rides on the report of another     *)
(* one.                                                                    *)
OnlyValidPlansRendered == files.script = "current" => IsValid(plan)

(* A run ends ok only if the tools passed on the plan it ends with.  Where *)
(* a person aborts, or the supervisor sends the run to its end, the        *)
(* outcome is read off whatever results there were.                        *)
Cut == expert.abort \/ sup.override = "save_record"
OkIsEarned == pc = "done" /\ Outcome = "ok" /\ ~Cut => files.fresh /\ files.failure = NoFailure

(* A plan with open confirmations is rendered only after its questions     *)
(* went past the expert node, unless the supervisor had given up deciding  *)
(* and its last decision, made for another plan, is followed again.        *)
NoConfirmationBypass ==
  files.script = "current" /\ plan.kind = "unconfirmed" => expert.asked \/ sup.gaveUp

(* A runtime failure is repaired by at most one commit, deterministic or   *)
(* proposed, however often it returns.                                     *)
CommittedOnce == rt.commits = Cardinality(rt.repaired)

(* The retry count goes past its limit only for a lattice typo, which has  *)
(* a repair that needs no model.                                           *)
OnlyAutoRepairPastBudget ==
  [][retry' > MaxRetries /\ retry <= MaxRetries => plan.kind = "typo"]_vars

(* A regeneration scheduled below the retry limit is run, unless a repair  *)
(* accepted before it left the validation router looping.                  *)
ScheduledRegenerationRuns ==
  (pending /\ ~accepted /\ retry < MaxRetries) ~> (pc = "generate_plan" \/ accepted)

(* A run ends, waits for a person, or is in one of the loops the code does *)
(* not bound: the retry requests and the answered gate questions of the    *)
(* planner, an accepted repair that left defects, a lattice typo whose     *)
(* automatic repair changes nothing, and a supervisor that gave up on a    *)
(* decision to generate.                                                   *)
Waiting == pc = "ask_plan_expert" \/ pc = "ask_expert"
UnboundedLoops ==
  \/ []<>(pc = "execute_plan_retry")
  \/ []<>(pc = "resume_plan_closed_loop")
  \/ []<>(pc = "validate_plan" /\ accepted)
  \/ []<>(pc = "assess_plan_capability" /\ retry > MaxRetries)
  \/ []<>(pc = "run_supervisor" /\ sup.gaveUp /\ sup.override = "generate_plan")
EndsOrLoops == <>(pc = "done") \/ <>[]Waiting \/ UnboundedLoops

(* A committed runtime repair is rendered: "accepted + apply_if_safe ->    *)
(* commit -> render -> reexecute" (docs/runtime_llm_repair_strategy.md).   *)
(* The renderer skips a plan whose report is not valid.                    *)
CommittedRepairIsRendered ==
  pc = "render_plan_script" /\ rt.unassessed => report = "valid"

=============================================================================
