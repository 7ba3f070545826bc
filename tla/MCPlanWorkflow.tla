--------------------------- MODULE MCPlanWorkflow ---------------------------
(***************************************************************************)
(* Small instances of PlanWorkflow: one configuration of the graph per     *)
(* half that it exercises.                                                 *)
(***************************************************************************)
EXTENDS PlanWorkflow

CONSTANTS owned, unowned,                        \* defects
          rejection, sourceBox, overlap, noData, flake   \* runtime failures

Plan(kind, defects) == [kind |-> kind, defects |-> defects]

MCPlans == { Plan("runnable", {}), Plan("runnable", {owned}), Plan("runnable", {owned, unowned}),
             Plan("unconfirmed", {}), Plan("typo", {}), Plan("structural", {}),
             Plan("unsupported", {}) }

Base == [ planning |-> "incremental", controlled |-> FALSE, interactive |-> FALSE,
          supervisor |-> "off", fallback |-> TRUE, recovery |-> FALSE, llmRepair |-> "off" ]

MCPlanningConfigs ==
  { [Base EXCEPT !.planning = "monolithic"],
    [Base EXCEPT !.controlled = TRUE, !.interactive = TRUE],
    [Base EXCEPT !.supervisor = "controlled_route", !.fallback = FALSE],
    [Base EXCEPT !.planning = "monolithic", !.supervisor = "controlled_route"] }
MCRuntimeConfigs ==
  { [Base EXCEPT !.llmRepair = "apply_if_safe"],
    [Base EXCEPT !.recovery = TRUE, !.llmRepair = "apply_if_safe"] }
MCConfigs == MCPlanningConfigs \cup MCRuntimeConfigs
MCSupervised == { [Base EXCEPT !.supervisor = "controlled_route"] }
MCProposing == { [Base EXCEPT !.recovery = TRUE, !.llmRepair = "apply_if_safe"] }

(* The entries of runtime_repair_policy.py the failures stand for.         *)
Entry(class, det, diagnose, propose, report_) ==
  [ class |-> class, det |-> det, diagnose |-> diagnose, propose |-> propose,
    preflight |-> FALSE, report |-> report_ ]
MCPolicy ==
  [ f \in Failures |->
      CASE f = rejection -> Entry("plan_fixable", TRUE, TRUE, FALSE, "reflect")
        [] f = sourceBox -> [Entry("plan_fixable", TRUE, FALSE, FALSE, "reflect") EXCEPT !.preflight = TRUE]
        [] f = overlap   -> Entry("plan_fixable", FALSE, TRUE, TRUE, "reflect")
        [] f = noData    -> Entry("environment", FALSE, FALSE, FALSE, "ask")
        [] f = flake     -> Entry("transient", FALSE, FALSE, FALSE, "block")
        [] OTHER         -> Entry("unknown", FALSE, FALSE, FALSE, "reflect") ]
=============================================================================
