------------------------------ MODULE FactsGate ------------------------------
(***************************************************************************)
(* The Facts gate of plan_builder/executor.py: the stage machine of        *)
(* closed_loop/controller.py, the review, the closure rounds that revise a *)
(* clone of the patch until a rereview is clean, the question to a human   *)
(* and its answer, and the reopening of an accepted gate.  RetryController *)
(* has one step for all of this (AcceptGate, RejectGate, BlockGate).       *)
(* A review is one pack of evidence; findings are those of severity error. *)
(* Artifacts, events and the validation and attempt counters of the stage, *)
(* which nothing reads, are left out; the task plan is RetryController's.  *)
(* An exception (InvalidPlanLoopTransition) ends the run: phase raised.    *)
(***************************************************************************)
EXTENDS Integers, FiniteSets

CONSTANTS
  Contents,        \* the facts patches there may be
  NoFacts,         \* there is no valid facts patch
  Violations,      \* findings of the deterministic checks
  Remarks,         \* findings of the reviewer
  Repairable,      \* those a model may repair
  Ambiguous,       \* those a human must decide
  Contract,        \* what the consistency preflight finds in each content
  Skeleton,        \* what the preflight against the skeleton finds in each
  Configs,         \* what a run can be configured with
  MaxReviews, MaxRepairs, MaxHumanRounds, MaxStalls,  \* budgets of the stage
  MaxAttempts,     \* revisions for one set of findings
  MaxCalls,        \* calls of reviewer and reviser, for all gates
  ClosureRounds    \* MAX_FACTS_REVISION_CLOSURE_ROUNDS

Findings == Violations \cup Remarks

(* closure_round_limit                                                     *)
RoundLimit == IF MaxRepairs > ClosureRounds THEN MaxRepairs ELSE ClosureRounds

ASSUME FactsAssumption ==
  /\ NoFacts \notin Contents
  /\ Repairable \subseteq Findings /\ Ambiguous \subseteq Findings
  /\ {Contract, Skeleton} \subseteq [Contents -> SUBSET Violations]

ASSUME ConfigAssumption ==
  Configs \subseteq [ mode : {"advisory", "controlled"},
                      investigation : {"off", "advisory", "controlled"},
                      reviewer : BOOLEAN, reviser : BOOLEAN, human : BOOLEAN ]

ASSUME BoundAssumption ==
  /\ {MaxReviews, MaxRepairs, MaxHumanRounds, MaxStalls, MaxAttempts, MaxCalls} \subseteq Nat
  /\ ClosureRounds \in Nat \ {0}

VARIABLES
  config,     \* the policy of the run and the clients it was given
  facts,      \* the content of the valid facts patch
  preflight,  \* facts_contract_preflight_issues
  featured,   \* planning_feature_contract is set
  stage,      \* plan_gate_facts: status and the counters the budgets read
  accepted,   \* accepted_input_hash
  inventory,  \* the facts planning_geometry_inventory was compiled from
  calls,      \* plan_loop_additional_llm_calls
  attempts,   \* plan_loop_issue_attempts_by_fingerprint
  tried,      \* plan_loop_candidate_hashes_by_fingerprint
  questions,  \* plan_human_questions, by the finding each is about
  answers,    \* plan_human_answers
  confirmed,  \* plan_confirmed_fact_records
  review,     \* the last review in facts_review_history or facts_revision_history
  local,      \* of the gate's call: input hash; candidate, findings, round of the closure
  phase,      \* where execute_incremental_plan_until_materials is
  outcome     \* what its last call returned

patch == << facts, preflight >>
gate == << featured, stage, accepted, inventory >>
ledgers == << attempts, tried >>
dialogue == << questions, answers, confirmed >>
vars == << config, patch, gate, calls, ledgers, dialogue, review, local, phase, outcome >>

-----------------------------------------------------------------------------
Controlled == config.mode = "controlled"
Investigating == config.investigation # "off"

(* facts_gate_input_hash.  Of the confirmed facts it has only the keys of  *)
(* the top level, which the first confirmation adds; of the feature        *)
(* contract, whether a gate has built it yet: it is the same all the run.  *)
InputHash(c, asked, built) == [ content |-> c, confirmed |-> asked # {}, contract |-> built ]
Hash == InputHash(facts, confirmed, featured)

NoHash == InputHash(NoFacts, {}, FALSE)
NoStage == [ status |-> "pending", reviews |-> 0, repairs |-> 0, humans |-> 0, stalls |-> 0 ]
NoReview == [ facts |-> NoFacts, answer |-> "unusable", complete |-> FALSE, found |-> {} ]
NoLocal == [ input |-> NoHash, candidate |-> NoFacts, findings |-> {}, round |-> 0 ]

Init ==
  /\ config \in Configs
  /\ facts = NoFacts /\ preflight = {}
  /\ featured = FALSE /\ stage = NoStage /\ accepted = NoHash /\ inventory = NoFacts
  /\ calls = 0
  /\ attempts = [ fs \in SUBSET Findings |-> 0 ]
  /\ tried = [ fs \in SUBSET Findings |-> {} ]
  /\ questions = {} /\ answers = {} /\ confirmed = {}
  /\ review = NoReview /\ local = NoLocal
  /\ phase = "idle" /\ outcome = "none"

(* transition_stage, where _ALLOWED has the transition.                    *)
Moved(status) == [ stage EXCEPT !.status = status ]

Return(o) == phase' = "idle" /\ local' = NoLocal /\ outcome' = o
Raise == phase' = "raised" /\ local' = NoLocal /\ outcome' = "raised"
Block(s) == stage' = [ s EXCEPT !.status = "blocked" ] /\ Return("blocked")

(* check_stage_budget, and the exhaustion in compute_allowed_actions, where *)
(* the reviews only count when there is something to block on.             *)
Exhausted(s, blocking) ==
  \/ calls >= MaxCalls
  \/ s.reviews >= MaxReviews /\ blocking
  \/ s.repairs >= MaxRepairs
  \/ s.humans >= MaxHumanRounds
  \/ s.stalls >= MaxStalls

(* Mutant: the budget is charged and not looked at.                        *)
ChargeUnchecked(n) == calls' = calls + n

(* run_structured_output_transaction: two calls at most, each charged and  *)
(* none made once the budget is spent.                                     *)
Charge(n) == calls + n <= MaxCalls /\ calls' = calls + n

(* run_facts_review of content c.  A review with findings is incomplete;   *)
(* two malformed answers make it schema_invalid; a provider's deadline, an *)
(* empty answer or a spent budget make it unusable.                        *)
ReviewOf(c) ==
  \E n \in 0..2, answer \in {"ok", "schema_invalid", "unusable"},
     complete \in BOOLEAN, found \in SUBSET Remarks :
    /\ Charge(n)
    /\ answer = "ok" => n > 0 /\ (complete => found = {})
    /\ answer # "ok" => ~complete /\ found = {}
    /\ answer = "schema_invalid" => n = 2
    /\ n = 0 => calls = MaxCalls
    /\ review' = [ facts |-> c, answer |-> answer, complete |-> complete, found |-> found ]

-----------------------------------------------------------------------------
(* A call of the executor on the state of the last one.                    *)
Resume ==
  /\ phase = "idle"
  /\ phase' = "plan"
  /\ UNCHANGED << config, patch, gate, calls, ledgers, dialogue, review, local, outcome >>

(* The same, with a rejection of the assembled plan that names the facts.  *)
ResumeRejected ==
  /\ phase = "idle" /\ outcome = "proceed" /\ facts # NoFacts
  /\ facts' = NoFacts /\ phase' = "plan"
  /\ UNCHANGED << config, preflight, gate, calls, ledgers, dialogue, review, local, outcome >>

(* The same, with answers of a human that no call has heard.               *)
ResumeAnswered ==
  LET heard == (questions \cap answers) \ confirmed IN
  /\ phase = "idle" /\ stage.status = "awaiting_human" /\ heard # {}
  /\ confirmed' = confirmed \cup heard
  /\ stage' = [ stage EXCEPT !.status = "repairing", !.humans = @ + 1 ]
  /\ facts' = NoFacts /\ phase' = "plan"
  /\ UNCHANGED << config, preflight, featured, accepted, inventory, calls, ledgers,
                  questions, answers, review, local, outcome >>

(* _resume_plan_closed_loop: the answer to a question is persisted.        *)
Answer ==
  /\ phase = "idle"
  /\ \E f \in questions \ answers : answers' = answers \cup {f}
  /\ UNCHANGED << config, patch, gate, calls, ledgers, questions, confirmed,
                  review, local, phase, outcome >>

(* RetryController commits another facts patch and invalidates the gate.   *)
OwnerCommits ==
  /\ phase = "idle" /\ outcome = "proceed" /\ Controlled /\ stage.status = "accepted"
  /\ facts' \in Contents \ {facts} /\ facts # NoFacts
  /\ stage' = Moved("pending") /\ outcome' = "none"
  /\ UNCHANGED << config, preflight, featured, accepted, inventory, calls, ledgers,
                  dialogue, review, local, phase >>

-----------------------------------------------------------------------------
(* Mutant: only a pending gate holds the planner up.                       *)
PassableUnlessPending == ~Controlled \/ stage.status # "pending"

(* _require_accepted_facts_gate, for a facts patch that is kept.           *)
Passable == ~Controlled \/ stage.status = "accepted"

Barrier ==
  /\ phase = "plan" /\ facts # NoFacts
  /\ \/ Passable /\ Return("proceed")
     \/ /\ ~Passable /\ stage.status = "pending"
        /\ phase' = "gate" /\ UNCHANGED << local, outcome >>
     \/ /\ ~Passable /\ stage.status # "pending"
        /\ Return(IF stage.status = "awaiting_human" THEN "awaiting_human" ELSE "blocked")
  /\ UNCHANGED << config, patch, gate, calls, ledgers, dialogue, review >>

Proposing == IF stage.status \in {"pending", "repairing"} THEN Moved("proposing") ELSE stage

(* The facts patch is generated; its preflight is stashed for the gate.    *)
Generate ==
  /\ phase = "plan" /\ facts = NoFacts
  /\ facts' \in Contents
  /\ preflight' = IF Investigating THEN Skeleton[facts'] ELSE preflight
  /\ stage' = Proposing /\ phase' = "gate"
  /\ UNCHANGED << config, featured, accepted, inventory, calls, ledgers, dialogue,
                  review, local, outcome >>

(* It is not: no attempt is valid, or the investigation blocks it.         *)
GenerationFails ==
  /\ phase = "plan" /\ facts = NoFacts
  /\ stage' = Proposing
  /\ \/ Return("failed")
     \/ config.investigation = "controlled" /\ Return("blocked")
  /\ UNCHANGED << config, patch, featured, accepted, inventory, calls, ledgers,
                  dialogue, review >>

(* _run_facts_gate: an accepted gate with the same inputs is kept.         *)
Reuse ==
  /\ phase = "gate" /\ stage.status = "accepted" /\ accepted = Hash
  /\ Return("proceed")
  /\ UNCHANGED << config, patch, gate, calls, ledgers, dialogue, review >>

(* Only these lead to reviewing; an accepted gate is reopened first.       *)
Reviewable == {"pending", "proposing", "validating", "accepted"}

EnterRaises ==
  /\ phase = "gate" /\ stage.status \notin Reviewable
  /\ Raise
  /\ UNCHANGED << config, patch, gate, calls, ledgers, dialogue, review >>

Entered == [ stage EXCEPT !.status = "reviewing", !.reviews = @ + 1 ]

(* The budget is looked at after this review was counted, in any mode.     *)
EnterBlocked ==
  /\ phase = "gate" /\ stage.status \in Reviewable
  /\ ~(stage.status = "accepted" /\ accepted = Hash)
  /\ Exhausted(Entered, TRUE)
  /\ Block(Entered)
  /\ UNCHANGED << config, patch, featured, accepted, inventory, calls, ledgers,
                  dialogue, review >>

Enter ==
  /\ phase = "gate" /\ stage.status \in Reviewable
  /\ ~(stage.status = "accepted" /\ accepted = Hash)
  /\ ~Exhausted(Entered, TRUE)
  /\ featured' = TRUE
  /\ \/ /\ config.reviewer
        /\ stage' = Entered /\ local' = [ local EXCEPT !.input = Hash ]
        /\ phase' = "review" /\ UNCHANGED outcome
     \/ /\ ~config.reviewer /\ Controlled
        /\ Block(Entered)
     \/ /\ ~config.reviewer /\ ~Controlled
        /\ stage' = [ Entered EXCEPT !.status = "review_failed" ] /\ Return("proceed")
  /\ UNCHANGED << config, patch, accepted, inventory, calls, ledgers, dialogue, review >>

Review ==
  /\ phase = "review"
  /\ ReviewOf(facts)
  /\ phase' = "decide"
  /\ UNCHANGED << config, patch, gate, ledgers, dialogue, local, outcome >>

-----------------------------------------------------------------------------
Deterministic == Contract[facts] \cup preflight
Errors == Deterministic \cup review.found
Blocking == Errors # {} \/ ~review.complete

(* An unusable review without a deterministic finding to act on.           *)
Unusable == review.answer # "ok" /\ Deterministic = {}

DecideAdvisory ==
  /\ phase = "decide" /\ ~Controlled
  /\ stage' = Moved(IF review.answer = "ok" /\ review.complete THEN "reviewed" ELSE "review_failed")
  /\ Return("proceed")
  /\ UNCHANGED << config, patch, featured, accepted, inventory, calls, ledgers,
                  dialogue, review >>

(* compute_allowed_actions, its first action, and a blocked gate otherwise. *)
Approves == ~Exhausted(stage, Blocking) /\ ~Blocking
Asks == ~Exhausted(stage, Blocking) /\ Errors \cap Ambiguous # {} /\ config.human
Revises ==
  /\ ~Exhausted(stage, Blocking)
  /\ Errors \cap Ambiguous = {} /\ Errors \cap Repairable # {}
  /\ config.reviser

(* Mutant: the gate is accepted after the inventory has been compiled.     *)
AcceptCompiled(c, h) ==
  \E compiled \in BOOLEAN :
    /\ compiled => Investigating
    /\ facts' = c /\ accepted' = h
    /\ inventory' = IF compiled THEN c ELSE inventory
    /\ IF config.investigation = "controlled" /\ ~compiled THEN Block(stage)
         ELSE stage' = Moved("accepted") /\ Return("proceed")

(* The gate accepts content c with the input hash h, and the geometry      *)
(* inventory is compiled from it.  When that fails, a controlled           *)
(* investigation moves the accepted stage to blocked, which is not allowed. *)
Accept(c, h) ==
  \E compiled \in BOOLEAN :
    /\ compiled => Investigating
    /\ facts' = c /\ accepted' = h
    /\ stage' = Moved("accepted")
    /\ inventory' = IF compiled THEN c ELSE inventory
    /\ IF config.investigation = "controlled" /\ ~compiled THEN Raise ELSE Return("proceed")

Approve ==
  /\ phase = "decide" /\ Controlled /\ ~Unusable /\ Approves
  /\ Accept(facts, local.input)
  /\ UNCHANGED << config, preflight, featured, calls, ledgers, dialogue, review >>

(* A question per finding of the reviewer, unless it was answered before.  *)
AskHuman ==
  /\ phase = "decide" /\ Controlled /\ ~Unusable /\ Asks
  /\ stage' = Moved("awaiting_human")
  /\ questions' = questions \cup ((review.found \cap Ambiguous) \ answers)
  /\ Return("awaiting_human")
  /\ UNCHANGED << config, patch, featured, accepted, inventory, calls, ledgers,
                  answers, confirmed, review >>

StartClosure ==
  /\ phase = "decide" /\ Controlled /\ ~Unusable /\ Revises
  /\ stage' = [ stage EXCEPT !.status = "repairing", !.repairs = @ + 1 ]
  /\ local' = [ local EXCEPT !.candidate = facts, !.findings = Errors, !.round = 1 ]
  /\ phase' = "revise"
  /\ UNCHANGED << config, patch, featured, accepted, inventory, calls, ledgers,
                  dialogue, review, outcome >>

DecideBlocked ==
  /\ phase = "decide" /\ Controlled
  /\ Unusable \/ ~(Approves \/ Asks \/ Revises)
  /\ Block(stage)
  /\ UNCHANGED << config, patch, featured, accepted, inventory, calls, ledgers,
                  dialogue, review >>

-----------------------------------------------------------------------------
AttemptsSpent == attempts[local.findings] >= MaxAttempts

(* Mutant: a round without budget waits for it.                           *)
FailsCalled(n) == n > 0

(* A closure round that yields no proposal, or one that does not apply:    *)
(* without a call when none may be made.                                   *)
FailsAfter(n) == n = 0 <=> AttemptsSpent \/ calls = MaxCalls

RevisionFails ==
  /\ phase = "revise"
  /\ \E n \in 0..2 : Charge(n) /\ FailsAfter(n)
  /\ Block(stage)
  /\ UNCHANGED << config, patch, featured, accepted, inventory, ledgers, dialogue, review >>

(* record_candidate                                                        *)
Record(fs, c) ==
  /\ attempts' = [ attempts EXCEPT ![fs] = @ + 1 ]
  /\ tried' = [ tried EXCEPT ![fs] = @ \cup {c} ]

(* evaluate_facts_revision and record_no_progress on the proposed clone.   *)
Revise ==
  /\ phase = "revise" /\ ~AttemptsSpent
  /\ \E n \in 1..2 : Charge(n)
  /\ \E c \in Contents, valid \in BOOLEAN :
       LET duplicate == c \in tried[local.findings] IN
       /\ Record(local.findings, c)
       /\ \/ /\ duplicate
             /\ Block([ stage EXCEPT !.stalls = @ + 1 ])
          \/ /\ ~duplicate /\ ~valid
             /\ Block(stage)
          \/ /\ ~duplicate /\ valid
             /\ stage' = Entered
             /\ local' = [ local EXCEPT !.candidate = c ]
             /\ phase' = "rereview" /\ UNCHANGED outcome
  /\ UNCHANGED << config, patch, featured, accepted, inventory, dialogue, review >>

Rereview ==
  /\ phase = "rereview"
  /\ ReviewOf(local.candidate)
  /\ phase' = "close"
  /\ UNCHANGED << config, patch, gate, ledgers, dialogue, local, outcome >>

(* Mutant: any rereview that failed counts as a schema failure.            *)
AcceptUnread ==
  \/ review.answer = "ok" /\ review.complete /\ review.found = {}
  \/ review.answer # "ok" /\ Contract[local.candidate] = {}

(* accept_candidate: rereview_passing, or a schema failure of the rereview *)
(* of a candidate in which the consistency preflight finds nothing.        *)
AcceptCandidate ==
  \/ review.answer = "ok" /\ review.complete /\ review.found = {}
  \/ review.answer = "schema_invalid" /\ Contract[local.candidate] = {}

CommitCandidate ==
  /\ phase = "close" /\ AcceptCandidate
  /\ Accept(local.candidate, InputHash(local.candidate, confirmed, featured))
  /\ UNCHANGED << config, preflight, featured, calls, ledgers, dialogue, review >>

(* What the rereview found is for a model to repair, and is not what the   *)
(* round was to repair.                                                    *)
Reviseable ==
  /\ review.answer = "ok" /\ review.found # {}
  /\ review.found \subseteq Repairable \ Ambiguous

NextRound ==
  /\ phase = "close" /\ ~AcceptCandidate /\ Reviseable
  /\ review.found # local.findings /\ local.round < RoundLimit
  /\ stage' = [ stage EXCEPT !.status = "repairing", !.repairs = @ + 1 ]
  /\ local' = [ local EXCEPT !.findings = review.found, !.round = @ + 1 ]
  /\ phase' = "revise"
  /\ UNCHANGED << config, patch, featured, accepted, inventory, calls, ledgers,
                  dialogue, review, outcome >>

ClosureBlocked ==
  /\ phase = "close" /\ ~AcceptCandidate
  /\ \/ ~Reviseable /\ Block(stage)
     \/ /\ Reviseable /\ review.found = local.findings
        /\ Block([ stage EXCEPT !.stalls = @ + 1 ])
     \/ /\ Reviseable /\ review.found # local.findings /\ local.round >= RoundLimit
        /\ Block(stage)
  /\ UNCHANGED << config, patch, featured, accepted, inventory, calls, ledgers,
                  dialogue, review >>

-----------------------------------------------------------------------------
Environment == Resume \/ ResumeRejected \/ ResumeAnswered \/ Answer \/ OwnerCommits

Step ==
  \/ Barrier \/ Generate \/ GenerationFails
  \/ Reuse \/ EnterRaises \/ EnterBlocked \/ Enter \/ Review
  \/ DecideAdvisory \/ Approve \/ AskHuman \/ StartClosure \/ DecideBlocked
  \/ RevisionFails \/ Revise \/ Rereview
  \/ CommitCandidate \/ NextRound \/ ClosureBlocked

Next == Environment \/ Step

(* A call is synchronous: once begun it goes on until it returns.          *)
Spec == Init /\ [][Next]_vars /\ WF_vars(Step)

-----------------------------------------------------------------------------
Statuses == { "pending", "proposing", "validating", "reviewing", "repairing", "awaiting_human",
              "accepted", "blocked", "reviewed", "review_failed" }
Phases == { "idle", "plan", "gate", "review", "decide", "revise", "rereview", "close", "raised" }
Outcomes == { "none", "proceed", "failed", "blocked", "awaiting_human", "raised" }
Hashes == [ content : Contents \cup {NoFacts}, confirmed : BOOLEAN, contract : BOOLEAN ]
Stages == [ status : Statuses, reviews : 0 .. MaxReviews + RoundLimit,
            repairs : 0 .. MaxRepairs + RoundLimit, humans : 0 .. MaxHumanRounds,
            stalls : 0 .. MaxStalls + 1 ]
Reviews == [ facts : Contents \cup {NoFacts}, answer : {"ok", "schema_invalid", "unusable"},
             complete : BOOLEAN, found : SUBSET Remarks ]
Locals == [ input : Hashes, candidate : Contents \cup {NoFacts},
            findings : SUBSET Findings, round : 0 .. RoundLimit ]

(* Every variable has its type, and every ledger its bound: no call is     *)
(* made past the budget, no set of findings has more revisions than        *)
(* allowed, and the rounds of a gate end with the budgets that its entry   *)
(* checks (check_stage_budget), plus one closure, which checks none.       *)
TypeOK ==
  /\ config \in Configs
  /\ facts \in Contents \cup {NoFacts} /\ preflight \subseteq Violations
  /\ featured \in BOOLEAN /\ accepted \in Hashes /\ inventory \in Contents \cup {NoFacts}
  /\ stage \in Stages
  /\ calls \in 0 .. MaxCalls
  /\ attempts \in [ SUBSET Findings -> 0 .. MaxAttempts ]
  /\ tried \in [ SUBSET Findings -> SUBSET Contents ]
  /\ questions \subseteq Remarks /\ answers \subseteq questions /\ confirmed \subseteq answers
  /\ review \in Reviews /\ local \in Locals
  /\ phase \in Phases /\ outcome \in Outcomes

(* Facts that downstream patches are generated from under an accepted gate *)
(* are the very facts the gate accepted: its hash names them, the last     *)
(* review was of them and left nothing open, or could not be read and the  *)
(* preflight of the candidate found nothing, and a controlled              *)
(* investigation has compiled its inventory from them.  It must survive    *)
(* reopened and reused gates, revisions, answers and owner commits.        *)
AcceptedWasCleared ==
  (stage.status = "accepted" /\ facts # NoFacts /\ phase \in {"idle", "plan"}) =>
    /\ accepted = InputHash(facts, confirmed, accepted.contract)
    /\ review.facts = facts
    /\ \/ review.answer = "ok" /\ review.complete /\ review.found = {}
       \/ review.answer = "schema_invalid" /\ Contract[facts] = {}
    /\ config.investigation = "controlled" => inventory = facts

(* A candidate remains isolated until its rereview clears it: while the    *)
(* gate runs, the facts change only in the step that accepts the gate.     *)
CandidateIsolated ==
  [][ (phase \notin {"idle", "plan"} /\ facts' # facts) => stage'.status = "accepted" ]_vars

(* Terminal stages are never transitioned implicitly: once it has blocked, *)
(* a controlled gate lets no later call of the executor go on.             *)
BlockedIsFinal ==
  [][ (Controlled /\ stage.status = "blocked") =>
        stage'.status = "blocked" /\ outcome' # "proceed" ]_vars

(* Every call returns or raises: closure rounds do not go on for ever.     *)
GateReturns == (phase # "idle") ~> (phase \in {"idle", "raised"})

(* Only a rereview with complete coverage and no error findings commits,   *)
(* and every round runs the deterministic consistency check: accepted      *)
(* facts were fully reviewed without a finding and break no contract.      *)
(* It does not hold.                                                       *)
AcceptedIsClosed ==
  (stage.status = "accepted" /\ facts # NoFacts /\ phase = "idle") =>
    review.answer = "ok" /\ review.complete /\ Contract[facts] = {}

=============================================================================
