-------------------------- MODULE FactsGate_proofs --------------------------
(***************************************************************************)
(* Theorems about the Facts gate: its budgets, what an acceptance is worth *)
(* and what its steps may not do.                                          *)
(***************************************************************************)
EXTENDS FactsGate, TLAPS

-----------------------------------------------------------------------------
(* Where a call is tells the status of the stage and what is in hand.      *)
Closing == {"revise", "rereview", "close"}

PhaseInv ==
  /\ phase \in {"review", "decide", "rereview", "close"} => stage.status = "reviewing"
  /\ phase = "revise" => stage.status = "repairing"
  /\ phase \in {"gate", "review", "decide"} \cup Closing => facts \in Contents
  /\ phase \in {"review", "decide"} =>
       local.input = InputHash(facts, confirmed, local.input.contract)
  /\ phase = "decide" => review.facts = facts
  /\ phase \in Closing => Controlled /\ local.candidate \in Contents /\ local.round >= 1
  /\ phase = "close" => review.facts = local.candidate

(* What is left of each budget: only a blocked stage has used up all.      *)
BudgetInv ==
  /\ stage.status # "blocked" =>
       stage.reviews < MaxReviews + RoundLimit /\ stage.stalls = 0
  /\ stage.status = "awaiting_human" => stage.humans < MaxHumanRounds
  /\ phase \in {"review", "decide"} => stage.reviews < MaxReviews
  /\ phase = "revise" => stage.reviews < MaxReviews + local.round - 1
  /\ phase \in {"rereview", "close"} => stage.reviews < MaxReviews + local.round
  /\ phase \in Closing => stage.repairs < MaxRepairs + local.round

Cleared(c) ==
  \/ review.answer = "ok" /\ review.complete /\ review.found = {}
  \/ review.answer = "schema_invalid" /\ Contract[c] = {}

(* An accepted stage, whatever the facts are at the moment, keeps the hash *)
(* of the content that its last review cleared.                            *)
AcceptedInv ==
  (stage.status = "accepted" /\ phase # "raised") =>
    /\ Controlled
    /\ accepted = InputHash(accepted.content, confirmed, accepted.contract)
    /\ review.facts = accepted.content
    /\ Cleared(accepted.content)
    /\ config.investigation = "controlled" => inventory = accepted.content
    /\ phase \in {"idle", "plan"} => facts \in {NoFacts, accepted.content}

(* A controlled stage that has blocked was not passed.                     *)
BlockedInv == (Controlled /\ stage.status = "blocked") => outcome # "proceed"

FactsInv == TypeOK /\ PhaseInv /\ BudgetInv /\ AcceptedInv /\ BlockedInv

-----------------------------------------------------------------------------
LEMMA RoundLimitType == RoundLimit \in Nat \ {0}
PROOF
BY BoundAssumption DEF RoundLimit

LEMMA HashType ==
  ASSUME NEW c \in Contents \cup {NoFacts}, NEW asked, NEW built \in BOOLEAN
  PROVE  InputHash(c, asked, built) \in Hashes
PROOF
BY DEF InputHash, Hashes

LEMMA NoLocalType == NoLocal \in Locals
PROOF
BY RoundLimitType DEF NoLocal, Locals, NoHash, Hashes, InputHash, Findings

LEMMA ReturnType ==
  ASSUME NEW o \in Outcomes, Return(o)
  PROVE  phase' \in Phases /\ local' \in Locals /\ outcome' \in Outcomes
PROOF
BY NoLocalType DEF Return, Phases

(* A review charges the budget and has its type.                           *)
LEMMA ReviewType ==
  ASSUME TypeOK, NEW c \in Contents, ReviewOf(c)
  PROVE  calls' \in 0 .. MaxCalls /\ review' \in Reviews /\ review'.facts = c
PROOF
BY BoundAssumption DEF TypeOK, ReviewOf, Charge, Reviews

(* One more review is within the bound while the stage is not blocked.     *)
LEMMA EnteredType ==
  ASSUME FactsInv, stage.status # "blocked"
  PROVE  /\ Entered \in Stages
         /\ Entered.status = "reviewing" /\ Entered.reviews = stage.reviews + 1
         /\ Entered.repairs = stage.repairs /\ Entered.stalls = 0
PROOF
<1>1. /\ stage \in Stages
      /\ stage.reviews < MaxReviews + RoundLimit /\ stage.stalls = 0
  BY DEF FactsInv, TypeOK, BudgetInv
<1>2. MaxReviews + RoundLimit \in Nat
  BY RoundLimitType, BoundAssumption
<1>3. stage.reviews + 1 \in 0 .. MaxReviews + RoundLimit
  BY <1>1, <1>2 DEF Stages
<1>4. QED
  BY <1>1, <1>3 DEF Entered, Stages, Statuses

(* What blocks the stage keeps the invariant.                              *)
LEMMA BlockStep ==
  ASSUME NEW s \in Stages, Block(s)
  PROVE  /\ stage' \in Stages /\ local' \in Locals
         /\ phase' \in Phases /\ outcome' \in Outcomes
         /\ PhaseInv' /\ BudgetInv' /\ AcceptedInv' /\ BlockedInv'
PROOF
<1>1. /\ stage' \in Stages /\ stage'.status = "blocked"
  BY DEF Block, Stages, Statuses
<1>2. phase' = "idle" /\ outcome' = "blocked"
  BY DEF Block, Return
<1>3. local' \in Locals /\ phase' \in Phases /\ outcome' \in Outcomes
  BY <1>2, NoLocalType DEF Block, Return, Phases, Outcomes
<1>4. PhaseInv' /\ BudgetInv'
  BY <1>1, <1>2 DEF PhaseInv, BudgetInv, Closing
<1>5. AcceptedInv' /\ BlockedInv'
  BY <1>1, <1>2 DEF AcceptedInv, BlockedInv
<1>6. QED
  BY <1>1, <1>3, <1>4, <1>5

(* Accepting the content that the last review cleared keeps it too.        *)
LEMMA AcceptStep ==
  ASSUME FactsInv, Controlled, stage.status = "reviewing",
         UNCHANGED << config, confirmed, review >>,
         NEW c \in Contents, review.facts = c, Cleared(c),
         NEW built \in BOOLEAN, Accept(c, InputHash(c, confirmed, built))
  PROVE  /\ stage' \in Stages /\ local' \in Locals
         /\ phase' \in Phases /\ outcome' \in Outcomes
         /\ facts' \in Contents /\ accepted' \in Hashes
         /\ inventory' \in Contents \cup {NoFacts}
         /\ PhaseInv' /\ BudgetInv' /\ AcceptedInv' /\ BlockedInv'
PROOF
<1>1. /\ stage' \in Stages /\ stage'.status = "accepted"
      /\ stage'.reviews = stage.reviews /\ stage'.stalls = stage.stalls
  BY DEF FactsInv, TypeOK, Accept, Moved, Stages, Statuses
<1>2. /\ facts' = c /\ accepted' = InputHash(c, confirmed, built)
      /\ inventory' \in {c, inventory}
      /\ local' = NoLocal
      /\ \/ phase' = "raised" /\ outcome' = "raised"
         \/ /\ phase' = "idle" /\ outcome' = "proceed"
            /\ config.investigation = "controlled" => inventory' = c
  BY DEF Accept, Raise, Return
<1>3. accepted' \in Hashes
  BY <1>2, HashType
<1>4. inventory' \in Contents \cup {NoFacts}
  BY <1>2 DEF FactsInv, TypeOK
<1>5. PhaseInv' /\ BudgetInv'
  BY <1>1, <1>2 DEF FactsInv, PhaseInv, BudgetInv, Closing
<1>6. AcceptedInv'
  BY <1>1, <1>2 DEF AcceptedInv, InputHash, Cleared, Controlled
<1>7. BlockedInv'
  BY <1>1 DEF BlockedInv
<1>8. QED
  BY <1>1, <1>2, <1>3, <1>4, <1>5, <1>6, <1>7, NoLocalType DEF Phases, Outcomes

-----------------------------------------------------------------------------
LEMMA InitInv == ASSUME Init PROVE FactsInv
PROOF
<1>1. TypeOK
  <2>1. stage \in Stages
    BY BoundAssumption, RoundLimitType DEF Init, NoStage, Stages, Statuses
  <2>2. accepted \in Hashes
    BY DEF Init, NoHash, InputHash, Hashes
  <2>3. /\ attempts \in [ SUBSET Findings -> 0 .. MaxAttempts ]
        /\ tried \in [ SUBSET Findings -> SUBSET Contents ]
        /\ calls \in 0 .. MaxCalls
    BY BoundAssumption DEF Init
  <2>4. review \in Reviews
    BY DEF Init, NoReview, Reviews
  <2>5. QED
    BY <2>1, <2>2, <2>3, <2>4, NoLocalType, BoundAssumption DEF Init, TypeOK, Phases, Outcomes
<1>2. PhaseInv
  BY DEF Init, PhaseInv, Closing
<1>3. BudgetInv
  BY RoundLimitType, BoundAssumption DEF Init, NoStage, BudgetInv, Closing
<1>4. AcceptedInv /\ BlockedInv
  BY DEF Init, NoStage, AcceptedInv, BlockedInv
<1>5. QED
  BY <1>1, <1>2, <1>3, <1>4 DEF FactsInv

LEMMA EnvironmentKeeps == ASSUME FactsInv, Environment PROVE FactsInv'
PROOF
<1> USE DEF FactsInv
<1>1. CASE Resume
  BY <1>1 DEF Resume, TypeOK, Phases, PhaseInv, Closing, BudgetInv, AcceptedInv, Cleared,
              Controlled, InputHash, BlockedInv, patch, gate, ledgers, dialogue
<1>2. CASE ResumeRejected
  BY <1>2 DEF ResumeRejected, TypeOK, Phases, PhaseInv, Closing, BudgetInv, AcceptedInv,
              Cleared, Controlled, InputHash, BlockedInv, gate, ledgers, dialogue
<1>3. CASE ResumeAnswered
  <2>1. /\ stage' \in Stages /\ stage'.status = "repairing"
        /\ stage'.reviews = stage.reviews /\ stage'.stalls = stage.stalls
    <3>1. /\ stage \in Stages /\ stage.humans < MaxHumanRounds
          /\ stage' = [ stage EXCEPT !.status = "repairing", !.humans = @ + 1 ]
      BY <1>3 DEF ResumeAnswered, TypeOK, BudgetInv
    <3>2. stage.humans + 1 \in 0 .. MaxHumanRounds
      BY <3>1, BoundAssumption DEF Stages
    <3>3. QED
      BY <3>1, <3>2 DEF Stages, Statuses
  <2>2. confirmed' \subseteq answers
    BY <1>3 DEF ResumeAnswered, TypeOK
  <2>3. TypeOK'
    BY <1>3, <2>1, <2>2 DEF ResumeAnswered, TypeOK, Phases, ledgers
  <2>4. PhaseInv' /\ BudgetInv' /\ AcceptedInv' /\ BlockedInv'
    BY <1>3, <2>1 DEF ResumeAnswered, PhaseInv, Closing, BudgetInv, AcceptedInv, BlockedInv
  <2>5. QED
    BY <2>3, <2>4
<1>4. CASE Answer
  BY <1>4 DEF Answer, TypeOK, PhaseInv, Closing, BudgetInv, AcceptedInv, Cleared,
              Controlled, InputHash, BlockedInv, patch, gate, ledgers
<1>5. CASE OwnerCommits
  <2>1. /\ stage' \in Stages /\ stage'.status = "pending"
        /\ stage'.reviews = stage.reviews /\ stage'.stalls = stage.stalls
    BY <1>5 DEF OwnerCommits, Moved, TypeOK, Stages, Statuses
  <2>2. TypeOK'
    BY <1>5, <2>1 DEF OwnerCommits, TypeOK, Outcomes, ledgers, dialogue
  <2>3. PhaseInv' /\ BudgetInv' /\ AcceptedInv' /\ BlockedInv'
    BY <1>5, <2>1 DEF OwnerCommits, PhaseInv, Closing, BudgetInv, AcceptedInv, BlockedInv
  <2>4. QED
    BY <2>2, <2>3
<1>6. QED
  BY <1>1, <1>2, <1>3, <1>4, <1>5 DEF Environment

-----------------------------------------------------------------------------
(* A call returns without having touched the stage.                        *)
LEMMA ReturnStep ==
  ASSUME FactsInv, phase # "raised", NEW o \in Outcomes, Return(o),
         o = "proceed" /\ Controlled => stage.status # "blocked",
         UNCHANGED << config, facts, stage, accepted, inventory, review, confirmed >>,
         stage.status = "accepted" => facts \in {NoFacts, accepted.content}
  PROVE  /\ phase' \in Phases /\ local' \in Locals /\ outcome' \in Outcomes
         /\ PhaseInv' /\ BudgetInv' /\ AcceptedInv' /\ BlockedInv'
PROOF
<1>1. phase' = "idle" /\ outcome' = o
  BY DEF Return
<1>2. PhaseInv' /\ BudgetInv'
  BY <1>1 DEF FactsInv, PhaseInv, BudgetInv, Closing
<1>3. AcceptedInv'
  <2>1. SUFFICES ASSUME stage.status = "accepted"
                 PROVE  AcceptedInv'
    BY DEF AcceptedInv
  <2>2. QED
    BY <1>1, <2>1 DEF FactsInv, AcceptedInv, Cleared, Controlled, InputHash
<1>4. BlockedInv'
  BY <1>1 DEF FactsInv, BlockedInv, Controlled
<1>5. QED
  BY <1>2, <1>3, <1>4, ReturnType

-----------------------------------------------------------------------------
(* The steps of a call before the gate, and the gate's entry.              *)
LEMMA PlanKeeps ==
  ASSUME FactsInv, Barrier \/ Generate \/ GenerationFails
  PROVE  FactsInv'
PROOF
<1> USE DEF FactsInv
<1>1. CASE Barrier
  <2>1. CASE phase' = "gate"
    BY <1>1, <2>1 DEF Barrier, Return, TypeOK, Phases, PhaseInv, Closing, BudgetInv,
                      AcceptedInv, BlockedInv, Controlled, Passable, patch, gate, ledgers, dialogue
  <2>2. CASE phase' # "gate"
    <3>1. PICK o \in Outcomes :
            Return(o) /\ (o = "proceed" => Passable)
      BY <1>1, <2>2 DEF Barrier, Outcomes
    <3>2. UNCHANGED << config, patch, gate, calls, ledgers, dialogue, review >>
      BY <1>1 DEF Barrier
    <3>3. /\ stage.status = "accepted" => facts \in {NoFacts, accepted.content}
          /\ Passable /\ Controlled => stage.status # "blocked"
      BY <1>1 DEF Barrier, AcceptedInv, Passable
    <3>4. /\ phase' \in Phases /\ local' \in Locals /\ outcome' \in Outcomes
          /\ PhaseInv' /\ BudgetInv' /\ AcceptedInv' /\ BlockedInv'
      BY <1>1, <3>1, <3>2, <3>3, ReturnStep DEF Barrier, patch, gate, dialogue
    <3>5. TypeOK'
      BY <3>2, <3>4 DEF TypeOK, patch, gate, ledgers, dialogue
    <3>6. QED
      BY <3>4, <3>5
  <2>3. QED
    BY <2>1, <2>2
<1>2. CASE Generate
  <2>1. /\ stage' \in Stages /\ stage'.status \in {stage.status, "proposing"}
        /\ stage'.reviews = stage.reviews /\ stage'.stalls = stage.stalls
        /\ stage'.humans = stage.humans /\ (stage'.status = "blocked" <=> stage.status = "blocked")
        /\ stage'.status = "accepted" => stage' = stage
    BY <1>2 DEF Generate, Proposing, Moved, TypeOK, Stages, Statuses
  <2>2. TypeOK'
    BY <1>2, <2>1, FactsAssumption DEF Generate, TypeOK, Phases, ledgers, dialogue
  <2>3. PhaseInv' /\ BudgetInv'
    BY <1>2, <2>1 DEF Generate, PhaseInv, Closing, BudgetInv
  <2>4. AcceptedInv' /\ BlockedInv'
    BY <1>2, <2>1 DEF Generate, AcceptedInv, Cleared, InputHash, BlockedInv, Controlled, dialogue
  <2>5. QED
    BY <2>2, <2>3, <2>4
<1>3. CASE GenerationFails
  <2>1. /\ stage' \in Stages /\ stage'.status \in {stage.status, "proposing"}
        /\ stage'.reviews = stage.reviews /\ stage'.stalls = stage.stalls
        /\ stage'.humans = stage.humans /\ (stage'.status = "blocked" <=> stage.status = "blocked")
        /\ stage'.status = "accepted" => stage' = stage
    BY <1>3 DEF GenerationFails, Proposing, Moved, TypeOK, Stages, Statuses
  <2>2. phase' = "idle" /\ outcome' \in {"failed", "blocked"} /\ local' \in Locals
    BY <1>3, NoLocalType DEF GenerationFails, Return
  <2>3. TypeOK'
    BY <1>3, <2>1, <2>2 DEF GenerationFails, TypeOK, Phases, Outcomes, patch, ledgers, dialogue
  <2>4. PhaseInv' /\ BudgetInv'
    BY <1>3, <2>1, <2>2 DEF GenerationFails, PhaseInv, Closing, BudgetInv
  <2>5. AcceptedInv' /\ BlockedInv'
    BY <1>3, <2>1, <2>2 DEF GenerationFails, AcceptedInv, Cleared, InputHash, BlockedInv,
                            Controlled, patch, dialogue
  <2>6. QED
    BY <2>3, <2>4, <2>5
<1>4. QED
  BY <1>1, <1>2, <1>3

LEMMA EntryKeeps ==
  ASSUME FactsInv, Reuse \/ EnterRaises \/ EnterBlocked \/ Enter
  PROVE  FactsInv'
PROOF
<1> USE DEF FactsInv
<1>1. CASE Reuse
  <2>1. /\ Return("proceed") /\ "proceed" \in Outcomes /\ stage.status = "accepted"
        /\ facts = accepted.content /\ phase # "raised"
        /\ UNCHANGED << config, patch, gate, calls, ledgers, dialogue, review >>
    BY <1>1 DEF Reuse, Outcomes, Hash, InputHash
  <2>2. /\ phase' \in Phases /\ local' \in Locals /\ outcome' \in Outcomes
        /\ PhaseInv' /\ BudgetInv' /\ AcceptedInv' /\ BlockedInv'
    BY <2>1, ReturnStep DEF patch, gate, dialogue
  <2>3. TypeOK'
    BY <2>1, <2>2 DEF TypeOK, patch, gate, ledgers, dialogue
  <2>4. QED
    BY <2>2, <2>3
<1>2. CASE EnterRaises
  BY <1>2, NoLocalType
     DEF EnterRaises, Raise, TypeOK, Phases, Outcomes, PhaseInv, Closing, BudgetInv,
         AcceptedInv, BlockedInv, Controlled, patch, gate, ledgers, dialogue
<1>3. stage.status \in Reviewable => stage.status # "blocked"
  BY DEF Reviewable
<1>4. CASE EnterBlocked
  <2>1. /\ stage' \in Stages /\ local' \in Locals /\ phase' \in Phases /\ outcome' \in Outcomes
        /\ PhaseInv' /\ BudgetInv' /\ AcceptedInv' /\ BlockedInv'
    BY <1>3, <1>4, EnteredType, BlockStep DEF EnterBlocked
  <2>2. TypeOK'
    BY <1>4, <2>1 DEF EnterBlocked, TypeOK, patch, ledgers, dialogue
  <2>3. QED
    BY <2>1, <2>2
<1>5. CASE Enter
  <2>1. /\ Entered \in Stages /\ Entered.status = "reviewing"
        /\ Entered.stalls = 0 /\ Entered.reviews < MaxReviews
    <3>1. Entered \in Stages /\ Entered.status = "reviewing" /\ Entered.stalls = 0
      BY <1>3, <1>5, EnteredType DEF Enter
    <3>2. ~(Entered.reviews >= MaxReviews)
      BY <1>5 DEF Enter, Exhausted
    <3>3. QED
      BY <3>1, <3>2, BoundAssumption DEF Stages
  <2>2. featured' \in BOOLEAN
        /\ UNCHANGED << config, patch, accepted, inventory, calls, ledgers, dialogue, review >>
    BY <1>5 DEF Enter
  <2>3. CASE config.reviewer
    <3>1. /\ stage' = Entered /\ local' = [ local EXCEPT !.input = Hash ]
          /\ phase' = "review" /\ outcome' = outcome /\ facts \in Contents
      BY <1>5, <2>3 DEF Enter, PhaseInv
    <3>2. Hash \in Hashes /\ Hash = InputHash(facts, confirmed, Hash.contract)
      BY HashType DEF TypeOK, Hash, InputHash
    <3>3. local' \in Locals /\ local'.input = Hash
      BY <3>1, <3>2 DEF TypeOK, Locals
    <3>4. TypeOK'
      BY <2>1, <2>2, <3>1, <3>3 DEF TypeOK, Phases, patch, ledgers, dialogue
    <3>5. PhaseInv'
      BY <2>1, <2>2, <3>1, <3>2, <3>3 DEF PhaseInv, Closing, patch, dialogue
    <3>6. BudgetInv'
      BY <2>1, <3>1, RoundLimitType, BoundAssumption DEF BudgetInv, Closing, Stages
    <3>7. AcceptedInv' /\ BlockedInv'
      BY <2>1, <3>1 DEF AcceptedInv, BlockedInv
    <3>8. QED
      BY <3>4, <3>5, <3>6, <3>7
  <2>4. CASE ~config.reviewer /\ Controlled
    <3>1. /\ stage' \in Stages /\ local' \in Locals /\ phase' \in Phases /\ outcome' \in Outcomes
          /\ PhaseInv' /\ BudgetInv' /\ AcceptedInv' /\ BlockedInv'
      BY <1>5, <2>1, <2>4, BlockStep DEF Enter
    <3>2. TypeOK'
      BY <2>2, <3>1 DEF TypeOK, patch, ledgers, dialogue
    <3>3. QED
      BY <3>1, <3>2
  <2>5. CASE ~config.reviewer /\ ~Controlled
    <3>1. /\ stage' = [ Entered EXCEPT !.status = "review_failed" ]
          /\ Return("proceed") /\ "proceed" \in Outcomes
      BY <1>5, <2>5 DEF Enter, Outcomes
    <3>2. /\ stage' \in Stages /\ stage'.status = "review_failed"
          /\ stage'.stalls = 0 /\ stage'.reviews < MaxReviews
      BY <2>1, <3>1 DEF Stages, Statuses
    <3>3. TypeOK'
      BY <2>2, <3>1, <3>2, ReturnType DEF TypeOK, patch, ledgers, dialogue
    <3>4. PhaseInv' /\ BudgetInv'
      BY <3>1, <3>2, RoundLimitType, BoundAssumption
         DEF Return, PhaseInv, Closing, BudgetInv, Stages
    <3>5. AcceptedInv' /\ BlockedInv'
      BY <3>2 DEF AcceptedInv, BlockedInv
    <3>6. QED
      BY <3>3, <3>4, <3>5
  <2>6. QED
    BY <2>3, <2>4, <2>5
<1>6. QED
  BY <1>1, <1>2, <1>4, <1>5

(* The reviews of the gate and of its closure, and what they decide.       *)
LEMMA DecideKeeps ==
  ASSUME FactsInv, Review \/ DecideAdvisory \/ Approve \/ AskHuman \/ StartClosure \/ DecideBlocked
  PROVE  FactsInv'
PROOF
<1> USE DEF FactsInv
<1>1. CASE Review
  <2>1. /\ calls' \in 0 .. MaxCalls /\ review' \in Reviews /\ review'.facts = facts
        /\ phase' = "decide" /\ stage.status = "reviewing"
    BY <1>1, ReviewType DEF Review, PhaseInv
  <2>2. TypeOK'
    BY <1>1, <2>1 DEF Review, TypeOK, Phases, patch, gate, ledgers, dialogue
  <2>3. PhaseInv' /\ BudgetInv'
    BY <1>1, <2>1 DEF Review, PhaseInv, Closing, BudgetInv, patch, gate, dialogue
  <2>4. AcceptedInv' /\ BlockedInv'
    BY <1>1, <2>1 DEF Review, AcceptedInv, BlockedInv, gate
  <2>5. QED
    BY <2>2, <2>3, <2>4
<1>2. CASE DecideAdvisory
  <2>1. /\ stage' \in Stages /\ stage'.status \in {"reviewed", "review_failed"}
        /\ stage'.reviews = stage.reviews /\ stage'.stalls = stage.stalls
    BY <1>2 DEF DecideAdvisory, Moved, TypeOK, Stages, Statuses
  <2>2. phase' = "idle" /\ outcome' = "proceed" /\ local' \in Locals
    BY <1>2, NoLocalType DEF DecideAdvisory, Return
  <2>3. TypeOK'
    BY <1>2, <2>1, <2>2 DEF DecideAdvisory, TypeOK, Phases, Outcomes, patch, ledgers, dialogue
  <2>4. PhaseInv' /\ BudgetInv' /\ AcceptedInv' /\ BlockedInv'
    BY <1>2, <2>1, <2>2
       DEF DecideAdvisory, PhaseInv, Closing, BudgetInv, AcceptedInv, BlockedInv
  <2>5. QED
    BY <2>3, <2>4
<1>3. CASE Approve
  <2>1. Cleared(facts)
    BY <1>3 DEF Approve, Approves, Unusable, Blocking, Errors, Cleared
  <2>2. /\ Controlled /\ stage.status = "reviewing" /\ facts \in Contents /\ review.facts = facts
        /\ local.input.contract \in BOOLEAN
        /\ Accept(facts, InputHash(facts, confirmed, local.input.contract))
        /\ UNCHANGED << config, preflight, featured, calls, ledgers, dialogue, review >>
    BY <1>3 DEF Approve, PhaseInv, TypeOK, Locals, Hashes
  <2>3. /\ stage' \in Stages /\ local' \in Locals /\ phase' \in Phases /\ outcome' \in Outcomes
        /\ facts' \in Contents /\ accepted' \in Hashes /\ inventory' \in Contents \cup {NoFacts}
        /\ PhaseInv' /\ BudgetInv' /\ AcceptedInv' /\ BlockedInv'
    BY <2>1, <2>2, AcceptStep DEF dialogue
  <2>4. TypeOK'
    BY <2>2, <2>3 DEF TypeOK, ledgers, dialogue
  <2>5. QED
    BY <2>3, <2>4
<1>4. CASE AskHuman
  <2>1. /\ stage' \in Stages /\ stage'.status = "awaiting_human"
        /\ stage'.reviews = stage.reviews /\ stage'.stalls = stage.stalls
        /\ stage'.humans = stage.humans
    BY <1>4 DEF AskHuman, Moved, TypeOK, Stages, Statuses
  <2>2. stage'.humans < MaxHumanRounds
    BY <1>4, <2>1, BoundAssumption DEF AskHuman, Asks, Exhausted, TypeOK, Stages
  <2>3. phase' = "idle" /\ outcome' = "awaiting_human" /\ local' \in Locals
    BY <1>4, NoLocalType DEF AskHuman, Return
  <2>4. questions' \subseteq Remarks /\ answers' \subseteq questions'
    BY <1>4 DEF AskHuman, TypeOK, Reviews
  <2>5. TypeOK'
    BY <1>4, <2>1, <2>3, <2>4 DEF AskHuman, TypeOK, Phases, Outcomes, patch, ledgers
  <2>6. PhaseInv' /\ BudgetInv' /\ AcceptedInv' /\ BlockedInv'
    BY <1>4, <2>1, <2>2, <2>3
       DEF AskHuman, PhaseInv, Closing, BudgetInv, AcceptedInv, BlockedInv
  <2>7. QED
    BY <2>5, <2>6
<1>5. CASE StartClosure
  <2>1. /\ stage' = [ stage EXCEPT !.status = "repairing", !.repairs = @ + 1 ]
        /\ local' = [ local EXCEPT !.candidate = facts, !.findings = Errors, !.round = 1 ]
        /\ phase' = "revise" /\ facts \in Contents
        /\ UNCHANGED << config, patch, featured, accepted, inventory, calls, ledgers,
                        dialogue, review, outcome >>
    BY <1>5 DEF StartClosure, PhaseInv
  <2>2. Errors \in SUBSET Findings
    BY <2>1, FactsAssumption
       DEF Errors, Deterministic, TypeOK, Reviews, Findings
  <2>3. /\ local' \in Locals /\ local'.candidate = facts /\ local'.round = 1
    <3>1. local \in Locals /\ 1 \in 0 .. RoundLimit
      BY RoundLimitType DEF TypeOK
    <3>2. QED
      BY <2>1, <2>2, <3>1 DEF Locals
  <2>4. /\ stage' \in Stages /\ stage'.status = "repairing"
        /\ stage'.reviews = stage.reviews /\ stage'.stalls = stage.stalls
        /\ stage'.repairs < MaxRepairs + 1
    <3>1. stage \in Stages /\ stage.repairs < MaxRepairs
      BY <1>5, BoundAssumption DEF StartClosure, Revises, Exhausted, TypeOK, Stages
    <3>2. /\ stage.repairs + 1 \in 0 .. MaxRepairs + RoundLimit
          /\ stage.repairs + 1 < MaxRepairs + 1
      BY <3>1, BoundAssumption, RoundLimitType DEF Stages
    <3>3. QED
      BY <2>1, <3>1, <3>2 DEF Stages, Statuses
  <2>5. TypeOK'
    BY <2>1, <2>3, <2>4 DEF TypeOK, Phases, patch, ledgers, dialogue
  <2>6. PhaseInv'
    BY <1>5, <2>1, <2>3, <2>4 DEF StartClosure, PhaseInv, Closing, Controlled, patch
  <2>7. BudgetInv'
    <3>1. /\ stage.reviews < MaxReviews /\ stage.reviews < MaxReviews + RoundLimit
          /\ stage.stalls = 0
      BY <1>5 DEF StartClosure, PhaseInv, BudgetInv
    <3>2. stage.reviews < MaxReviews + 1 - 1
      BY <3>1, BoundAssumption DEF TypeOK, Stages
    <3>3. QED
      BY <2>1, <2>3, <2>4, <3>1, <3>2 DEF BudgetInv
  <2>8. AcceptedInv' /\ BlockedInv'
    BY <2>4 DEF AcceptedInv, BlockedInv
  <2>9. QED
    BY <2>5, <2>6, <2>7, <2>8
<1>6. CASE DecideBlocked
  <2>1. /\ stage' \in Stages /\ local' \in Locals /\ phase' \in Phases /\ outcome' \in Outcomes
        /\ PhaseInv' /\ BudgetInv' /\ AcceptedInv' /\ BlockedInv'
    BY <1>6, BlockStep DEF DecideBlocked, TypeOK
  <2>2. TypeOK'
    BY <1>6, <2>1 DEF DecideBlocked, TypeOK, patch, ledgers, dialogue
  <2>3. QED
    BY <2>1, <2>2
<1>7. QED
  BY <1>1, <1>2, <1>3, <1>4, <1>5, <1>6

-----------------------------------------------------------------------------
LEMMA RecordType ==
  ASSUME TypeOK, NEW fs \in SUBSET Findings, NEW c \in Contents,
         attempts[fs] < MaxAttempts, Record(fs, c)
  PROVE  /\ attempts' \in [ SUBSET Findings -> 0 .. MaxAttempts ]
         /\ tried' \in [ SUBSET Findings -> SUBSET Contents ]
PROOF
<1>1. attempts[fs] + 1 \in 0 .. MaxAttempts
  BY BoundAssumption DEF TypeOK
<1>2. attempts' \in [ SUBSET Findings -> 0 .. MaxAttempts ]
  BY <1>1 DEF TypeOK, Record
<1>3. tried' \in [ SUBSET Findings -> SUBSET Contents ]
  BY DEF TypeOK, Record
<1>4. QED
  BY <1>2, <1>3

(* A stall is the first: it blocks the stage.                              *)
LEMMA StallType ==
  ASSUME FactsInv, stage.status # "blocked"
  PROVE  [ stage EXCEPT !.stalls = @ + 1 ] \in Stages
PROOF
<1>1. stage \in Stages /\ stage.stalls + 1 \in 0 .. MaxStalls + 1
  BY BoundAssumption DEF FactsInv, TypeOK, BudgetInv, Stages
<1>2. QED
  BY <1>1 DEF Stages

(* One round of the closure.                                               *)
LEMMA ClosureKeeps ==
  ASSUME FactsInv,
         RevisionFails \/ Revise \/ Rereview \/ CommitCandidate \/ NextRound \/ ClosureBlocked
  PROVE  FactsInv'
PROOF
<1> USE DEF FactsInv
<1>1. CASE RevisionFails
  <2>1. calls' \in 0 .. MaxCalls
    BY <1>1, BoundAssumption DEF RevisionFails, Charge, TypeOK
  <2>2. /\ stage' \in Stages /\ local' \in Locals /\ phase' \in Phases /\ outcome' \in Outcomes
        /\ PhaseInv' /\ BudgetInv' /\ AcceptedInv' /\ BlockedInv'
    BY <1>1, BlockStep DEF RevisionFails, TypeOK
  <2>3. TypeOK'
    BY <1>1, <2>1, <2>2 DEF RevisionFails, TypeOK, patch, ledgers, dialogue
  <2>4. QED
    BY <2>2, <2>3
<1>2. CASE Revise
  <2>1. calls' \in 0 .. MaxCalls
    BY <1>2, BoundAssumption DEF Revise, Charge, TypeOK
  <2>2. /\ local.findings \in SUBSET Findings /\ attempts[local.findings] < MaxAttempts
        /\ stage \in Stages /\ stage.status = "repairing"
    BY <1>2, BoundAssumption DEF Revise, AttemptsSpent, PhaseInv, TypeOK, Locals
  <2>3. PICK c \in Contents :
          /\ Record(local.findings, c)
          /\ \/ \E s \in {[ stage EXCEPT !.stalls = @ + 1 ], stage} : Block(s)
             \/ /\ stage' = Entered /\ local' = [ local EXCEPT !.candidate = c ]
                /\ phase' = "rereview" /\ outcome' = outcome
    BY <1>2 DEF Revise
  <2>4. /\ attempts' \in [ SUBSET Findings -> 0 .. MaxAttempts ]
        /\ tried' \in [ SUBSET Findings -> SUBSET Contents ]
    BY <2>2, <2>3, RecordType
  <2>5. UNCHANGED << config, patch, featured, accepted, inventory, dialogue, review >>
    BY <1>2 DEF Revise
  <2>6. CASE \E s \in {[ stage EXCEPT !.stalls = @ + 1 ], stage} : Block(s)
    <3>1. \A s \in {[ stage EXCEPT !.stalls = @ + 1 ], stage} : s \in Stages
      BY <2>2, StallType
    <3>2. /\ stage' \in Stages /\ local' \in Locals /\ phase' \in Phases /\ outcome' \in Outcomes
          /\ PhaseInv' /\ BudgetInv' /\ AcceptedInv' /\ BlockedInv'
      BY <2>6, <3>1, BlockStep
    <3>3. TypeOK'
      BY <2>1, <2>4, <2>5, <3>2 DEF TypeOK, patch, dialogue
    <3>4. QED
      BY <3>2, <3>3
  <2>7. CASE /\ stage' = Entered /\ local' = [ local EXCEPT !.candidate = c ]
             /\ phase' = "rereview" /\ outcome' = outcome
    <3>1. /\ stage' \in Stages /\ stage'.status = "reviewing" /\ stage'.stalls = 0
          /\ stage'.reviews = stage.reviews + 1 /\ stage'.repairs = stage.repairs
      BY <2>2, <2>7, EnteredType
    <3>2. local' \in Locals /\ local'.candidate = c /\ local'.round = local.round
      BY <2>7 DEF TypeOK, Locals
    <3>3. TypeOK'
      BY <2>1, <2>4, <2>5, <2>7, <3>1, <3>2 DEF TypeOK, Phases, patch, dialogue
    <3>4. PhaseInv'
      BY <1>2, <2>5, <2>7, <3>1, <3>2 DEF Revise, PhaseInv, Closing, Controlled, patch
    <3>5. BudgetInv'
      <4>1. /\ stage.reviews < MaxReviews + local.round - 1
            /\ stage.repairs < MaxRepairs + local.round
        BY <1>2 DEF Revise, BudgetInv, Closing
      <4>2. /\ stage'.reviews < MaxReviews + local'.round
            /\ stage'.repairs < MaxRepairs + local'.round
            /\ stage'.reviews < MaxReviews + RoundLimit
        BY <2>2, <3>1, <3>2, <4>1, BoundAssumption, RoundLimitType DEF TypeOK, Stages, Locals
      <4>3. QED
        BY <2>7, <3>1, <4>2 DEF BudgetInv
    <3>6. AcceptedInv' /\ BlockedInv'
      BY <3>1 DEF AcceptedInv, BlockedInv
    <3>7. QED
      BY <3>3, <3>4, <3>5, <3>6
  <2>8. QED
    BY <2>3, <2>6, <2>7
<1>3. CASE Rereview
  <2>1. /\ calls' \in 0 .. MaxCalls /\ review' \in Reviews /\ review'.facts = local.candidate
        /\ phase' = "close" /\ stage.status = "reviewing"
    BY <1>3, ReviewType DEF Rereview, PhaseInv, Closing
  <2>2. TypeOK'
    BY <1>3, <2>1 DEF Rereview, TypeOK, Phases, patch, gate, ledgers, dialogue
  <2>3. PhaseInv' /\ BudgetInv'
    BY <1>3, <2>1 DEF Rereview, PhaseInv, Closing, BudgetInv, Controlled, patch, gate
  <2>4. AcceptedInv' /\ BlockedInv'
    BY <1>3, <2>1 DEF Rereview, AcceptedInv, BlockedInv, gate
  <2>5. QED
    BY <2>2, <2>3, <2>4
<1>4. CASE CommitCandidate
  <2>1. Controlled
    BY <1>4 DEF CommitCandidate, PhaseInv, Closing
  <2>2. Cleared(local.candidate)
    BY <1>4 DEF CommitCandidate, AcceptCandidate, Cleared
  <2>3. /\ stage.status = "reviewing" /\ local.candidate \in Contents
        /\ review.facts = local.candidate /\ featured \in BOOLEAN
        /\ Accept(local.candidate, InputHash(local.candidate, confirmed, featured))
        /\ UNCHANGED << config, preflight, featured, calls, ledgers, dialogue, review >>
    BY <1>4 DEF CommitCandidate, PhaseInv, Closing, TypeOK
  <2>4. /\ stage' \in Stages /\ local' \in Locals /\ phase' \in Phases /\ outcome' \in Outcomes
        /\ facts' \in Contents /\ accepted' \in Hashes /\ inventory' \in Contents \cup {NoFacts}
        /\ PhaseInv' /\ BudgetInv' /\ AcceptedInv' /\ BlockedInv'
    BY <2>1, <2>2, <2>3, AcceptStep DEF dialogue
  <2>5. TypeOK'
    BY <2>3, <2>4 DEF TypeOK, ledgers, dialogue
  <2>6. QED
    BY <2>4, <2>5
<1>5. CASE NextRound
  <2>1. /\ stage' = [ stage EXCEPT !.status = "repairing", !.repairs = @ + 1 ]
        /\ local' = [ local EXCEPT !.findings = review.found, !.round = @ + 1 ]
        /\ phase' = "revise" /\ local.round < RoundLimit
        /\ UNCHANGED << config, patch, featured, accepted, inventory, calls, ledgers,
                        dialogue, review, outcome >>
    BY <1>5 DEF NextRound
  <2>2. /\ local.round + 1 \in 0 .. RoundLimit /\ review.found \in SUBSET Findings
        /\ local \in Locals /\ local.round \in Nat
    BY <2>1, RoundLimitType DEF TypeOK, Reviews, Locals, Findings
  <2>3. /\ local' \in Locals /\ local'.candidate = local.candidate
        /\ local'.round = local.round + 1
    BY <2>1, <2>2 DEF Locals
  <2>4. /\ stage.status = "reviewing" /\ stage \in Stages
        /\ stage.reviews < MaxReviews + local.round
        /\ stage.repairs < MaxRepairs + local.round
    BY <1>5 DEF NextRound, PhaseInv, BudgetInv, Closing, TypeOK
  <2>5. /\ stage' \in Stages /\ stage'.status = "repairing"
        /\ stage'.reviews = stage.reviews /\ stage'.stalls = stage.stalls
        /\ stage'.repairs = stage.repairs + 1
    <3>1. stage.repairs + 1 \in 0 .. MaxRepairs + RoundLimit
      BY <2>1, <2>2, <2>4, BoundAssumption, RoundLimitType DEF Stages
    <3>2. QED
      BY <2>1, <2>4, <3>1 DEF Stages, Statuses
  <2>6. TypeOK'
    BY <2>1, <2>3, <2>5 DEF TypeOK, Phases, patch, ledgers, dialogue
  <2>7. PhaseInv'
    BY <1>5, <2>1, <2>2, <2>3, <2>5 DEF NextRound, PhaseInv, Closing, Controlled, patch
  <2>8. BudgetInv'
    <3>1. /\ stage'.reviews < MaxReviews + local'.round - 1
          /\ stage'.repairs < MaxRepairs + local'.round
      BY <2>2, <2>3, <2>4, <2>5, BoundAssumption DEF Stages
    <3>2. QED
      BY <2>1, <2>4, <2>5, <3>1 DEF BudgetInv
  <2>9. QED
    BY <2>5, <2>6, <2>7, <2>8 DEF AcceptedInv, BlockedInv
<1>6. CASE ClosureBlocked
  <2>1. \E s \in {[ stage EXCEPT !.stalls = @ + 1 ], stage} : Block(s)
    BY <1>6 DEF ClosureBlocked
  <2>2. \A s \in {[ stage EXCEPT !.stalls = @ + 1 ], stage} : s \in Stages
    BY <1>6, StallType DEF ClosureBlocked, PhaseInv, TypeOK
  <2>3. /\ stage' \in Stages /\ local' \in Locals /\ phase' \in Phases /\ outcome' \in Outcomes
        /\ PhaseInv' /\ BudgetInv' /\ AcceptedInv' /\ BlockedInv'
    BY <2>1, <2>2, BlockStep
  <2>4. TypeOK'
    BY <1>6, <2>3 DEF ClosureBlocked, TypeOK, patch, ledgers, dialogue
  <2>5. QED
    BY <2>3, <2>4
<1>7. QED
  BY <1>1, <1>2, <1>3, <1>4, <1>5, <1>6

-----------------------------------------------------------------------------
LEMMA StepKeeps == ASSUME FactsInv, Step PROVE FactsInv'
PROOF
BY PlanKeeps, EntryKeeps, DecideKeeps, ClosureKeeps DEF Step

LEMMA NextKeeps == ASSUME FactsInv, [Next]_vars PROVE FactsInv'
PROOF
<1>1. CASE UNCHANGED vars
  BY <1>1 DEF vars, patch, gate, ledgers, dialogue, FactsInv, TypeOK, PhaseInv, Closing,
              BudgetInv, AcceptedInv, Cleared, Controlled, InputHash, BlockedInv
<1>2. QED
  BY <1>1, EnvironmentKeeps, StepKeeps DEF Next

(* The gate's invariant, for any facts, findings, configurations and       *)
(* budgets: where a call is, what of each budget is left and what an       *)
(* acceptance rests on.                                                    *)
THEOREM GateInvariant == Spec => []FactsInv
PROOF
BY InitInv, NextKeeps, PTL DEF Spec

(* Every variable of the gate has its type and no ledger exceeds its       *)
(* budget, although a closure (closure_round_limit) checks none of the     *)
(* stage's: a closure of RoundLimit rounds is all there is on top.         *)
THEOREM GateTypeCorrect == Spec => []TypeOK
PROOF
<1>1. FactsInv => TypeOK
  BY DEF FactsInv
<1>2. QED
  BY <1>1, GateInvariant, PTL

(* Downstream patches are generated under an accepted Facts gate only from *)
(* the facts that it accepted, and these passed the last review.           *)
THEOREM AcceptanceIsEarned == Spec => []AcceptedWasCleared
PROOF
<1>1. FactsInv => AcceptedWasCleared
  BY DEF FactsInv, AcceptedInv, Cleared, AcceptedWasCleared
<1>2. QED
  BY <1>1, GateInvariant, PTL

(* No revision reaches the plan before its rereview cleared it: while the  *)
(* gate runs the facts change only in the step that accepts them.          *)
THEOREM CandidatesStayIsolated == Spec => CandidateIsolated
PROOF
<1>1. ASSUME FactsInv, [Next]_vars, phase \notin {"idle", "plan"}, facts' # facts
      PROVE  stage'.status = "accepted"
  <2>1. Approve \/ CommitCandidate
    BY <1>1 DEF Next, vars, patch, Environment, Resume, ResumeRejected, ResumeAnswered, Answer,
                OwnerCommits, Step, Barrier, Generate, GenerationFails, Reuse, EnterRaises,
                EnterBlocked, Enter, Review, DecideAdvisory, AskHuman, StartClosure,
                DecideBlocked, RevisionFails, Revise, Rereview, NextRound, ClosureBlocked
  <2>2. \E c, h : Accept(c, h)
    BY <2>1 DEF Approve, CommitCandidate
  <2>3. stage \in Stages
    BY <1>1 DEF FactsInv, TypeOK
  <2>4. QED
    BY <2>2, <2>3 DEF Accept, Moved, Stages
<1>2. QED
  BY <1>1, GateInvariant, PTL DEF Spec, CandidateIsolated

(* A controlled Facts gate that has blocked stays blocked, and no later    *)
(* call of the executor passes it (_require_accepted_facts_gate).          *)
THEOREM BlockedStaysBlocked == Spec => BlockedIsFinal
PROOF
<1>1. ASSUME FactsInv, [Next]_vars, Controlled, stage.status = "blocked"
      PROVE  stage'.status = "blocked" /\ outcome' # "proceed"
  <2>1. stage' = stage
    <3>1. /\ phase \notin {"review", "decide"} \cup Closing
          /\ stage.status \notin {"pending", "repairing"}
      BY <1>1 DEF FactsInv, PhaseInv, Closing
    <3>2. Proposing = stage /\ stage.status \notin Reviewable
      BY <1>1 DEF Proposing, Reviewable
    <3>3. QED
      BY <1>1, <3>1, <3>2
         DEF Next, vars, gate, Closing, Environment, Resume, ResumeRejected, ResumeAnswered,
             Answer, OwnerCommits, Step, Barrier, Generate, GenerationFails, Reuse,
             EnterRaises, EnterBlocked, Enter, Review, DecideAdvisory, Approve, AskHuman,
             StartClosure, DecideBlocked, RevisionFails, Revise, Rereview, CommitCandidate,
             NextRound, ClosureBlocked
  <2>2. config' = config
    BY <1>1 DEF Next, vars, Environment, Resume, ResumeRejected, ResumeAnswered, Answer,
                OwnerCommits, Step, Barrier, Generate, GenerationFails, Reuse, EnterRaises,
                EnterBlocked, Enter, Review, DecideAdvisory, Approve, AskHuman, StartClosure,
                DecideBlocked, RevisionFails, Revise, Rereview, CommitCandidate, NextRound,
                ClosureBlocked
  <2>3. BlockedInv'
    BY <1>1, NextKeeps DEF FactsInv
  <2>4. QED
    BY <1>1, <2>1, <2>2, <2>3 DEF BlockedInv, Controlled
<1>2. QED
  BY <1>1, GateInvariant, PTL DEF Spec, BlockedIsFinal

-----------------------------------------------------------------------------
(* Every call comes back: what a call has left to do, in steps.  A round   *)
(* of the closure takes a revision, its review and the verdict on it.      *)
RoundsLeft == RoundLimit - local.round
StepsLeft ==
  CASE phase = "plan"     -> 3 * RoundLimit + 4
    [] phase = "gate"     -> 3 * RoundLimit + 3
    [] phase = "review"   -> 3 * RoundLimit + 2
    [] phase = "decide"   -> 3 * RoundLimit + 1
    [] phase = "revise"   -> 3 * RoundsLeft + 3
    [] phase = "rereview" -> 3 * RoundsLeft + 2
    [] phase = "close"    -> 3 * RoundsLeft + 1
    [] OTHER              -> 0

LEMMA RoundsType ==
  ASSUME FactsInv
  PROVE  /\ RoundLimit \in Nat /\ local.round \in 0 .. RoundLimit /\ RoundsLeft \in 0 .. RoundLimit
         /\ phase \in Closing => RoundsLeft < RoundLimit
PROOF
<1>1. RoundLimit \in Nat /\ local.round \in 0 .. RoundLimit
  BY RoundLimitType DEF FactsInv, TypeOK, Locals
<1>2. phase \in Closing => local.round >= 1
  BY DEF FactsInv, PhaseInv
<1>3. QED
  BY <1>1, <1>2 DEF RoundsLeft

LEMMA ReturnEnds ==
  ASSUME FactsInv, phase \notin {"idle", "raised"},
         phase' \in {"idle", "raised"}
  PROVE  StepsLeft' < StepsLeft
PROOF
<1>1. StepsLeft' = 0
  BY DEF StepsLeft
<1>2. phase \in {"plan", "gate", "review", "decide", "revise", "rereview", "close"}
  BY DEF FactsInv, TypeOK, Phases
<1>3. StepsLeft \in Nat /\ StepsLeft > 0
  BY <1>2, RoundsType DEF StepsLeft
<1>4. QED
  BY <1>1, <1>3

LEMMA StepsFall ==
  ASSUME FactsInv, Next, phase \notin {"idle", "raised"}
  PROVE  StepsLeft' < StepsLeft
PROOF
<1>1. Step
  BY DEF Next, Environment, Resume, ResumeRejected, ResumeAnswered, Answer, OwnerCommits
<1>2. CASE phase' \in {"idle", "raised"}
  BY <1>2, ReturnEnds
<1>3. ASSUME phase' \notin {"idle", "raised"}
      PROVE  \/ phase = "plan" /\ phase' = "gate"
             \/ phase = "gate" /\ phase' = "review"
             \/ phase = "review" /\ phase' = "decide"
             \/ phase = "decide" /\ phase' = "revise" /\ local'.round = 1
             \/ phase = "revise" /\ phase' = "rereview" /\ local'.round = local.round
             \/ phase = "rereview" /\ phase' = "close" /\ local'.round = local.round
             \/ phase = "close" /\ phase' = "revise" /\ local'.round = local.round + 1
  <2>1. local \in Locals
    BY DEF FactsInv, TypeOK
  <2>2. CASE Barrier \/ Generate \/ GenerationFails
    BY <1>3, <2>2 DEF Barrier, Generate, GenerationFails, Return
  <2>3. CASE Reuse \/ EnterRaises \/ EnterBlocked \/ Enter \/ Review
    BY <1>3, <2>3 DEF Reuse, EnterRaises, EnterBlocked, Enter, Review, Return, Raise, Block
  <2>4. CASE DecideAdvisory \/ Approve \/ AskHuman \/ StartClosure \/ DecideBlocked
    BY <1>3, <2>1, <2>4 DEF DecideAdvisory, Approve, AskHuman, StartClosure, DecideBlocked, Accept,
       Return, Raise, Block, Locals
  <2>5. CASE RevisionFails \/ Revise \/ Rereview
    BY <1>3, <2>1, <2>5 DEF RevisionFails, Revise, Rereview, Return, Block, Locals
  <2>6. CASE CommitCandidate \/ NextRound \/ ClosureBlocked
    BY <1>3, <2>1, <2>6 DEF CommitCandidate, NextRound, ClosureBlocked, Accept, Return, Raise, Block,
       Locals
  <2>7. QED
    BY <1>1, <2>2, <2>3, <2>4, <2>5, <2>6 DEF Step
<1>4. CASE phase' \notin {"idle", "raised"}
  <2>1. RoundLimit' = RoundLimit
    BY DEF RoundLimit
  <2>2. RoundLimit \in Nat /\ local.round \in Int
    BY RoundsType
  <2>3. QED
    BY <1>3, <1>4, <2>1, <2>2 DEF StepsLeft, RoundsLeft
<1>5. QED
  BY <1>2, <1>4

(* A call of the executor leaves the Facts gate after at most three steps  *)
(* per closure round and four more, whatever reviewer and reviser answer   *)
(* (_run_facts_gate, closure_round_limit): each of its steps lowers what   *)
(* is left, which never exceeds that.                                      *)
THEOREM GateCallsAreBounded ==
  Spec => /\ [](StepsLeft \in 0 .. 3 * RoundLimit + 4)
          /\ [][ phase \notin {"idle", "raised"} => StepsLeft' < StepsLeft ]_vars
PROOF
<1>1. FactsInv => StepsLeft \in 0 .. 3 * RoundLimit + 4
  BY RoundsType DEF StepsLeft, Closing
<1>2. FactsInv /\ [Next]_vars =>
        [ phase \notin {"idle", "raised"} => StepsLeft' < StepsLeft ]_vars
  BY StepsFall
<1>3. QED
  BY <1>1, <1>2, GateInvariant, PTL DEF Spec

=============================================================================
