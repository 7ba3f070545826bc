---------------------- MODULE RetryController_proofs ----------------------
(***************************************************************************)
(* Theorems about RetryController for every plan, policy table and budget. *)
(* The first part is about the requests: types, the pending list, the      *)
(* lifecycles.  The second is about the plan state that the loop repairs:  *)
(* nothing stale is left valid, assembled or accepted, and a plan whose    *)
(* assembled-plan gate stands accepted is the assembly of the patches that *)
(* are there, with every other gate's acceptance of those patches.         *)
(***************************************************************************)
EXTENDS RetryController, PlanPatchGraph_proofs, SequenceTheorems

-----------------------------------------------------------------------------
(* Which actions touch which part of the state.                            *)
LEMMA StateSteps ==
  [Next]_vars =>
    \/ UNCHANGED stateVars
    \/ \E p \in Required : GeneratePatch(p)
    \/ \E g \in ReviewGates : AcceptGate(g)
    \/ \E g \in ReviewGates : RejectGate(g)
    \/ \E g \in ReviewGates : BlockGate(g)
    \/ \E c \in ContentsOf["facts"] : ReviseFacts(c)
    \/ \E why \in ReadinessReasons : FindUnready(why)
    \/ Assemble
    \/ \E why \in AssemblyIssues : FailAssembly(why)
    \/ ReturnFromLoop
    \/ \E id \in Ids : RecomputeTaskPlan(id)
    \/ \E id \in Ids : BuildTaskPlan(id)
    \/ CommitOwner
PROOF
<1> SUFFICES ASSUME [Next]_vars, ~ UNCHANGED stateVars
             PROVE  \/ \E p \in Required : GeneratePatch(p)
                    \/ \E g \in ReviewGates : AcceptGate(g)
                    \/ \E g \in ReviewGates : RejectGate(g)
                    \/ \E g \in ReviewGates : BlockGate(g)
                    \/ \E c \in ContentsOf["facts"] : ReviseFacts(c)
                    \/ \E why \in ReadinessReasons : FindUnready(why)
                    \/ Assemble
                    \/ \E why \in AssemblyIssues : FailAssembly(why)
                    \/ ReturnFromLoop
                    \/ \E id \in Ids : RecomputeTaskPlan(id)
                    \/ \E id \in Ids : BuildTaskPlan(id)
                    \/ CommitOwner
  OBVIOUS
<1>1. Next
  BY DEF vars
<1>2. \A caller : ~EnterLoop(caller)
  BY DEF EnterLoop
<1>3. CASE Planner
  <2>1. \A g, why : ~ReportFinding(g, why)
    BY DEF ReportFinding
  <2>2. \A why : ~RetryPlacementDependency(why)
    BY DEF RetryPlacementDependency
  <2>3. \A why : ~PostRequest(why)
    BY DEF PostRequest
  <2>4. \A id : ~AnswerHuman(id)
    BY DEF AnswerHuman
  <2>5. QED
    BY <1>3, <2>1, <2>2, <2>3, <2>4 DEF Planner
<1>4. CASE Loop
  <2>1. ~LeaveLoop /\ ~StopOnCycle /\ ~PassCycleCheck
    BY DEF LeaveLoop, StopOnCycle, PassCycleCheck
  <2>2. ~FailAcceptance /\ ~RollBackCommit
    BY DEF FailAcceptance, RollBackCommit
  <2>3. ASSUME NEW id \in Ids, Iteration(id)
        PROVE  RecomputeTaskPlan(id) \/ BuildTaskPlan(id)
    <3>1. ~LoopOff(id) /\ ~RefuseRequest(id) /\ ~RecordAdvisory(id)
      BY DEF LoopOff, RefuseRequest, RecordAdvisory
    <3>2. ~AwaitHuman(id) /\ ~RecomputeUnavailable(id)
      BY DEF AwaitHuman, RecomputeUnavailable
    <3>3. ~FailWithoutOwner(id) /\ ~FailProduction(id)
      BY DEF FailWithoutOwner, FailProduction
    <3>4. ~Candidate(id)
      <4>1. \A cost : ~ExhaustLlmBudget(id, cost)
        BY DEF ExhaustLlmBudget
      <4>2. \A cost, rejected : ~Produce(id, cost, rejected)
        BY DEF Produce
      <4>3. QED
        BY <4>1, <4>2 DEF Candidate
    <3>5. QED
      BY <2>3, <3>1, <3>2, <3>3, <3>4 DEF Iteration
  <2>4. QED
    BY <1>4, <2>1, <2>2, <2>3 DEF Loop
<1>5. QED
  BY <1>1, <1>2, <1>3, <1>4 DEF Next

(* The mode is what the state was given.                                   *)
LEMMA ModeStays == [Next]_vars => mode' = mode
PROOF
  BY DEF vars, Next, Planner, Loop, Iteration, Candidate, GeneratePatch, AcceptGate,
         RejectGate, BlockGate, ReviseFacts, ReportFinding, RetryPlacementDependency,
         FindUnready, PostRequest, Assemble, FailAssembly, AnswerHuman, EnterLoop, LeaveLoop,
         ReturnFromLoop, LoopOff, RefuseRequest, RecordAdvisory, AwaitHuman,
         RecomputeTaskPlan, BuildTaskPlan, RecomputeUnavailable, FailWithoutOwner,
         FailProduction, ExhaustLlmBudget, Produce, StopOnCycle, PassCycleCheck,
         FailAcceptance, CommitOwner, RollBackCommit

-----------------------------------------------------------------------------
(* The control points of a candidate are reached by Produce and            *)
(* PassCycleCheck only.                                                    *)
LEMMA CandidateSteps ==
  [Next]_vars /\ pc' \in {"check", "accept"} =>
    \/ UNCHANGED vars
    \/ \E id \in Ids : \E cost : \E rejected \in SUBSET Owners(requests[id]) :
          Produce(id, cost, rejected)
    \/ PassCycleCheck
PROOF
<1> SUFFICES ASSUME Next, pc' \in {"check", "accept"}
             PROVE  \/ \E id \in Ids : \E cost : \E rejected \in SUBSET Owners(requests[id]) :
                         Produce(id, cost, rejected)
                    \/ PassCycleCheck
  OBVIOUS
<1>1. \A caller : ~EnterLoop(caller)
  BY DEF EnterLoop
<1>2. ~Planner
  <2>1. /\ \A p : ~GeneratePatch(p)
        /\ \A g : ~AcceptGate(g)
        /\ \A g : ~RejectGate(g)
        /\ \A g : ~BlockGate(g)
        /\ \A c : ~ReviseFacts(c)
    BY DEF GeneratePatch, AcceptGate, RejectGate, BlockGate, ReviseFacts, MayReview
  <2>2. /\ \A g, why : ~ReportFinding(g, why)
        /\ \A why : ~RetryPlacementDependency(why)
        /\ \A why : ~FindUnready(why)
        /\ \A why : ~PostRequest(why)
    BY DEF ReportFinding, RetryPlacementDependency, FindUnready, PostRequest, Rejecting, AllGenerated
  <2>3. /\ ~Assemble
        /\ \A why : ~FailAssembly(why)
        /\ \A id : ~AnswerHuman(id)
    BY DEF Assemble, FailAssembly, AllGenerated, AnswerHuman
  <2>4. QED
    BY <2>1, <2>2, <2>3 DEF Planner
<1>3. /\ ~LeaveLoop /\ ~ReturnFromLoop /\ ~StopOnCycle
      /\ ~FailAcceptance /\ ~CommitOwner /\ ~RollBackCommit
  BY DEF LeaveLoop, ReturnFromLoop, StopOnCycle, FailAcceptance, CommitOwner, RollBackCommit
<1>4. ASSUME NEW id \in Ids, Iteration(id)
      PROVE  \E cost : \E rejected \in SUBSET Owners(requests[id]) :
               Produce(id, cost, rejected)
  <2> USE DEF Selected, Compiled, Controlled, Regenerates
  <2>1. /\ ~LoopOff(id) /\ ~RefuseRequest(id) /\ ~RecordAdvisory(id)
        /\ ~AwaitHuman(id) /\ ~RecomputeUnavailable(id)
    BY DEF LoopOff, RefuseRequest, RecordAdvisory, AwaitHuman, RecomputeUnavailable
  <2>2. ~RecomputeTaskPlan(id) /\ ~BuildTaskPlan(id)
    BY DEF RecomputeTaskPlan, BuildTaskPlan
  <2>3. ~FailWithoutOwner(id) /\ ~FailProduction(id)
    BY DEF FailWithoutOwner, FailProduction
  <2>4. \A cost : ~ExhaustLlmBudget(id, cost)
    BY DEF ExhaustLlmBudget
  <2>5. QED
    BY <1>4, <2>1, <2>2, <2>3, <2>4 DEF Iteration, Candidate
<1>5. QED
  BY <1>1, <1>2, <1>3, <1>4 DEF Next, Loop

-----------------------------------------------------------------------------
(* Requests: what their two primitives do.                                 *)
LEMMA TerminalType == Terminal \subseteq Lifecycles /\ "pending" \in Lifecycles \ Terminal
PROOF BY DEF Terminal, Lifecycles

LEMMA SetLifecycleSets ==
  ASSUME RequestTypeOK, NEW id \in Ids, NEW lifecycle \in Lifecycles,
         SetLifecycle(id, lifecycle)
  PROVE  /\ RequestTypeOK'
         /\ Ids' = Ids
         /\ requests'[id] = [ requests[id] EXCEPT !.lifecycle = lifecycle ]
         /\ \A other \in Ids \ {id} : requests'[other] = requests[other]
PROOF
<1> DEFINE r == [ requests[id] EXCEPT !.lifecycle = lifecycle ]
<1>1. requests \in Seq(Requests) /\ id \in 1..Len(requests)
  BY DEF RequestTypeOK, Ids
<1>2. requests[id] \in Requests
  BY <1>1, ElementOfSeq
<1>3. r \in Requests
  BY <1>2 DEF Requests, Owners
<1>4. requests' = [ requests EXCEPT ![id] = r ]
  BY DEF SetLifecycle
<1> HIDE DEF r
<1>5. /\ requests' \in Seq(Requests) /\ Len(requests') = Len(requests)
      /\ \A j \in 1..Len(requests) : requests'[j] = IF j = id THEN r ELSE requests[j]
  BY <1>1, <1>3, <1>4, ExceptSeq
<1>6. Ids' = Ids
  BY <1>5 DEF Ids
<1>7. pending' \subseteq Ids'
  BY <1>6 DEF SetLifecycle, RequestTypeOK
<1>8. QED
  BY <1>1, <1>5, <1>6, <1>7 DEF RequestTypeOK, Ids, r

LEMMA NewRequestType ==
  ASSUME StateTypeOK, NEW why \in Reasons,
         NEW input \in UNION { Hashes(S) : S \in SUBSET Required }
  PROVE  NewRequest(why, input) \in Requests
PROOF
<1>1. OwnerPolicy[why].owners \in Seq(PatchTypes)
  BY PolicyAssumption DEF Policies
<1>2. Image(OwnerPolicy[why].owners) \in SUBSET PatchTypes
  BY <1>1, ElementOfSeq, LenProperties DEF Image
<1>3. \A p : HashOf(p) \in Contents \cup {NoContent}
  BY DEF StateTypeOK, HashOf, Hashes
<1> DEFINE hashes == [ p \in Image(OwnerPolicy[why].owners) |-> HashOf(p) ]
<1>4. hashes \in [Image(OwnerPolicy[why].owners) -> Contents \cup {NoContent}]
  BY <1>3
<1>5. hashes \in UNION { Hashes(S) : S \in SUBSET PatchTypes }
  BY <1>2, <1>4 DEF Hashes
<1>6. taskPlan \in TaskPlans \cup {NoTaskPlan}
  BY DEF StateTypeOK
<1>7. QED
  BY <1>1, <1>5, <1>6, TerminalType DEF NewRequest, Requests, Owners, Hashes

LEMMA RegisterAppends ==
  ASSUME RequestTypeOK, NEW r \in Requests, Register(r)
  PROVE  \/ UNCHANGED requestVars
         \/ /\ RequestTypeOK'
            /\ Ids' = Ids \cup { Len(requests) + 1 } /\ Len(requests) + 1 \notin Ids
            /\ requests'[Len(requests) + 1] = r
            /\ \A other \in Ids : requests'[other] = requests[other]
            /\ pending' = pending \cup { Len(requests) + 1 }
PROOF
<1>1. requests \in Seq(Requests) /\ pending \subseteq 1..Len(requests)
  BY DEF RequestTypeOK, Ids
<1>2. CASE UNCHANGED requestVars
  BY <1>2
<1>3. CASE requests' = Append(requests, r) /\ pending' = pending \cup { Len(requests) + 1 }
  <2>1. /\ requests' \in Seq(Requests) /\ Len(requests') = Len(requests) + 1
        /\ \A j \in 1..Len(requests) : requests'[j] = requests[j]
        /\ requests'[Len(requests) + 1] = r
    BY <1>1, <1>3, AppendProperties
  <2>2. Len(requests) \in Nat
    BY <1>1, LenProperties
  <2>3. Ids' = Ids \cup { Len(requests) + 1 } /\ Len(requests) + 1 \notin Ids
    BY <2>1, <2>2 DEF Ids
  <2>4. RequestTypeOK'
    BY <1>1, <1>3, <2>1, <2>3 DEF RequestTypeOK, Ids
  <2>5. QED
    BY <1>3, <2>1, <2>3, <2>4 DEF Ids
<1>4. QED
  BY <1>2, <1>3 DEF Register

-----------------------------------------------------------------------------
(* A candidate for every owner belongs to a request still being worked on: *)
(* the request of a candidate that failed is finished, and what it lacks   *)
(* keeps it from being committed.                                          *)
CandidateIsLive ==
  pc \in {"check", "accept"} /\ DOMAIN loop.candidate = Owners(requests[loop.request])
    => Live(loop.request)

Inputs == UNION { Hashes(S) : S \in SUBSET Required }

LEMMA InputsType ==
  ASSUME StateTypeOK
  PROVE  NoInput \in Inputs /\ \A g : InputOf(g) \in Inputs
PROOF
<1>1. NoInput \in [{} -> Contents \cup {NoContent}]
  BY DEF NoInput
<1>2. \A g : GateInputs(g) \in SUBSET Required
  BY DEF GateInputs
<1>3. \A g : InputOf(g) \in [GateInputs(g) -> Contents \cup {NoContent}]
  BY <1>2 DEF InputOf, StateTypeOK, Hashes
<1>4. QED
  BY <1>1, <1>2, <1>3 DEF Inputs, Hashes

(* The three things a step can do to the requests.                         *)
LEMMA RequestSteps ==
  ASSUME TypeOK, PendingIsLive, CandidateIsLive, [Next]_vars
  PROVE  \/ UNCHANGED requestVars
         \/ \E why \in Reasons, input \in Inputs : Register(NewRequest(why, input))
         \/ \E id \in Ids, lifecycle \in Lifecycles :
              SetLifecycle(id, lifecycle) /\ (Live(id) \/ lifecycle \in Terminal)
PROOF
<1> DEFINE Registers == \E why \in Reasons, input \in Inputs : Register(NewRequest(why, input))
           Sets == \E id \in Ids, lifecycle \in Lifecycles :
                     SetLifecycle(id, lifecycle) /\ (Live(id) \/ lifecycle \in Terminal)
<1>1. \A id : Selected(id) => id \in Ids /\ Live(id)
  BY DEF Selected, PendingIsLive
<1>2. \A id \in Ids, lifecycle \in Terminal : SetLifecycle(id, lifecycle) => Sets
  BY TerminalType
<1>3. \A id \in Ids, lifecycle \in Lifecycles :
        Live(id) /\ SetLifecycle(id, lifecycle) => Sets
  OBVIOUS
<1>4. /\ {"resolved", "superseded", "no_progress", "blocked", "failed"} \subseteq Terminal
      /\ {"awaiting_human", "owner_committed"} \subseteq Lifecycles
  BY DEF Terminal, Lifecycles
<1>5. NoInput \in Inputs /\ \A g : InputOf(g) \in Inputs
  BY InputsType DEF TypeOK
<1> HIDE DEF Registers, Sets
<1>6. CASE UNCHANGED vars
  BY <1>6 DEF vars
<1>7. CASE Planner
  <2>1. ASSUME NEW g \in ReviewGates, NEW why \in GateReasons[g], ReportFinding(g, why)
        PROVE  Registers
    <3>1. why \in Reasons
      BY PolicyAssumption
    <3>2. QED
      BY <1>5, <2>1, <3>1 DEF ReportFinding, Registers
  <2>2. ASSUME NEW why \in Reasons, RetryPlacementDependency(why)
        PROVE  Registers
    BY <1>5, <2>2 DEF RetryPlacementDependency, Registers
  <2>3. ASSUME NEW why \in ReadinessReasons, FindUnready(why)
        PROVE  Registers
    BY <1>5, <2>3, PolicyAssumption DEF FindUnready, Registers
  <2>4. ASSUME NEW why \in DirectReasons, PostRequest(why)
        PROVE  Registers
    BY <1>5, <2>4, PolicyAssumption DEF PostRequest, Registers
  <2>5. ASSUME NEW id \in Ids, AnswerHuman(id)
        PROVE  Sets
    BY <1>2, <1>4, <2>5 DEF AnswerHuman
  <2>6. /\ \A p : GeneratePatch(p) => UNCHANGED requestVars
        /\ \A g : AcceptGate(g) => UNCHANGED requestVars
        /\ \A g : RejectGate(g) => UNCHANGED requestVars
        /\ \A g : BlockGate(g) => UNCHANGED requestVars
        /\ \A c : ReviseFacts(c) => UNCHANGED requestVars
        /\ Assemble => UNCHANGED requestVars
        /\ \A why : FailAssembly(why) => UNCHANGED requestVars
    BY DEF GeneratePatch, AcceptGate, RejectGate, BlockGate, ReviseFacts, Assemble, FailAssembly
  <2>7. QED
    BY <1>7, <2>1, <2>2, <2>3, <2>4, <2>5, <2>6 DEF Planner, Registers, Sets
<1>8. ASSUME NEW caller, EnterLoop(caller)
      PROVE  UNCHANGED requestVars
  BY <1>8 DEF EnterLoop
<1>9. CASE Loop
  <2>1. (LeaveLoop \/ ReturnFromLoop \/ PassCycleCheck) => UNCHANGED requestVars
    BY DEF LeaveLoop, ReturnFromLoop, PassCycleCheck
  <2>2. ASSUME NEW id \in Ids, Iteration(id)
        PROVE  UNCHANGED requestVars \/ Sets
    <3> USE DEF Compiled, Controlled, Regenerates
    <3>1. (LoopOff(id) \/ RecordAdvisory(id)) => UNCHANGED requestVars
      BY DEF LoopOff, RecordAdvisory
    <3>2. (RefuseRequest(id) \/ RecomputeUnavailable(id)) => Sets
      BY <1>2, <1>4 DEF RefuseRequest, RecomputeUnavailable
    <3>3. (AwaitHuman(id) \/ RecomputeTaskPlan(id) \/ BuildTaskPlan(id)) => Sets
      BY <1>1, <1>3, <1>4 DEF AwaitHuman, RecomputeTaskPlan, BuildTaskPlan
    <3>4. (FailWithoutOwner(id) \/ FailProduction(id)) => Sets
      BY <1>2, <1>4 DEF FailWithoutOwner, FailProduction
    <3>5. \A cost : ExhaustLlmBudget(id, cost) => Sets
      BY <1>2, <1>4 DEF ExhaustLlmBudget
    <3>6. \A cost, rejected : Produce(id, cost, rejected) => UNCHANGED requestVars \/ Sets
      BY <1>2, <1>4 DEF Produce
    <3>7. QED
      BY <2>2, <3>1, <3>2, <3>3, <3>4, <3>5, <3>6 DEF Iteration, Candidate
  <2>3. pc \in {"check", "accept"} => loop.request \in Ids
    BY DEF TypeOK, ControlTypeOK
  <2>4. StopOnCycle => Sets
    BY <1>2, <1>4, <2>3 DEF StopOnCycle
  <2>5. FailAcceptance => UNCHANGED requestVars \/ Sets
    BY <1>2, <1>4, <2>3 DEF FailAcceptance
  <2>6. ASSUME CommitOwner
        PROVE  Sets
    <3>1. loop.request \in Ids /\ Live(loop.request)
      BY <2>3, <2>6 DEF CommitOwner, CandidateIsLive
    <3>2. \E lifecycle \in {"resolved", "owner_committed"} :
            SetLifecycle(loop.request, lifecycle)
      BY <2>6 DEF CommitOwner
    <3>3. QED
      BY <1>3, <1>4, <3>1, <3>2, TerminalType
  <2>7. RollBackCommit => Sets
    BY <1>2, <1>4, <2>3 DEF RollBackCommit
  <2>8. QED
    BY <1>9, <2>1, <2>2, <2>4, <2>5, <2>6, <2>7 DEF Loop, Sets
<1>10. QED
  BY <1>6, <1>7, <1>8, <1>9 DEF Next, Registers, Sets

(* No step loses a request or rewrites what it is about; a finished one    *)
(* stays finished and the pending list keeps to the live ones.             *)
LEMMA RequestsKept ==
  ASSUME TypeOK, PendingIsLive, CandidateIsLive, [Next]_vars
  PROVE  /\ RequestTypeOK'
         /\ PendingIsLive'
         /\ Ids \subseteq Ids'
         /\ \A id \in Ids : ~Live(id) => requests'[id].lifecycle \in Terminal
         /\ \A id \in Ids : \E lifecycle :
              requests'[id] = [ requests[id] EXCEPT !.lifecycle = lifecycle ]
PROOF
<1>1. RequestTypeOK /\ StateTypeOK
  BY DEF TypeOK
<1>2. \A id \in Ids : requests[id] \in Requests
  BY <1>1, ElementOfSeq DEF RequestTypeOK, Ids
<1>3. \A id \in Ids : requests[id] = [ requests[id] EXCEPT !.lifecycle = requests[id].lifecycle ]
  BY <1>2 DEF Requests
<1>4. CASE UNCHANGED requestVars
  BY <1>1, <1>3, <1>4 DEF requestVars, RequestTypeOK, PendingIsLive, Ids, Live
<1>5. ASSUME NEW why \in Reasons, NEW input \in Inputs, Register(NewRequest(why, input)),
             ~ UNCHANGED requestVars
      PROVE  /\ RequestTypeOK'
             /\ PendingIsLive'
             /\ Ids \subseteq Ids'
             /\ \A id \in Ids : requests'[id] = requests[id]
  <2> DEFINE r == NewRequest(why, input)
  <2>1. r \in Requests /\ r.lifecycle = "pending"
    BY <1>1, NewRequestType DEF Inputs, NewRequest
  <2> HIDE DEF r
  <2>2. Register(r)
    BY <1>5 DEF r
  <2>3. /\ RequestTypeOK'
        /\ Ids' = Ids \cup { Len(requests) + 1 } /\ Len(requests) + 1 \notin Ids
        /\ requests'[Len(requests) + 1] = r
        /\ \A other \in Ids : requests'[other] = requests[other]
        /\ pending' = pending \cup { Len(requests) + 1 }
    BY <1>1, <1>5, <2>1, <2>2, RegisterAppends
  <2>4. \A id \in Ids : requests'[id].lifecycle = requests[id].lifecycle
    BY <2>3
  <2>5. requests'[Len(requests) + 1].lifecycle \notin Terminal
    BY <2>1, <2>3, TerminalType
  <2>6. PendingIsLive'
    BY <2>3, <2>4, <2>5 DEF PendingIsLive, Live
  <2>7. QED
    BY <2>3, <2>6
<1>6. ASSUME NEW id \in Ids, NEW lifecycle \in Lifecycles, SetLifecycle(id, lifecycle),
             Live(id) \/ lifecycle \in Terminal
      PROVE  /\ RequestTypeOK'
             /\ PendingIsLive'
             /\ Ids \subseteq Ids'
             /\ requests'[id] = [ requests[id] EXCEPT !.lifecycle = lifecycle ]
             /\ requests'[id].lifecycle = lifecycle
             /\ \A other \in Ids \ {id} : requests'[other] = requests[other]
  <2>1. /\ RequestTypeOK'
        /\ Ids' = Ids
        /\ requests'[id] = [ requests[id] EXCEPT !.lifecycle = lifecycle ]
        /\ \A other \in Ids \ {id} : requests'[other] = requests[other]
    BY <1>1, <1>6, SetLifecycleSets
  <2>2. requests'[id].lifecycle = lifecycle
    BY <1>2, <2>1 DEF Requests
  <2>3. pending' = IF lifecycle \in Terminal THEN pending \ {id} ELSE pending
    BY <1>6 DEF SetLifecycle
  <2>4. \A other \in Ids \ {id} : requests'[other].lifecycle = requests[other].lifecycle
    BY <2>1
  <2>5. PendingIsLive'
    BY <1>6, <2>1, <2>2, <2>3, <2>4 DEF PendingIsLive, Live
  <2>6. QED
    BY <2>1, <2>2, <2>5
<1>7. CASE \E why \in Reasons, input \in Inputs : Register(NewRequest(why, input))
  BY <1>3, <1>4, <1>5, <1>7 DEF Live
<1>8. CASE \E id \in Ids, lifecycle \in Lifecycles :
             SetLifecycle(id, lifecycle) /\ (Live(id) \/ lifecycle \in Terminal)
  <2>1. PICK id \in Ids, lifecycle \in Lifecycles :
              SetLifecycle(id, lifecycle) /\ (Live(id) \/ lifecycle \in Terminal)
    BY <1>8
  <2>2. /\ RequestTypeOK' /\ PendingIsLive' /\ Ids \subseteq Ids'
        /\ requests'[id] = [ requests[id] EXCEPT !.lifecycle = lifecycle ]
        /\ requests'[id].lifecycle = lifecycle
        /\ \A other \in Ids \ {id} : requests'[other] = requests[other]
    BY <1>6, <2>1
  <2>3. \A other \in Ids : ~Live(other) => requests'[other].lifecycle \in Terminal
    BY <2>1, <2>2 DEF Live
  <2>4. \A other \in Ids : \E l : requests'[other] = [ requests[other] EXCEPT !.lifecycle = l ]
    BY <1>3, <2>2
  <2>5. QED
    BY <2>2, <2>3, <2>4
<1>9. QED
  BY <1>4, <1>7, <1>8, RequestSteps

-----------------------------------------------------------------------------
(* Types of the plan state.                                                *)
LEMMA InvalidateType ==
  ASSUME StateTypeOK, NEW types, InvalidateGates(types)
  PROVE  stage' \in [ReviewGates -> Stages]
PROOF BY DEF InvalidateGates, StateTypeOK, Stages

LEMMA WithoutType ==
  ASSUME StateTypeOK, NEW types
  PROVE  /\ Without(types, content) \in Hashes(Required)
         /\ \A p \in Required : Without(types, content)[p] \in ContentsOf[p] \cup {NoContent}
PROOF BY DEF Without, StateTypeOK, Hashes

LEMMA IssuesWithoutType ==
  ASSUME StateTypeOK, NEW types
  PROVE  IssuesWithout(types) \subseteq Reasons \cup AssemblyIssues
PROOF BY DEF IssuesWithout, StateTypeOK

LEMMA TaskPlanType ==
  ASSUME StateTypeOK
  PROVE  TaskPlanOf[content["facts"]] \in TaskPlans
PROOF BY RequiredAssumption DEF StateTypeOK, TaskPlans

LEMMA StateTypeStep ==
  ASSUME TypeOK, [Next]_vars
  PROVE  StateTypeOK'
PROOF
<1> StateTypeOK /\ ControlTypeOK
  BY DEF TypeOK
<1>1. CASE UNCHANGED stateVars
  BY <1>1 DEF stateVars, StateTypeOK
<1>2. ASSUME NEW p \in Required, GeneratePatch(p)
      PROVE  StateTypeOK'
  <2>1. PICK c \in ContentsOf[p] : content' = [ content EXCEPT ![p] = c ]
    BY <1>2 DEF GeneratePatch
  <2>2. c \in Contents
    BY <2>1 DEF Contents
  <2>3. /\ content' \in Hashes(Required)
        /\ \A q \in Required : content'[q] \in ContentsOf[q] \cup {NoContent}
    BY <2>1, <2>2 DEF StateTypeOK, Hashes
  <2>4. DOMAIN basis' = Required
    BY <1>2 DEF GeneratePatch, StateTypeOK
  <2>5. QED
    BY <1>2, <2>3, <2>4 DEF GeneratePatch, StateTypeOK
<1>3. ASSUME NEW g \in ReviewGates, AcceptGate(g)
      PROVE  StateTypeOK'
  <2>1. taskPlan' \in TaskPlans \cup {NoTaskPlan}
    BY <1>3, TaskPlanType DEF AcceptGate, StateTypeOK
  <2>2. /\ stage' = [ stage EXCEPT ![g] = "accepted" ] /\ scoped' \in BOOLEAN
        /\ acceptedPlan' = [ acceptedPlan EXCEPT ![g] = taskPlan ]
        /\ DOMAIN acceptedOf' = ReviewGates
        /\ UNCHANGED << content, basis, issues >>
    BY <1>3 DEF AcceptGate, Scope, StateTypeOK
  <2>3. QED
    BY <2>1, <2>2 DEF StateTypeOK, Stages
<1>4. ASSUME NEW g \in ReviewGates, RejectGate(g) \/ BlockGate(g)
      PROVE  StateTypeOK'
  BY <1>4 DEF RejectGate, BlockGate, Scope, StateTypeOK, Stages
<1>5. ASSUME NEW why \in ReadinessReasons, FindUnready(why)
      PROVE  StateTypeOK'
  BY <1>5, PolicyAssumption DEF FindUnready, StateTypeOK
<1>6. CASE Assemble
  BY <1>6 DEF Assemble, StateTypeOK
<1>7. ASSUME NEW why \in AssemblyIssues, FailAssembly(why)
      PROVE  StateTypeOK'
  BY <1>7 DEF FailAssembly, StateTypeOK
<1>8. CASE ReturnFromLoop
  BY <1>8 DEF ReturnFromLoop, StateTypeOK, Stages
<1>9. ASSUME NEW id \in Ids, RecomputeTaskPlan(id)
      PROVE  StateTypeOK'
  <2>1. stage' \in [ReviewGates -> Stages]
    BY <1>9, InvalidateType DEF RecomputeTaskPlan
  <2>2. issues' \subseteq Reasons \cup AssemblyIssues
    BY <1>9, IssuesWithoutType DEF RecomputeTaskPlan
  <2>3. content' = Without(Required, content) /\ taskPlan' \in TaskPlans
    BY <1>9, TaskPlanType DEF RecomputeTaskPlan
  <2>4. DOMAIN basis' = Required /\ DOMAIN acceptedOf' = ReviewGates
    BY <1>9 DEF RecomputeTaskPlan, StateTypeOK
  <2>5. UNCHANGED << scoped, acceptedPlan >>
    BY <1>9 DEF RecomputeTaskPlan
  <2>6. QED
    BY <2>1, <2>2, <2>3, <2>4, <2>5, WithoutType DEF StateTypeOK
<1>10. CASE CommitOwner
  <2> DEFINE owners == DOMAIN loop.candidate
             dependents == TransitiveDependents(owners) \ owners
  <2>1. /\ content' = [ p \in Required |-> IF p \in owners THEN loop.candidate[p]
                                           ELSE Without(dependents, content)[p] ]
        /\ DOMAIN basis' = Required
        /\ issues' = IssuesWithout(dependents)
        /\ InvalidateGates(dependents \cup owners)
        /\ UNCHANGED << scoped, taskPlan, acceptedOf, acceptedPlan >>
    BY <1>10 DEF CommitOwner
  <2>2. \A p \in owners : loop.candidate[p] \in ContentsOf[p]
    BY <1>10 DEF CommitOwner, ControlTypeOK
  <2>3. /\ \A p \in Required : content'[p] \in ContentsOf[p] \cup {NoContent}
        /\ content' \in Hashes(Required)
    <3>1. \A p \in Required : Without(dependents, content)[p] \in ContentsOf[p] \cup {NoContent}
      BY WithoutType
    <3> HIDE DEF owners, dependents
    <3>2. \A p \in Required : content'[p] \in ContentsOf[p] \cup {NoContent}
      BY <2>1, <2>2, <3>1
    <3>3. \A p \in Required : content'[p] \in Contents \cup {NoContent}
      BY <3>2 DEF Contents
    <3>4. QED
      BY <2>1, <3>2, <3>3 DEF Hashes
  <2>4. stage' \in [ReviewGates -> Stages]
    BY <2>1, InvalidateType
  <2>5. issues' \subseteq Reasons \cup AssemblyIssues
    BY <2>1, IssuesWithoutType
  <2>6. QED
    BY <2>1, <2>3, <2>4, <2>5 DEF StateTypeOK
<1>11. ASSUME NEW c \in ContentsOf["facts"], ReviseFacts(c)
       PROVE  StateTypeOK'
  <2>1. /\ content' = [ Without(TransitiveDependents({"facts"}), content) EXCEPT !["facts"] = c ]
        /\ DOMAIN basis' = Required /\ issues' = {} /\ scoped' \in BOOLEAN
        /\ stage' = [ stage EXCEPT !["facts"] = "accepted" ]
        /\ DOMAIN acceptedOf' = ReviewGates /\ UNCHANGED << taskPlan, acceptedPlan >>
    BY <1>11 DEF ReviseFacts, Scope, StateTypeOK
  <2>2. c \in Contents
    BY RequiredAssumption DEF Contents
  <2>3. /\ content' \in Hashes(Required)
        /\ \A p \in Required : content'[p] \in ContentsOf[p] \cup {NoContent}
    BY <2>1, <2>2, WithoutType DEF Hashes
  <2>4. QED
    BY <2>1, <2>3 DEF StateTypeOK, Stages
<1>12. ASSUME NEW id \in Ids, BuildTaskPlan(id)
       PROVE  StateTypeOK'
  <2>1. taskPlan' \in TaskPlans
    BY <1>12, TaskPlanType DEF BuildTaskPlan
  <2>2. QED
    BY <1>12, <2>1 DEF BuildTaskPlan, StateTypeOK
<1>13. QED
  BY <1>1, <1>2, <1>3, <1>4, <1>5, <1>6, <1>7, <1>8, <1>9, <1>10, <1>11, <1>12, StateSteps

-----------------------------------------------------------------------------
(* Types of the ledgers.                                                   *)
LEMMA LedgerSteps ==
  [Next]_vars =>
    \/ UNCHANGED ledgerVars
    \/ \E id \in Ids, cost \in LlmCosts \cup {1} : ExhaustLlmBudget(id, cost)
    \/ \E id \in Ids, cost \in LlmCosts \cup {1} :
         \E rejected \in SUBSET Owners(requests[id]) : Produce(id, cost, rejected)
    \/ StopOnCycle
    \/ PassCycleCheck
PROOF
<1> SUFFICES ASSUME [Next]_vars, ~ UNCHANGED ledgerVars
             PROVE  \/ \E id \in Ids, cost \in LlmCosts \cup {1} : ExhaustLlmBudget(id, cost)
                    \/ \E id \in Ids, cost \in LlmCosts \cup {1} :
                         \E rejected \in SUBSET Owners(requests[id]) :
                           Produce(id, cost, rejected)
                    \/ StopOnCycle
                    \/ PassCycleCheck
  OBVIOUS
<1>1. Next
  BY DEF vars
<1>2. \A caller : ~EnterLoop(caller)
  BY DEF EnterLoop
<1>3. ~Planner
  <2>1. /\ \A p : ~GeneratePatch(p)
        /\ \A g : ~AcceptGate(g) /\ ~RejectGate(g) /\ ~BlockGate(g)
        /\ \A g, why : ~ReportFinding(g, why)
        /\ \A c : ~ReviseFacts(c)
    BY DEF GeneratePatch, AcceptGate, RejectGate, BlockGate, ReportFinding, ReviseFacts
  <2>2. /\ \A why : ~RetryPlacementDependency(why) /\ ~FindUnready(why) /\ ~PostRequest(why)
        /\ ~Assemble
        /\ \A why : ~FailAssembly(why)
        /\ \A id : ~AnswerHuman(id)
    BY DEF RetryPlacementDependency, FindUnready, PostRequest, Assemble, FailAssembly,
           AnswerHuman
  <2>3. QED
    BY <2>1, <2>2 DEF Planner
<1>4. ~LeaveLoop /\ ~ReturnFromLoop /\ ~FailAcceptance /\ ~CommitOwner /\ ~RollBackCommit
  BY DEF LeaveLoop, ReturnFromLoop, FailAcceptance, CommitOwner, RollBackCommit
<1>5. ASSUME NEW id, Iteration(id)
      PROVE  Candidate(id)
  <2>1. ~LoopOff(id) /\ ~RefuseRequest(id) /\ ~RecordAdvisory(id) /\ ~AwaitHuman(id)
    BY DEF LoopOff, RefuseRequest, RecordAdvisory, AwaitHuman
  <2>2. ~RecomputeTaskPlan(id) /\ ~BuildTaskPlan(id) /\ ~RecomputeUnavailable(id)
    BY DEF RecomputeTaskPlan, BuildTaskPlan, RecomputeUnavailable
  <2>3. ~FailWithoutOwner(id) /\ ~FailProduction(id)
    BY DEF FailWithoutOwner, FailProduction
  <2>4. QED
    BY <1>5, <2>1, <2>2, <2>3 DEF Iteration
<1>6. QED
  BY <1>1, <1>2, <1>3, <1>4, <1>5 DEF Next, Loop, Candidate

LEMMA AppendCappedType ==
  ASSUME NEW S, NEW s \in Seq(S), NEW e \in S, NEW n \in Nat \ {0}, Len(s) <= n
  PROVE  AppendCapped(s, e, n) \in Seq(S) /\ Len(AppendCapped(s, e, n)) <= n
PROOF
<1>1. CASE Len(s) < n
  BY <1>1, AppendProperties, LenProperties DEF AppendCapped
<1>2. CASE Len(s) >= n
  <2>1. s # << >> /\ Len(s) = n
    BY <1>2, LenProperties, EmptySeq
  <2>2. Tail(s) \in Seq(S) /\ Len(Tail(s)) = Len(s) - 1
    BY <2>1, HeadTailProperties
  <2>3. AppendCapped(s, e, n) = Append(Tail(s), e)
    BY <2>1 DEF AppendCapped
  <2>4. QED
    BY <2>1, <2>2, <2>3, AppendProperties
<1>3. QED
  BY <1>1, <1>2, LenProperties

LEMMA LedgerTypeStep ==
  ASSUME TypeOK, [Next]_vars
  PROVE  LedgerTypeOK'
PROOF
<1> StateTypeOK /\ LedgerTypeOK
  BY DEF TypeOK
<1>1. CASE UNCHANGED ledgerVars
  BY <1>1 DEF ledgerVars, LedgerTypeOK
<1>2. ASSUME NEW id, NEW cost \in LlmCosts \cup {1}, ExhaustLlmBudget(id, cost)
      PROVE  LedgerTypeOK'
  BY <1>2, BudgetAssumption DEF ExhaustLlmBudget, LedgerTypeOK
<1>3. ASSUME NEW id, NEW cost \in LlmCosts \cup {1}, NEW rejected, Produce(id, cost, rejected)
      PROVE  LedgerTypeOK'
  BY <1>3, BudgetAssumption DEF Produce, LedgerTypeOK
<1>4. CASE StopOnCycle \/ PassCycleCheck
  <2>1. planTrace' = PlanTraceNow /\ llmCalls' = llmCalls
    BY <1>4 DEF StopOnCycle, PassCycleCheck, RecordAttempt
  <2>2. taskPlan # NoTaskPlan => taskPlan \in TaskPlans
    BY DEF StateTypeOK
  <2>3. PlanTraceNow \in Seq(TaskPlans) /\ Len(PlanTraceNow) <= 6
    <3>1. CASE PlanTraceNow = planTrace
      BY <3>1 DEF LedgerTypeOK
    <3>2. CASE taskPlan # NoTaskPlan /\ PlanTraceNow = AppendCapped(planTrace, taskPlan, 6)
      BY <2>2, <3>2, AppendCappedType DEF LedgerTypeOK
    <3>3. QED
      BY <3>1, <3>2 DEF PlanTraceNow
  <2>4. QED
    BY <2>1, <2>3 DEF LedgerTypeOK
<1>5. QED
  BY <1>1, <1>2, <1>3, <1>4, LedgerSteps

-----------------------------------------------------------------------------
(* Types of the control state.                                             *)
ControlPoints == { "planner", "findings", "select", "check", "accept", "return" }

LEMMA OwnersOfRequest ==
  ASSUME RequestTypeOK, NEW id \in Ids
  PROVE  Owners(requests[id]) \in SUBSET PatchTypes
PROOF
<1>1. requests[id] \in Requests
  BY ElementOfSeq DEF RequestTypeOK, Ids
<1>2. requests[id].owners \in Seq(PatchTypes)
  BY <1>1 DEF Requests
<1>3. QED
  BY <1>2, ElementOfSeq, LenProperties DEF Owners, Image

LEMMA EmptyCandidate == << >> \in Candidates
PROOF
<1>1. << >> \in [{} -> Contents]
  OBVIOUS
<1>2. QED
  BY <1>1 DEF Candidates

LEMMA IdleLoopType == IdleLoop \in Calls
PROOF BY EmptyCandidate DEF IdleLoop, Calls, Outcomes

LEMMA IterateType ==
  ASSUME loop \in Calls, NEW id \in Nat, NEW outcome \in Outcomes, Iterate(id, outcome)
  PROVE  loop' \in Calls
PROOF
<1>1. loop.round + 1 \in Nat
  BY DEF Calls
<1>2. loop' = [ loop EXCEPT !.round = loop.round + 1, !.request = id, !.outcome = outcome ]
  BY DEF Iterate
<1>3. QED
  BY <1>1, <1>2 DEF Calls

(* What a production leaves in hand is a candidate for required patches.   *)
LEMMA ProduceType ==
  ASSUME TypeOK, NEW id \in Ids, NEW cost, NEW rejected, Produce(id, cost, rejected)
  PROVE  /\ loop' \in Calls /\ loop'.request = id
         /\ DOMAIN loop'.candidate = Owners(requests[id]) \ rejected
         /\ DOMAIN loop'.candidate \subseteq Valid
         /\ \A p \in DOMAIN loop'.candidate : loop'.candidate[p] \in ContentsOf[p]
PROOF
<1> DEFINE S == Owners(requests[id]) \ rejected
<1>1. PICK candidate \in [S -> Contents] :
        /\ \A p \in DOMAIN candidate : candidate[p] \in ContentsOf[p]
        /\ loop' = [ loop EXCEPT !.round = @ + 1, !.request = id, !.candidate = candidate,
                       !.outcome = IF rejected = {} THEN @ ELSE "failed" ]
  BY DEF Produce
<1>2. \A p \in S : HashOf(p) # NoContent
  BY DEF Produce
<1>3. S \subseteq Valid
  BY <1>2 DEF HashOf, Valid
<1>4. candidate \in Candidates
  BY <1>1, <1>3 DEF Candidates, Valid
<1>5. loop \in Calls /\ id \in Nat
  BY DEF TypeOK, ControlTypeOK, Ids
<1>6. loop' \in Calls /\ loop'.request = id /\ loop'.candidate = candidate
  <2> DEFINE outcome == IF rejected = {} THEN loop.outcome ELSE "failed"
  <2>1. loop.round + 1 \in Nat /\ outcome \in Outcomes
    BY <1>5 DEF Calls, Outcomes
  <2>2. loop' = [ loop EXCEPT !.round = loop.round + 1, !.request = id,
                    !.candidate = candidate, !.outcome = outcome ]
    BY <1>1
  <2> HIDE DEF S, outcome
  <2>3. QED
    BY <1>4, <1>5, <2>1, <2>2 DEF Calls
<1>7. QED
  BY <1>1, <1>3, <1>6

LEMMA ControlTypeStep ==
  ASSUME TypeOK, PendingIsLive, CandidateIsLive, [Next]_vars
  PROVE  ControlTypeOK'
PROOF
<1> /\ loop \in Calls /\ mode \in Modes /\ pc \in ControlPoints
    /\ RequestTypeOK
  BY DEF TypeOK, ControlTypeOK, ControlPoints
<1>1. Ids \subseteq Ids' /\ Ids \subseteq Nat
  BY RequestsKept DEF Ids
<1>2. CASE UNCHANGED << mode, pc, loop >>
  BY <1>1, <1>2 DEF TypeOK, ControlTypeOK
<1>3. ASSUME mode' = mode, loop' \in Calls, pc' \in ControlPoints \ {"check", "accept"}
      PROVE  ControlTypeOK'
  BY <1>3 DEF ControlTypeOK, ControlPoints
<1>4. CASE Planner
  <2>1. ASSUME NEW g \in ReviewGates, RejectGate(g)
        PROVE  ControlTypeOK'
    <3>1. loop' = [ IdleLoop EXCEPT !.caller = g ] /\ pc' = "findings" /\ mode' = mode
      BY <2>1 DEF RejectGate
    <3>2. loop' \in Calls
      BY <3>1, IdleLoopType DEF Calls
    <3>3. QED
      BY <1>3, <3>1, <3>2 DEF ControlPoints
  <2>2. ASSUME NEW g \in ReviewGates, BlockGate(g)
        PROVE  ControlTypeOK'
    BY <1>3, <2>2, IdleLoopType DEF BlockGate, ControlPoints
  <2>3. ASSUME NEW why, RetryPlacementDependency(why)
        PROVE  ControlTypeOK'
    BY <1>3, <2>3 DEF RetryPlacementDependency, ControlPoints
  <2>4. /\ \A p : GeneratePatch(p) => UNCHANGED << mode, pc, loop >>
        /\ \A g : AcceptGate(g) => UNCHANGED << mode, pc, loop >>
        /\ \A g, why : ReportFinding(g, why) => UNCHANGED << mode, pc, loop >>
        /\ \A why : FindUnready(why) => UNCHANGED << mode, pc, loop >>
        /\ \A why : PostRequest(why) => UNCHANGED << mode, pc, loop >>
        /\ \A c : ReviseFacts(c) => UNCHANGED << mode, pc, loop >>
    BY DEF GeneratePatch, AcceptGate, ReportFinding, FindUnready, PostRequest, ReviseFacts
  <2>5. /\ Assemble => UNCHANGED << mode, pc, loop >>
        /\ \A why : FailAssembly(why) => UNCHANGED << mode, pc, loop >>
        /\ \A id : AnswerHuman(id) => UNCHANGED << mode, pc, loop >>
    BY DEF Assemble, FailAssembly, AnswerHuman
  <2>6. QED
    BY <1>2, <1>4, <2>1, <2>2, <2>3, <2>4, <2>5 DEF Planner
<1>5. ASSUME NEW caller \in Callers, EnterLoop(caller)
      PROVE  ControlTypeOK'
  <2>1. loop' = [ IdleLoop EXCEPT !.caller = caller ] /\ pc' = "select" /\ mode' = mode
    BY <1>5 DEF EnterLoop
  <2>2. loop' \in Calls
    BY <2>1, IdleLoopType DEF Calls
  <2>3. QED
    BY <1>3, <2>1, <2>2 DEF ControlPoints
<1>6. ASSUME NEW id \in Ids, Iteration(id)
      PROVE  ControlTypeOK'
  <2>1. pc = "select" /\ id \in Nat
    BY <1>1, <1>6 DEF Iteration, LoopOff, RefuseRequest, RecordAdvisory, AwaitHuman,
          RecomputeTaskPlan, BuildTaskPlan, RecomputeUnavailable, FailWithoutOwner, FailProduction,
          Candidate, ExhaustLlmBudget, Produce, Regenerates, Controlled, Compiled, Selected
  <2>2. ASSUME NEW outcome \in Outcomes, Iterate(id, outcome),
               mode' = mode, pc' = pc \/ pc' = "return"
        PROVE  ControlTypeOK'
    BY <1>3, <2>1, <2>2, IterateType DEF ControlPoints
  <2>3. CASE LoopOff(id) \/ RecordAdvisory(id) \/ AwaitHuman(id)
    BY <2>2, <2>3 DEF LoopOff, RecordAdvisory, AwaitHuman, Outcomes
  <2>4. CASE RefuseRequest(id)
    <3>1. PICK outcome \in { "unsupported_request", "blocked", "budget_exhausted" } :
            Iterate(id, outcome)
      BY <2>4 DEF RefuseRequest
    <3>2. QED
      BY <2>2, <2>4, <3>1 DEF RefuseRequest, Outcomes
  <2>5. CASE RecomputeTaskPlan(id) \/ BuildTaskPlan(id) \/ RecomputeUnavailable(id)
    BY <2>2, <2>5 DEF RecomputeTaskPlan, BuildTaskPlan, RecomputeUnavailable, Outcomes
  <2>6. CASE FailWithoutOwner(id) \/ FailProduction(id)
    BY <2>2, <2>6 DEF FailWithoutOwner, FailProduction, Outcomes
  <2>7. ASSUME NEW cost, ExhaustLlmBudget(id, cost)
        PROVE  ControlTypeOK'
    BY <2>2, <2>7 DEF ExhaustLlmBudget, Outcomes
  <2>8. ASSUME NEW cost, NEW rejected, Produce(id, cost, rejected)
        PROVE  ControlTypeOK'
    <3>1. pc' = "check" /\ mode' = mode
      BY <2>8 DEF Produce
    <3>2. QED
      BY <1>1, <2>8, <3>1, ProduceType DEF ControlTypeOK
  <2>9. QED
    BY <1>6, <2>3, <2>4, <2>5, <2>6, <2>7, <2>8 DEF Iteration, Candidate
<1>7. CASE LeaveLoop
  BY <1>3, <1>7 DEF LeaveLoop, Calls, Outcomes, ControlPoints
<1>8. CASE ReturnFromLoop
  BY <1>3, <1>8, IdleLoopType DEF ReturnFromLoop, ControlPoints
<1>9. CASE StopOnCycle
  <2>1. \E outcome \in Outcomes : loop' = [ loop EXCEPT !.candidate = << >>, !.outcome = outcome ]
    BY <1>9 DEF StopOnCycle, Outcomes
  <2>2. loop' \in Calls
    BY <2>1, EmptyCandidate DEF Calls
  <2>3. QED
    BY <1>3, <1>9, <2>2 DEF StopOnCycle, ControlPoints
<1>10. CASE PassCycleCheck
  BY <1>1, <1>10 DEF PassCycleCheck, TypeOK, ControlTypeOK
<1>11. CASE FailAcceptance
  BY <1>3, <1>11, EmptyCandidate DEF FailAcceptance, Calls, Outcomes, ControlPoints
<1>12. CASE CommitOwner
  <2>1. \E outcome \in Outcomes :
          loop' = [ loop EXCEPT !.candidate = << >>, !.committed = TRUE, !.outcome = outcome ]
    BY <1>12 DEF CommitOwner, Outcomes
  <2>2. loop' \in Calls
    BY <2>1, EmptyCandidate DEF Calls
  <2>3. QED
    BY <1>3, <1>12, <2>2 DEF CommitOwner, ControlPoints
<1>13. CASE RollBackCommit
  BY <1>3, <1>13, EmptyCandidate DEF RollBackCommit, Calls, Outcomes, ControlPoints
<1>14. CASE UNCHANGED vars
  BY <1>2, <1>14 DEF vars
<1>15. QED
  BY <1>4, <1>5, <1>6, <1>7, <1>8, <1>9, <1>10, <1>11, <1>12, <1>13, <1>14 DEF Next, Loop

-----------------------------------------------------------------------------
(* Types and the pending list, for every instance.                         *)
LEMMA CandidateIsLiveStep ==
  ASSUME TypeOK, PendingIsLive, CandidateIsLive, [Next]_vars
  PROVE  CandidateIsLive'
PROOF
<1> SUFFICES ASSUME pc' \in {"check", "accept"},
                    (DOMAIN loop.candidate = Owners(requests[loop.request]))'
             PROVE  Live(loop.request)'
  BY DEF CandidateIsLive
<1>1. CASE UNCHANGED vars
  BY <1>1 DEF vars, requestVars, CandidateIsLive, Live, Owners
<1>2. ASSUME NEW id \in Ids, NEW cost, NEW rejected \in SUBSET Owners(requests[id]),
             Produce(id, cost, rejected)
      PROVE  Live(loop.request)'
  <2>1. loop'.request = id /\ DOMAIN loop'.candidate = Owners(requests[id]) \ rejected
    BY <1>2, ProduceType
  <2>2. requests'[id].owners = requests[id].owners
    <3>1. requests[id] \in Requests
      BY ElementOfSeq DEF TypeOK, RequestTypeOK, Ids
    <3>2. PICK lifecycle : requests'[id] = [ requests[id] EXCEPT !.lifecycle = lifecycle ]
      BY RequestsKept
    <3>3. QED
      BY <3>1, <3>2 DEF Requests
  <2>3. rejected = {}
    BY <2>1, <2>2 DEF Owners
  <2>4. requests' = requests
    BY <1>2, <2>3 DEF Produce, requestVars
  <2>5. Live(id)
    BY <1>2 DEF Produce, Regenerates, Controlled, Compiled, Selected, PendingIsLive
  <2>6. QED
    BY <2>1, <2>4, <2>5 DEF Live
<1>3. CASE PassCycleCheck
  BY <1>3 DEF PassCycleCheck, requestVars, CandidateIsLive, Live, Owners
<1>4. QED
  BY <1>1, <1>2, <1>3, CandidateSteps

RequestInv == TypeOK /\ PendingIsLive /\ CandidateIsLive

LEMMA RequestInvInit == Init => RequestInv
PROOF
<1> SUFFICES ASSUME Init
             PROVE  RequestInv
  OBVIOUS
<1> USE DEF Init
<1>1. StateTypeOK
  BY DEF StateTypeOK, Stages, Hashes
<1>2. Ids = {} /\ requests \in Seq(Requests)
  BY EmptySeq DEF Ids
<1>3. RequestTypeOK
  BY <1>2 DEF RequestTypeOK
<1>4. LedgerTypeOK
  BY EmptySeq DEF LedgerTypeOK
<1>5. ControlTypeOK
  BY IdleLoopType DEF ControlTypeOK
<1>6. PendingIsLive /\ CandidateIsLive
  BY <1>2 DEF PendingIsLive, CandidateIsLive
<1>7. QED
  BY <1>1, <1>3, <1>4, <1>5, <1>6 DEF RequestInv, TypeOK

LEMMA RequestInvStep == RequestInv /\ [Next]_vars => RequestInv'
PROOF
<1> SUFFICES ASSUME TypeOK, PendingIsLive, CandidateIsLive, [Next]_vars
             PROVE  TypeOK' /\ PendingIsLive' /\ CandidateIsLive'
  BY DEF RequestInv
<1>1. RequestTypeOK' /\ PendingIsLive'
  BY RequestsKept
<1>2. StateTypeOK' /\ LedgerTypeOK' /\ ControlTypeOK'
  BY StateTypeStep, LedgerTypeStep, ControlTypeStep
<1>3. CandidateIsLive'
  BY CandidateIsLiveStep
<1>4. QED
  BY <1>1, <1>2, <1>3 DEF TypeOK

THEOREM RequestInvariant == Spec => []RequestInv
PROOF
<1>1. QED
  BY RequestInvInit, RequestInvStep, PTL DEF Spec

(* Every variable keeps its type and the traces keep their bounds.         *)
THEOREM TypeCorrect == Spec => []TypeOK
PROOF
<1>1. RequestInv => TypeOK
  BY DEF RequestInv
<1>2. QED
  BY <1>1, RequestInvariant, PTL

(* The pending list and the lifecycles never disagree, whatever requests   *)
(* arrive and in whatever order the loop works on them: nothing live is    *)
(* forgotten and nothing finished can be selected.                         *)
THEOREM PendingListCorrect == Spec => []PendingIsLive
PROOF
<1>1. RequestInv => PendingIsLive
  BY DEF RequestInv
<1>2. QED
  BY <1>1, RequestInvariant, PTL

(* A finished request is never reopened.                                   *)
THEOREM FinishedIsFinished == Spec => TerminalStaysTerminal
PROOF
<1>1. RequestInv /\ [Next]_vars =>
        [ \A id \in Ids : ~Live(id) => requests'[id].lifecycle \in Terminal ]_vars
  BY RequestsKept DEF RequestInv
<1>2. QED
  BY <1>1, RequestInvariant, PTL DEF Spec, TerminalStaysTerminal

-----------------------------------------------------------------------------
(* The candidate in hand replaces patches that are valid now.              *)
CandidateOwnersValid ==
  pc \in {"check", "accept"} => DOMAIN loop.candidate \subseteq Valid

LEMMA CandidateOwnersValidStep ==
  ASSUME RequestInv, CandidateOwnersValid, [Next]_vars
  PROVE  CandidateOwnersValid'
PROOF
<1> SUFFICES ASSUME pc' \in {"check", "accept"}
             PROVE  (DOMAIN loop.candidate \subseteq Valid)'
  BY DEF CandidateOwnersValid
<1>1. CASE UNCHANGED vars
  BY <1>1 DEF vars, stateVars, CandidateOwnersValid, Valid
<1>2. ASSUME NEW id \in Ids, NEW cost, NEW rejected, Produce(id, cost, rejected)
      PROVE  (DOMAIN loop.candidate \subseteq Valid)'
  <2>1. DOMAIN loop'.candidate \subseteq Valid
    BY <1>2, ProduceType DEF RequestInv
  <2>2. content' = content
    BY <1>2 DEF Produce, stateVars
  <2>3. QED
    BY <2>1, <2>2 DEF Valid
<1>3. CASE PassCycleCheck
  BY <1>3 DEF PassCycleCheck, stateVars, CandidateOwnersValid, Valid
<1>4. QED
  BY <1>1, <1>2, <1>3, CandidateSteps

(* What a commit does, its owners' and dependents' sets spelled out.       *)
Changed == TransitiveDependents(DOMAIN loop.candidate)

LEMMA CommitEffect ==
  ASSUME RequestInv, CandidateOwnersValid, CommitOwner
  PROVE  /\ loop.request \in Ids
         /\ DOMAIN loop.candidate = Owners(requests[loop.request])
         /\ DOMAIN loop.candidate \subseteq Valid /\ DOMAIN loop.candidate \subseteq Changed
         /\ Changed \subseteq PatchTypes
         /\ \A p \in Required :
              /\ p \in DOMAIN loop.candidate =>
                   content'[p] \in Contents /\ basis'[p] = BasisNow(p)
              /\ p \in Changed \ DOMAIN loop.candidate => content'[p] = NoContent
              /\ p \notin Changed => content'[p] = content[p] /\ basis'[p] = basis[p]
         /\ Valid' = Valid \ (Changed \ DOMAIN loop.candidate)
         /\ InvalidateGates(Changed)
         /\ UNCHANGED << mode, taskPlan, acceptedOf >>
PROOF
<1> DEFINE owners == DOMAIN loop.candidate
           dependents == TransitiveDependents(owners) \ owners
<1>1. /\ pc = "accept" /\ owners = Owners(requests[loop.request])
      /\ content' = [ p \in Required |-> IF p \in owners THEN loop.candidate[p]
                                         ELSE Without(dependents, content)[p] ]
      /\ basis' = [ p \in Required |-> IF p \in owners THEN BasisNow(p)
                                       ELSE IF p \in dependents THEN NoBasis
                                       ELSE basis[p] ]
      /\ InvalidateGates(dependents \cup owners)
      /\ UNCHANGED << mode, taskPlan, acceptedOf >>
  BY DEF CommitOwner
<1>2. loop.request \in Ids /\ \A p \in owners : loop.candidate[p] \in ContentsOf[p]
  BY <1>1 DEF RequestInv, TypeOK, ControlTypeOK
<1>3. owners \subseteq Valid /\ Valid \subseteq Required
  BY <1>1 DEF CandidateOwnersValid, Valid
<1>4. owners \subseteq Changed /\ Changed \subseteq PatchTypes
  BY <1>3, RequiredAssumption, TransitiveType DEF Changed
<1>5. \A p \in owners : loop.candidate[p] \in Contents /\ loop.candidate[p] # NoContent
  BY <1>2, <1>3, ContentsAssumption DEF Contents
<1>6. dependents = Changed \ owners /\ dependents \cup owners = Changed
  BY <1>4 DEF Changed
<1>7. \A p \in Required : Without(dependents, content)[p] =
                            IF p \in dependents THEN NoContent ELSE content[p]
  BY DEF Without
<1> HIDE DEF owners, dependents
<1>8. \A p \in Required :
        /\ p \in owners => content'[p] \in Contents /\ content'[p] # NoContent
                           /\ basis'[p] = BasisNow(p)
        /\ p \in Changed \ owners => content'[p] = NoContent
        /\ p \notin Changed => content'[p] = content[p] /\ basis'[p] = basis[p]
  BY <1>1, <1>4, <1>5, <1>6, <1>7
<1>9. Valid' = Valid \ (Changed \ owners)
  BY <1>3, <1>8 DEF Valid
<1>10. InvalidateGates(Changed)
  BY <1>1, <1>6
<1>11. QED
  BY <1>1, <1>2, <1>3, <1>4, <1>8, <1>9, <1>10 DEF owners

LEMMA RecomputeEffect ==
  ASSUME NEW id, RecomputeTaskPlan(id)
  PROVE  Valid' = {} /\ \A g \in ReviewGates : stage'[g] = "pending"
PROOF
<1>1. content' = Without(Required, content) /\ InvalidateGates(Required)
  BY DEF RecomputeTaskPlan
<1>2. Valid' = {}
  BY <1>1 DEF Without, Valid
<1>3. ReviewGates \subseteq GatesAffectedBy(Required)
  BY GateAssumption, RequiredAssumption DEF GatesAffectedBy, GatePatchTypes, Gates
<1>4. QED
  BY <1>1, <1>2, <1>3 DEF InvalidateGates

(* What the Facts gate's own revision does.                                *)
LEMMA ReviseEffect ==
  ASSUME RequestInv, NEW c \in ContentsOf["facts"], ReviseFacts(c)
  PROVE  /\ pc = "planner" /\ pc' = "planner" /\ loop' = loop /\ mode = "controlled"
         /\ "facts" \in ReviewGates
         /\ stage["facts"] # "accepted" \/ Outgrown("facts")
         /\ Valid' = {"facts"} /\ content'["facts"] = c /\ c # NoContent
         /\ basis'["facts"] = BasisNow("facts")
         /\ assembled' = NoAssembly /\ taskPlan' = taskPlan /\ acceptedPlan' = acceptedPlan
         /\ stage' = [ stage EXCEPT !["facts"] = "accepted" ]
         /\ acceptedOf'["facts"] = InputOf("facts")'
PROOF
<1>1. /\ stage["facts"] # "accepted" \/ Outgrown("facts")
      /\ content' = [ Without(TransitiveDependents({"facts"}), content) EXCEPT !["facts"] = c ]
      /\ basis' = [ p \in Required |-> IF p = "facts" THEN BasisNow(p)
                                       ELSE IF p \in TransitiveDependents({"facts"}) THEN NoBasis
                                       ELSE basis[p] ]
      /\ acceptedOf' = [ acceptedOf EXCEPT !["facts"] = InputOf("facts")' ]
      /\ "facts" \in ReviewGates
  BY DEF ReviseFacts, MayReview
<1>2. "facts" \in Required /\ Required \subseteq PatchTypes
  BY RequiredAssumption
<1>3. PatchTypes \subseteq TransitiveDependents({"facts"})
  <2>1. "facts" \in TransitiveDependents({"facts"})
    BY <1>2, TransitiveType
  <2>2. QED
    BY <1>2, <2>1, FactsFirst, TransitiveIsClosed
<1>4. c # NoContent
  BY <1>2, ContentsAssumption DEF Contents
<1>5. /\ content'["facts"] = c
      /\ \A p \in Required \ {"facts"} : content'[p] = NoContent
  BY <1>1, <1>2, <1>3 DEF Without
<1>6. Valid' = {"facts"}
  BY <1>2, <1>4, <1>5 DEF Valid
<1>7. acceptedOf'["facts"] = InputOf("facts")'
  BY <1>1 DEF RequestInv, TypeOK, StateTypeOK
<1>8. basis'["facts"] = BasisNow("facts")
  BY <1>1, <1>2
<1>9. QED
  BY <1>1, <1>4, <1>5, <1>6, <1>7, <1>8 DEF ReviseFacts, MayReview

-----------------------------------------------------------------------------
(* The assembled plan.                                                     *)
AssembledInv ==
  assembled # NoAssembly => assembled = content /\ Required \subseteq Valid

LEMMA AssembledStep ==
  ASSUME RequestInv, AssembledInv, [Next]_vars
  PROVE  AssembledInv'
PROOF
<1>1. CASE UNCHANGED << assembled, content >>
  BY <1>1 DEF AssembledInv, Valid
<1>2. ASSUME NEW p \in Required, GeneratePatch(p)
      PROVE  AssembledInv'
  <2>1. p \notin Valid /\ assembled' = assembled
    BY <1>2 DEF GeneratePatch, Valid
  <2>2. QED
    BY <2>1 DEF AssembledInv
<1>3. CASE Assemble
  BY <1>3 DEF Assemble, AllGenerated, AssembledInv, Valid
<1>4. ASSUME NEW id \in Ids, RecomputeTaskPlan(id)
      PROVE  AssembledInv'
  <2>1. assembled' = AssemblyWithout(Required)
    BY <1>4 DEF RecomputeTaskPlan
  <2>2. assembled # NoAssembly => "facts" \in Required \cap Valid
    BY RequiredAssumption DEF AssembledInv
  <2>3. assembled' = NoAssembly
    BY <2>1, <2>2 DEF AssemblyWithout
  <2>4. QED
    BY <2>3 DEF AssembledInv
<1>5. CASE CommitOwner
  BY <1>5 DEF CommitOwner, AssembledInv
<1>6. /\ \A g : AcceptGate(g) => UNCHANGED << assembled, content >>
      /\ \A g : RejectGate(g) => UNCHANGED << assembled, content >>
      /\ \A g : BlockGate(g) => UNCHANGED << assembled, content >>
      /\ \A why : FindUnready(why) => UNCHANGED << assembled, content >>
      /\ \A why : FailAssembly(why) => UNCHANGED << assembled, content >>
      /\ ReturnFromLoop => UNCHANGED << assembled, content >>
      /\ \A id : BuildTaskPlan(id) => UNCHANGED << assembled, content >>
  BY DEF AcceptGate, RejectGate, BlockGate, FindUnready, FailAssembly, ReturnFromLoop,
         BuildTaskPlan
<1>7. UNCHANGED stateVars => UNCHANGED << assembled, content >>
  BY DEF stateVars
<1>8. \A c : ReviseFacts(c) => AssembledInv'
  BY DEF ReviseFacts, AssembledInv
<1>9. QED
  BY <1>1, <1>2, <1>3, <1>4, <1>5, <1>6, <1>7, <1>8, StateSteps

(* There is an assembled plan only while it is the plan of the patches:    *)
(* no retry, in any order with generation and assembly, leaves the plan of *)
(* replaced patches behind.                                                *)
THEOREM AssemblyIsCurrent == Spec => []AssembledIsCurrent
PROOF
<1>1. Init => AssembledInv
  BY DEF Init, AssembledInv
<1>2. RequestInv /\ AssembledInv /\ [Next]_vars => AssembledInv'
  BY AssembledStep
<1>3. AssembledInv => AssembledIsCurrent
  BY DEF AssembledInv, AssembledIsCurrent
<1>4. QED
  BY <1>1, <1>2, <1>3, RequestInvariant, PTL DEF Spec

-----------------------------------------------------------------------------
(* Who runs the loop: a gate that does has not accepted.                   *)
CallerInv ==
  /\ pc = "planner" => loop.caller = "none"
  /\ loop.caller \in ReviewGates => stage[loop.caller] # "accepted"

LEMMA CallerSteps ==
  ASSUME RequestInv, [Next]_vars
  PROVE  \/ loop'.caller = loop.caller /\ (pc' = "planner" => pc = "planner")
         \/ loop' = IdleLoop
         \/ \E caller \in Callers : EnterLoop(caller)
         \/ \E g \in ReviewGates : RejectGate(g)
PROOF
<1> DEFINE Kept == loop'.caller = loop.caller /\ (pc' = "planner" => pc = "planner")
<1>1. loop \in Calls
  BY DEF RequestInv, TypeOK, ControlTypeOK
<1>2. CASE UNCHANGED vars
  BY <1>2 DEF vars
<1>3. CASE Planner
  <2>1. /\ \A p : GeneratePatch(p) => Kept
        /\ \A g : AcceptGate(g) => Kept
        /\ \A g : BlockGate(g) => loop' = IdleLoop
        /\ \A c : ReviseFacts(c) => Kept
    BY DEF GeneratePatch, AcceptGate, BlockGate, ReviseFacts
  <2>2. /\ \A g, why : ReportFinding(g, why) => Kept
        /\ \A why : RetryPlacementDependency(why) => Kept
        /\ \A why : FindUnready(why) => Kept
        /\ \A why : PostRequest(why) => Kept
    BY DEF ReportFinding, RetryPlacementDependency, FindUnready, PostRequest
  <2>3. /\ Assemble => Kept
        /\ \A why : FailAssembly(why) => Kept
        /\ \A id : AnswerHuman(id) => Kept
    BY DEF Assemble, FailAssembly, AnswerHuman
  <2>4. QED
    BY <1>3, <2>1, <2>2, <2>3 DEF Planner
<1>4. CASE Loop
  <2>1. \A id, outcome : Iterate(id, outcome) => loop'.caller = loop.caller
    BY <1>1 DEF Iterate, Calls
  <2>2. ASSUME NEW id \in Ids, Iteration(id)
        PROVE  Kept
    <3>1. /\ LoopOff(id) => Kept
          /\ RecordAdvisory(id) => Kept
          /\ AwaitHuman(id) => Kept
      BY <2>1 DEF LoopOff, RecordAdvisory, AwaitHuman
    <3>2. /\ RefuseRequest(id) => Kept
          /\ RecomputeTaskPlan(id) => Kept
          /\ BuildTaskPlan(id) => Kept
          /\ RecomputeUnavailable(id) => Kept
          /\ FailWithoutOwner(id) => Kept
          /\ FailProduction(id) => Kept
      BY <2>1 DEF RefuseRequest, RecomputeTaskPlan, BuildTaskPlan, RecomputeUnavailable,
                  FailWithoutOwner, FailProduction
    <3>3. \A cost : ExhaustLlmBudget(id, cost) => Kept
      BY <2>1 DEF ExhaustLlmBudget
    <3>4. \A cost, rejected : Produce(id, cost, rejected) => Kept
      BY <1>1 DEF Produce, Calls
    <3>5. QED
      BY <2>2, <3>1, <3>2, <3>3, <3>4 DEF Iteration, Candidate
  <2>3. /\ LeaveLoop => Kept
        /\ ReturnFromLoop => loop' = IdleLoop
        /\ PassCycleCheck => Kept
    BY <1>1 DEF LeaveLoop, ReturnFromLoop, PassCycleCheck, Calls
  <2>4. /\ StopOnCycle => Kept
        /\ FailAcceptance => Kept
        /\ RollBackCommit => Kept
    BY <1>1 DEF StopOnCycle, FailAcceptance, RollBackCommit, Calls
  <2>5. CommitOwner => Kept
    BY <1>1 DEF CommitOwner, Calls
  <2>6. QED
    BY <1>4, <2>2, <2>3, <2>4, <2>5 DEF Loop
<1>5. QED
  BY <1>2, <1>3, <1>4 DEF Next

LEMMA CallerStep ==
  ASSUME RequestInv, CallerInv, [Next]_vars
  PROVE  CallerInv'
PROOF
<1> stage \in [ReviewGates -> Stages] /\ loop \in Calls
  BY DEF RequestInv, TypeOK, StateTypeOK, ControlTypeOK
<1> "none" \notin ReviewGates /\ "node" \notin ReviewGates /\ "direct" \notin ReviewGates
  BY GateAssumption DEF Gates
<1>1. CASE loop'.caller = loop.caller /\ (pc' = "planner" => pc = "planner")
  <2> SUFFICES ASSUME loop.caller \in ReviewGates
               PROVE  stage'[loop.caller] # "accepted"
    BY <1>1 DEF CallerInv
  <2> DEFINE g == loop.caller
  <2>1. stage[g] # "accepted" /\ pc # "planner"
    BY DEF CallerInv
  <2>2. /\ ~ \E h \in ReviewGates : AcceptGate(h)
        /\ \A c : ~ReviseFacts(c)
    BY <2>1 DEF AcceptGate, ReviseFacts, MayReview
  <2>3. /\ \A p : GeneratePatch(p) => stage'[g] = stage[g]
        /\ \A why : FindUnready(why) => stage'[g] = stage[g]
        /\ Assemble => stage'[g] = stage[g]
        /\ \A why : FailAssembly(why) => stage'[g] = stage[g]
        /\ \A id : BuildTaskPlan(id) => stage'[g] = stage[g]
    BY DEF GeneratePatch, FindUnready, Assemble, FailAssembly, BuildTaskPlan
  <2>4. \A h \in ReviewGates : RejectGate(h) \/ BlockGate(h) => stage'[g] # "accepted"
    BY <2>1 DEF RejectGate, BlockGate
  <2>5. ReturnFromLoop => stage'[g] # "accepted"
    BY <2>1 DEF ReturnFromLoop
  <2>6. \A S : InvalidateGates(S) => stage'[g] # "accepted"
    BY <2>1 DEF InvalidateGates
  <2>7. /\ \A id : RecomputeTaskPlan(id) => stage'[g] # "accepted"
        /\ CommitOwner => stage'[g] # "accepted"
    BY <2>6 DEF RecomputeTaskPlan, CommitOwner
  <2>8. UNCHANGED stateVars => stage'[g] = stage[g]
    BY DEF stateVars
  <2>9. QED
    BY <2>1, <2>2, <2>3, <2>4, <2>5, <2>7, <2>8, StateSteps
<1>2. CASE loop' = IdleLoop
  BY <1>2 DEF IdleLoop, CallerInv
<1>3. ASSUME NEW caller \in Callers, EnterLoop(caller)
      PROVE  CallerInv'
  BY <1>3, BudgetAssumption DEF EnterLoop, IdleLoop, CallerInv
<1>4. ASSUME NEW g \in ReviewGates, RejectGate(g)
      PROVE  CallerInv'
  BY <1>4 DEF RejectGate, IdleLoop, CallerInv
<1>5. QED
  BY <1>1, <1>2, <1>3, <1>4, CallerSteps

-----------------------------------------------------------------------------
(* The gates.                                                              *)

(* Whatever a gate reads, a patch of the gate is generated from it.        *)
LEMMA ReadsReachTheGate ==
  ASSUME NEW g \in Gates \ {"assembled_plan"}, NEW p \in GateReads[g]
  PROVE  p \in PatchTypes /\ DependentClosure[p] \cap GatePatchTypes[g] # {}
PROOF
<1>1. GateReads[g] \subseteq PatchTypes /\ GatePatchTypes[g] \subseteq PatchTypes
  BY PatchTypesIs DEF GateReads, GatePatchTypes, Gates
<1>2. p \in GatePatchTypes[g] \/ \E q \in GatePatchTypes[g] : p \in Dependencies[q]
  <2>1. CASE g = "facts"
    BY <2>1 DEF GateReads, GatePatchTypes
  <2>2. CASE g = "material_universe"
    BY <2>2 DEF GateReads, GatePatchTypes, Dependencies
  <2>3. CASE g = "placement"
    <3>1. {"facts", "universes"} \subseteq Dependencies["pin_map"]
      BY DEF Dependencies
    <3>2. QED
      BY <2>3, <3>1 DEF GateReads, GatePatchTypes
  <2>4. CASE g = "axial_geometry"
    <3>1. /\ {"facts", "universes"} \subseteq Dependencies["base_path_axial_profiles"]
          /\ "materials" \in Dependencies["axial_overlays"]
      BY DEF Dependencies
    <3>2. QED
      BY <2>4, <3>1 DEF GateReads, GatePatchTypes
  <2>5. QED
    BY <2>1, <2>2, <2>3, <2>4 DEF Gates
<1>3. CASE p \in GatePatchTypes[g]
  BY <1>1, <1>3, ClosureContainsSeed
<1>4. ASSUME NEW q \in GatePatchTypes[g], p \in Dependencies[q]
      PROVE  q \in DependentClosure[p]
  <2>1. q \in Dependents(p) /\ p \in PatchTypes
    BY <1>1, <1>4 DEF Dependents
  <2>2. QED
    BY <2>1, ClosureContainsSeed, ClosureIsClosed
<1>5. QED
  BY <1>1, <1>2, <1>3, <1>4

LEMMA NeedsAreReads == \A g \in Gates : GateNeeds[g] \subseteq GateReads[g]
PROOF BY DEF Gates, GateNeeds, GateReads

(* A gate that a change does not affect reads nothing that changed.        *)
LEMMA UnaffectedInputs ==
  ASSUME NEW S \in SUBSET PatchTypes, NEW g \in Gates,
         g \notin GatesAffectedBy(TransitiveDependents(S))
  PROVE  GateReads[g] \cap TransitiveDependents(S) = {}
PROOF
<1>1. g # "assembled_plan" /\ GatePatchTypes[g] \cap TransitiveDependents(S) = {}
  BY DEF GatesAffectedBy
<1>2. ASSUME NEW p \in GateReads[g], p \in TransitiveDependents(S)
      PROVE  FALSE
  <2>1. p \in PatchTypes /\ DependentClosure[p] \cap GatePatchTypes[g] # {}
    BY <1>1, ReadsReachTheGate
  <2>2. TransitiveDependents({p}) \subseteq TransitiveDependents(S)
    BY <1>2, TransitiveIsClosed
  <2>3. TransitiveDependents({p}) = DependentClosure[p]
    BY DEF TransitiveDependents
  <2>4. QED
    BY <1>1, <2>1, <2>2, <2>3
<1>3. QED
  BY <1>2

(* The acceptance of gate g is of what is there.                           *)
Current(g) ==
  /\ GateReady(g)
  /\ \A p \in GateReads[g] \cap Required :
       \/ acceptedOf[g][p] = content[p]
       \/ acceptedOf[g][p] = NoContent /\ p \notin GateNeeds[g]

LEMMA CurrentIs ==
  AcceptedGateIsCurrent <=> \A g \in ReviewGates : stage[g] = "accepted" => Current(g)
PROOF BY DEF AcceptedGateIsCurrent, Current

(* A gate stays current while what it reads keeps its contents.            *)
LEMMA CurrentStep ==
  ASSUME NEW g \in ReviewGates, Current(g), acceptedOf'[g] = acceptedOf[g],
         \A p \in GateReads[g] \cap Required : content'[p] = content[p]
  PROVE  Current(g)'
PROOF
<1>1. GateNeeds[g] \subseteq GateReads[g]
  BY GateAssumption, NeedsAreReads
<1>2. GateReady(g)'
  BY <1>1 DEF Current, GateReady, Valid
<1>3. QED
  BY <1>2 DEF Current

(* The Facts gate's acceptance is never outgrown: it waits for all that it *)
(* reads, and its hash does not cover the task plan.                       *)
LEMMA FactsReviewsFacts ==
  ASSUME AcceptedGateIsCurrent, "facts" \in ReviewGates, stage["facts"] = "accepted"
  PROVE  /\ "facts" \in Valid /\ acceptedOf["facts"]["facts"] = content["facts"]
         /\ ~Outgrown("facts")
PROOF
<1>1. GateNeeds["facts"] = {"facts"} /\ GateReads["facts"] = {"facts"}
  BY DEF GateNeeds, GateReads
<1>2. GateInputs("facts") = {"facts"}
  BY <1>1, RequiredAssumption DEF GateInputs
<1>3. "facts" \in Valid /\ acceptedOf["facts"]["facts"] = content["facts"]
  BY <1>1, RequiredAssumption DEF AcceptedGateIsCurrent, GateReady
<1>4. "facts" \notin PlanReaders
  BY DEF PlanReaders
<1>5. QED
  BY <1>2, <1>3, <1>4 DEF Outgrown, PatchesChanged

(* Until the Facts gate has accepted no gate has, and when its acceptance  *)
(* falls they all fall.                                                    *)
AcceptedAfterFacts ==
  "facts" \in ReviewGates /\ stage["facts"] # "accepted" =>
    \A g \in ReviewGates : stage[g] # "accepted"

LEMMA RevisedWhileOpen ==
  ASSUME AcceptedGateIsCurrent, AcceptedAfterFacts, RequestInv,
         NEW c \in ContentsOf["facts"], ReviseFacts(c)
  PROVE  /\ \A g \in ReviewGates : stage[g] # "accepted"
         /\ \A g \in ReviewGates : stage'[g] = "accepted" => g = "facts"
PROOF
<1>1. /\ "facts" \in ReviewGates /\ stage["facts"] # "accepted"
      /\ stage' = [ stage EXCEPT !["facts"] = "accepted" ]
  BY ReviseEffect, FactsReviewsFacts
<1>2. \A g \in ReviewGates : stage[g] # "accepted"
  BY <1>1 DEF AcceptedAfterFacts
<1>3. stage \in [ReviewGates -> Stages]
  BY DEF RequestInv, TypeOK, StateTypeOK
<1>4. QED
  BY <1>1, <1>2, <1>3

LEMMA AfterFactsStep ==
  ASSUME RequestInv, CandidateOwnersValid, CallerInv, AcceptedGateIsCurrent,
         AcceptedAfterFacts, [Next]_vars
  PROVE  AcceptedAfterFacts'
PROOF
<1> stage \in [ReviewGates -> Stages]
  BY DEF RequestInv, TypeOK, StateTypeOK
<1> SUFFICES ASSUME "facts" \in ReviewGates, stage'["facts"] # "accepted"
             PROVE  \A g \in ReviewGates : stage'[g] # "accepted"
  BY DEF AcceptedAfterFacts
<1>1. ASSUME stage'["facts"] = stage["facts"],
             \A g \in ReviewGates : stage'[g] = "accepted" => stage[g] = "accepted"
      PROVE  \A g \in ReviewGates : stage'[g] # "accepted"
  BY <1>1 DEF AcceptedAfterFacts
<1>2. UNCHANGED stage => \A g \in ReviewGates : stage'[g] # "accepted"
  BY <1>1
<1>3. ASSUME NEW g \in ReviewGates, AcceptGate(g)
      PROVE  \A h \in ReviewGates : stage'[h] # "accepted"
  <2>1. stage' = [ stage EXCEPT ![g] = "accepted" ] /\ UpstreamAccepted(g)
    BY <1>3 DEF AcceptGate, MayReview
  <2>2. g # "facts" /\ stage["facts"] # "accepted"
    BY <2>1
  <2>3. g # "facts" => Accepted("facts")
    BY <2>1, GateAssumption DEF UpstreamAccepted, Gates
  <2>4. QED
    BY <2>2, <2>3 DEF Accepted
<1>4. ASSUME NEW g \in ReviewGates, RejectGate(g) \/ BlockGate(g)
      PROVE  \A h \in ReviewGates : stage'[h] # "accepted"
  <2>1. \E st \in {"reviewing", "blocked"} : stage' = [ stage EXCEPT ![g] = st ]
    BY <1>4 DEF RejectGate, BlockGate
  <2>2. g = "facts" => stage["facts"] # "accepted"
    <3>1. CASE RejectGate(g)
      BY <3>1, FactsReviewsFacts DEF RejectGate, MayReview
    <3>2. CASE BlockGate(g)
      BY <3>2 DEF BlockGate, Rejecting, Behind, CallerInv
    <3>3. QED
      BY <1>4, <3>1, <3>2
  <2>3. stage["facts"] # "accepted"
    BY <2>1, <2>2
  <2>4. QED
    BY <2>1, <2>3 DEF AcceptedAfterFacts
<1>5. ASSUME NEW c \in ContentsOf["facts"], ReviseFacts(c)
      PROVE  FALSE
  BY <1>5, ReviseEffect
<1>6. /\ \A p : GeneratePatch(p) => UNCHANGED stage
      /\ \A why : FindUnready(why) => UNCHANGED stage
      /\ Assemble => UNCHANGED stage
      /\ \A why : FailAssembly(why) => UNCHANGED stage
      /\ \A id : BuildTaskPlan(id) => UNCHANGED stage
      /\ UNCHANGED stateVars => UNCHANGED stage
  BY DEF GeneratePatch, FindUnready, Assemble, FailAssembly, BuildTaskPlan, stateVars
<1>7. CASE ReturnFromLoop
  BY <1>1, <1>7 DEF ReturnFromLoop
<1>8. ASSUME NEW id \in Ids, RecomputeTaskPlan(id)
      PROVE  \A g \in ReviewGates : stage'[g] # "accepted"
  BY <1>8, RecomputeEffect
<1>9. CASE CommitOwner
  <2>1. InvalidateGates(Changed) /\ Changed \subseteq PatchTypes /\ Changed = TransitiveDependents(DOMAIN loop.candidate)
        /\ DOMAIN loop.candidate \subseteq PatchTypes
    BY <1>9, CommitEffect DEF Changed
  <2>2. CASE "facts" \in Changed
    <3>1. ReviewGates \subseteq GatesAffectedBy(Changed)
      <4>1. PatchTypes \subseteq Changed
        BY <2>1, <2>2, FactsFirst, TransitiveIsClosed
      <4>2. \A g \in Gates \ {"assembled_plan"} : \E p \in PatchTypes : p \in GatePatchTypes[g]
        BY PatchTypesIs DEF GatePatchTypes, Gates
      <4>3. QED
        BY <4>1, <4>2, GateAssumption DEF GatesAffectedBy
    <3>2. QED
      BY <2>1, <3>1 DEF InvalidateGates
  <2>3. CASE "facts" \notin Changed
    <3>1. "facts" \notin GatesAffectedBy(Changed)
      BY <2>3 DEF GatesAffectedBy, GatePatchTypes, Gates
    <3>2. QED
      BY <1>1, <2>1, <3>1 DEF InvalidateGates
  <2>4. QED
    BY <2>2, <2>3
<1>10. QED
  BY <1>2, <1>3, <1>4, <1>5, <1>6, <1>7, <1>8, <1>9, StateSteps

LEMMA AcceptedGateStep ==
  ASSUME RequestInv, CandidateOwnersValid, AcceptedAfterFacts, AcceptedGateIsCurrent,
         [Next]_vars
  PROVE  AcceptedGateIsCurrent'
PROOF
<1> USE GateAssumption
<1> stage \in [ReviewGates -> Stages] /\ DOMAIN acceptedOf = ReviewGates
  BY DEF RequestInv, TypeOK, StateTypeOK
<1>0. \A g \in ReviewGates : stage[g] = "accepted" => Current(g)
  BY CurrentIs
<1> SUFFICES \A g \in ReviewGates : stage'[g] = "accepted" => Current(g)'
  BY DEF AcceptedGateIsCurrent, Current
<1>1. ASSUME content' = content, acceptedOf' = acceptedOf,
             \A g \in ReviewGates : stage'[g] = "accepted" => stage[g] = "accepted"
      PROVE  \A g \in ReviewGates : stage'[g] = "accepted" => Current(g)'
  BY <1>0, <1>1, CurrentStep
<1>2. CASE UNCHANGED stateVars
  BY <1>1, <1>2 DEF stateVars
<1>3. ASSUME NEW p \in Required, GeneratePatch(p),
             NEW g \in ReviewGates, stage'[g] = "accepted"
      PROVE  Current(g)'
  <2>1. /\ p \notin Valid /\ content[p] = NoContent
        /\ stage' = stage /\ acceptedOf' = acceptedOf
        /\ \A q \in Required \ {p} : content'[q] = content[q]
    BY <1>3 DEF GeneratePatch, Valid, RequestInv, TypeOK, StateTypeOK, Hashes
  <2>2. Current(g)
    BY <1>0, <1>3, <2>1
  <2>3. p \notin GateNeeds[g]
    BY <2>1, <2>2 DEF Current, GateReady
  <2>4. GateReady(g)'
    BY <2>1, <2>2, <2>3 DEF Current, GateReady, Valid
  <2>5. p \in GateReads[g] => acceptedOf'[g][p] = NoContent
    BY <2>1, <2>2 DEF Current
  <2>6. QED
    BY <2>1, <2>2, <2>3, <2>4, <2>5 DEF Current
<1>4. ASSUME NEW g \in ReviewGates, AcceptGate(g),
             NEW h \in ReviewGates, stage'[h] = "accepted"
      PROVE  Current(h)'
  <2>1. /\ stage' = [ stage EXCEPT ![g] = "accepted" ] /\ content' = content
        /\ acceptedOf' = [ acceptedOf EXCEPT ![g] = InputOf(g) ] /\ GateReady(g)
    BY <1>4 DEF AcceptGate, MayReview
  <2>2. CASE h = g
    <3>1. acceptedOf'[g] = InputOf(g) /\ GateReady(g)'
      BY <2>1 DEF GateReady, Valid
    <3>2. \A p \in GateReads[g] \cap Required : InputOf(g)[p] = content[p]
      BY DEF InputOf, GateInputs
    <3>3. QED
      BY <2>1, <2>2, <3>1, <3>2 DEF Current
  <2>3. CASE h # g
    BY <1>0, <1>4, <2>1, <2>3, CurrentStep
  <2>4. QED
    BY <2>2, <2>3
<1>5. ASSUME NEW g \in ReviewGates, RejectGate(g) \/ BlockGate(g)
      PROVE  \A h \in ReviewGates : stage'[h] = "accepted" => Current(h)'
  BY <1>1, <1>5 DEF RejectGate, BlockGate
<1>6. ASSUME \/ \E why \in ReadinessReasons : FindUnready(why)
             \/ Assemble
             \/ \E why \in AssemblyIssues : FailAssembly(why)
      PROVE  \A g \in ReviewGates : stage'[g] = "accepted" => Current(g)'
  BY <1>1, <1>6 DEF FindUnready, Assemble, FailAssembly
<1>7. CASE ReturnFromLoop
  BY <1>1, <1>7 DEF ReturnFromLoop
<1>8. ASSUME NEW id \in Ids, RecomputeTaskPlan(id)
      PROVE  \A g \in ReviewGates : stage'[g] = "accepted" => Current(g)'
  BY <1>8, RecomputeEffect
<1>9. ASSUME CommitOwner, NEW g \in ReviewGates, stage'[g] = "accepted"
      PROVE  Current(g)'
  <2>1. /\ InvalidateGates(Changed) /\ acceptedOf' = acceptedOf
        /\ \A p \in Required \ Changed : content'[p] = content[p]
        /\ DOMAIN loop.candidate \subseteq PatchTypes
    BY <1>9, CommitEffect
  <2>2. g \notin GatesAffectedBy(Changed) /\ stage[g] = "accepted"
    BY <1>9, <2>1 DEF InvalidateGates
  <2>3. GateReads[g] \cap Changed = {}
    BY <2>1, <2>2, UnaffectedInputs DEF Changed
  <2>4. QED
    BY <1>0, <2>1, <2>2, <2>3, CurrentStep
<1>10. ASSUME NEW c \in ContentsOf["facts"], ReviseFacts(c),
              NEW g \in ReviewGates, stage'[g] = "accepted"
       PROVE  Current(g)'
  <2>1. g = "facts"
    BY <1>10, RevisedWhileOpen
  <2>2. Valid' = {"facts"} /\ acceptedOf'["facts"] = InputOf("facts")'
    BY <1>10, ReviseEffect
  <2>3. GateNeeds["facts"] = {"facts"} /\ GateReads["facts"] = {"facts"}
    BY DEF GateNeeds, GateReads
  <2>4. GateReady("facts")'
    BY <2>2, <2>3 DEF GateReady
  <2>5. acceptedOf'["facts"]["facts"] = content'["facts"]
    BY <2>2, <2>3, RequiredAssumption DEF InputOf, GateInputs
  <2>6. QED
    BY <2>1, <2>3, <2>4, <2>5 DEF Current
<1>11. ASSUME NEW id \in Ids, BuildTaskPlan(id)
       PROVE  \A g \in ReviewGates : stage'[g] = "accepted" => Current(g)'
  BY <1>1, <1>11 DEF BuildTaskPlan
<1>12. QED
  BY <1>2, <1>3, <1>4, <1>5, <1>6, <1>7, <1>8, <1>9, <1>10, <1>11, StateSteps

GateInv == /\ RequestInv /\ CandidateOwnersValid /\ CallerInv
           /\ AcceptedAfterFacts /\ AcceptedGateIsCurrent

LEMMA GateInvInit == Init => GateInv
PROOF
<1> SUFFICES ASSUME Init
             PROVE  GateInv
  OBVIOUS
<1>1. RequestInv /\ CandidateOwnersValid
  BY RequestInvInit DEF Init, CandidateOwnersValid
<1>2. "none" \notin ReviewGates
  BY GateAssumption DEF Gates
<1>3. CallerInv /\ AcceptedAfterFacts /\ AcceptedGateIsCurrent
  BY <1>2 DEF Init, IdleLoop, CallerInv, AcceptedAfterFacts, AcceptedGateIsCurrent
<1>4. QED
  BY <1>1, <1>3 DEF GateInv

LEMMA GateInvariant == Spec => []GateInv
PROOF
<1>1. Init => GateInv
  BY GateInvInit
<1>2. GateInv /\ [Next]_vars => GateInv'
  BY RequestInvStep, CandidateOwnersValidStep, CallerStep, AfterFactsStep, AcceptedGateStep
     DEF GateInv
<1>3. QED
  BY <1>1, <1>2, PTL DEF Spec

(* What a gate has accepted is what is there: a commit puts every gate     *)
(* back to pending that reviews a changed patch, directly or through what  *)
(* it was generated from.                                                  *)
THEOREM AcceptanceIsCurrent == Spec => []AcceptedGateIsCurrent
PROOF
<1>1. GateInv => AcceptedGateIsCurrent
  BY DEF GateInv
<1>2. QED
  BY <1>1, GateInvariant, PTL

-----------------------------------------------------------------------------
(* Stale patches.                                                          *)

(* No reason names two owners of which one is generated, directly or not,  *)
(* from the other.  (The renderer codes name axial_layers together with    *)
(* axial_overlays: for them the theorem does not hold, see MCOwnerPair.)   *)
OwnersIndependent ==
  \A why \in Reasons : \A p, q \in Image(OwnerPolicy[why].owners) :
    p # q => q \notin TransitiveDependents({p})

(* The patches a commit replaces are not made stale by it: neither they    *)
(* nor what they were generated from depends on another owner.             *)
LEMMA OwnersKeepTheirBasis ==
  ASSUME OwnersIndependent, RequestInv, CandidateOwnersValid, CommitOwner,
         NEW p \in DOMAIN loop.candidate, NEW d \in Dependencies[p]
  PROVE  d \notin Changed
PROOF
<1> DEFINE r == requests[loop.request]
<1>1. loop.request \in Ids /\ DOMAIN loop.candidate = Owners(r)
      /\ DOMAIN loop.candidate \subseteq Changed /\ Changed \subseteq PatchTypes
  BY CommitEffect
<1>2. r \in Requests
  BY <1>1, ElementOfSeq DEF RequestInv, TypeOK, RequestTypeOK, Ids
<1>3. \A q \in Owners(r) : q # p => p \notin TransitiveDependents({q})
  BY <1>1, <1>2 DEF Requests, OwnersIndependent, Owners
<1>4. ASSUME d \in Changed
      PROVE  FALSE
  <2>1. PICK q \in Owners(r) : d \in TransitiveDependents({q})
    BY <1>1, <1>4 DEF Changed, TransitiveDependents
  <2>2. q \in PatchTypes /\ p \in PatchTypes
    BY <1>1
  <2>3. p \in TransitiveDependents({q})
    BY <2>1, <2>2, TransitiveIsClosed
  <2>4. q = p
    BY <1>3, <2>3
  <2>5. d \in DependentClosure[p]
    BY <2>1, <2>4 DEF TransitiveDependents
  <2>6. QED
    BY <2>2, <2>5, ClosureIsAcyclic
<1>5. QED
  BY <1>4

(* Both patch orders put a patch after what it is generated from.          *)
LEMMA OrdersRespectDependencies ==
  ASSUME NEW p \in PatchTypes, NEW d \in Dependencies[p]
  PROVE  d \in Earlier(p)
PROOF
<1>1. CASE PatchOrder = Order
  <2>1. d \in PatchTypes /\ Rank[d] < Rank[p]
    BY DependenciesComeEarlier
  <2>2. Rank[d] \in 1..Len(Order) /\ Rank[p] \in 1..Len(Order) /\ DOMAIN Order = 1..Len(Order)
    BY <2>1, RankType, OrderOfRank DEF Order
  <2>3. Order[Rank[d]] = d /\ Order[Rank[p]] = p
    BY <2>1, OrderOfRank
  <2>4. QED
    BY <1>1, <2>1, <2>2, <2>3 DEF Earlier
<1>2. CASE PatchOrder = BarrierOrder
  <2> DEFINE place == [ facts |-> 1, materials |-> 2, universes |-> 3,
                        localized_insert_profiles |-> 4, pin_map |-> 5,
                        assembly_catalog |-> 6, core_layout |-> 7,
                        base_path_axial_profiles |-> 8, axial_layers |-> 9,
                        axial_overlays |-> 10, settings |-> 11 ]
  <2>1. d \in PatchTypes /\ place[d] < place[p]
    BY PatchTypesIs, SMTT(60) DEF Dependencies
  <2>2. \A q \in PatchTypes : place[q] \in 1..11 /\ BarrierOrder[place[q]] = q
    BY PatchTypesIs, SMTT(60) DEF BarrierOrder
  <2>3. DOMAIN BarrierOrder = 1..11
    BY DEF BarrierOrder
  <2> HIDE DEF place
  <2>4. QED
    BY <1>2, <2>1, <2>2, <2>3 DEF Earlier
<1>3. QED
  BY <1>1, <1>2 DEF PatchOrder

LEMMA GeneratedFromValid ==
  ASSUME NEW p \in Required, GeneratePatch(p)
  PROVE  Dependencies[p] \cap Required \subseteq Valid
PROOF BY RequiredAssumption, OrdersRespectDependencies DEF GeneratePatch

LEMMA NoStaleStep ==
  ASSUME OwnersIndependent, RequestInv, CandidateOwnersValid, NoStalePatch, [Next]_vars
  PROVE  NoStalePatch'
PROOF
<1> DEFINE Fresh(p) == basis[p] = BasisNow(p) /\ Dependencies[p] \cap Required \subseteq Valid
<1>0. StateTypeOK
  BY DEF RequestInv, TypeOK
<1>1. CASE UNCHANGED << content, basis >>
  BY <1>1 DEF NoStalePatch, Valid, BasisNow
<1>2. ASSUME NEW p \in Required, GeneratePatch(p)
      PROVE  NoStalePatch'
  <2>1. /\ p \notin Valid
        /\ \A q \in Required \ {p} : content'[q] = content[q] /\ basis'[q] = basis[q]
        /\ basis'[p] = BasisNow(p)
    BY <1>0, <1>2 DEF GeneratePatch, Valid, StateTypeOK, Hashes
  <2>2. p \notin Dependencies[p]
    BY DependenciesComeEarlier, RankType, RequiredAssumption
  <2>3. Valid \subseteq Valid' /\ Valid' \subseteq Valid \cup {p}
    BY <2>1 DEF Valid
  <2>4. ASSUME NEW q \in Valid'
        PROVE  Fresh(q)'
    <3>1. CASE q = p
      <4>1. BasisNow(q)' = BasisNow(q)
        BY <2>1, <2>2, <3>1 DEF BasisNow
      <4>2. QED
        BY <1>2, <2>1, <2>3, <3>1, <4>1, GeneratedFromValid
    <3>2. CASE q \in Valid
      <4>1. Fresh(q) /\ q \in Required /\ q # p
        BY <2>1, <3>2 DEF NoStalePatch, Valid
      <4>2. p \notin Dependencies[q]
        BY <2>1, <4>1
      <4>3. BasisNow(q)' = BasisNow(q)
        BY <2>1, <4>2 DEF BasisNow
      <4>4. QED
        BY <2>1, <2>3, <4>1, <4>3
    <3>3. QED
      BY <2>3, <3>1, <3>2
  <2>5. QED
    BY <2>4 DEF NoStalePatch
<1>3. ASSUME NEW id \in Ids, RecomputeTaskPlan(id)
      PROVE  NoStalePatch'
  BY <1>3, RecomputeEffect DEF NoStalePatch
<1>4. CASE CommitOwner
  <2>1. /\ \A p \in Required :
             /\ p \in DOMAIN loop.candidate => basis'[p] = BasisNow(p)
             /\ p \notin Changed => content'[p] = content[p] /\ basis'[p] = basis[p]
        /\ Valid' = Valid \ (Changed \ DOMAIN loop.candidate)
        /\ DOMAIN loop.candidate \subseteq PatchTypes
    BY <1>4, CommitEffect
  <2>2. ASSUME NEW p \in Valid'
        PROVE  Fresh(p)'
    <3>1. p \in Valid /\ p \in Required /\ Fresh(p) /\ p \in PatchTypes
      BY <2>1, RequiredAssumption DEF NoStalePatch, Valid
    <3>2. p \in DOMAIN loop.candidate \/ p \notin Changed
      BY <2>1
    <3>3. basis'[p] = BasisNow(p)
      BY <2>1, <3>1, <3>2
    <3>4. \A d \in Dependencies[p] : d \notin Changed
      <4>1. CASE p \in DOMAIN loop.candidate
        BY <1>4, <4>1, OwnersKeepTheirBasis
      <4>2. CASE p \notin Changed
        BY <2>1, <3>1, <4>2, TransitiveIsClosed DEF Changed
      <4>3. QED
        BY <3>2, <4>1, <4>2
    <3>5. BasisNow(p)' = BasisNow(p)
      BY <2>1, <3>4 DEF BasisNow
    <3>6. Dependencies[p] \cap Required \subseteq Valid'
      BY <2>1, <3>1, <3>4
    <3>7. QED
      BY <3>3, <3>5, <3>6
  <2>3. QED
    BY <2>2 DEF NoStalePatch
<1>5. /\ \A g : AcceptGate(g) => UNCHANGED << content, basis >>
      /\ \A g : RejectGate(g) => UNCHANGED << content, basis >>
      /\ \A g : BlockGate(g) => UNCHANGED << content, basis >>
      /\ \A why : FindUnready(why) => UNCHANGED << content, basis >>
      /\ Assemble => UNCHANGED << content, basis >>
      /\ \A why : FailAssembly(why) => UNCHANGED << content, basis >>
      /\ ReturnFromLoop => UNCHANGED << content, basis >>
      /\ \A id : BuildTaskPlan(id) => UNCHANGED << content, basis >>
  BY DEF AcceptGate, RejectGate, BlockGate, FindUnready, Assemble, FailAssembly,
         ReturnFromLoop, BuildTaskPlan
<1>6. UNCHANGED stateVars => UNCHANGED << content, basis >>
  BY DEF stateVars
<1>7. ASSUME NEW c \in ContentsOf["facts"], ReviseFacts(c)
      PROVE  NoStalePatch'
  <2>1. Valid' = {"facts"} /\ basis'["facts"] = BasisNow("facts")
    BY <1>7, ReviseEffect
  <2>2. BasisNow("facts")' = BasisNow("facts")
    BY FactsFirst DEF BasisNow
  <2>3. QED
    BY <2>1, <2>2, FactsFirst DEF NoStalePatch
<1>8. QED
  BY <1>1, <1>2, <1>3, <1>4, <1>5, <1>6, <1>7, StateSteps

(* A valid patch was generated from the patches that are there now,        *)
(* whatever was retried since: for every plan and every policy table whose *)
(* owners are independent.                                                 *)
THEOREM NothingStale ==
  ASSUME OwnersIndependent
  PROVE  Spec => []NoStalePatch
PROOF
<1>1. Init => NoStalePatch
  BY DEF Init, NoStalePatch, Valid
<1>2. GateInv /\ NoStalePatch /\ [Next]_vars => NoStalePatch'
  BY OwnersIndependent, NoStaleStep DEF GateInv
<1>3. QED
  BY <1>1, <1>2, GateInvariant, PTL DEF Spec

-----------------------------------------------------------------------------
(* The facts barrier.                                                      *)
FactsInv ==
  mode = "controlled" /\ "facts" \in ReviewGates /\ Valid \ {"facts"} # {} =>
    stage["facts"] = "accepted"

(* A commit of facts leaves nothing else valid; any other commit leaves    *)
(* the facts and their gate alone.                                         *)
LEMMA CommitAndFacts ==
  ASSUME OwnersIndependent, RequestInv, CandidateOwnersValid, CommitOwner
  PROVE  \/ Valid' \subseteq {"facts"} /\ "facts" \in Changed
         \/ content'["facts"] = content["facts"] /\ "facts" \notin Changed
PROOF
<1> DEFINE owners == DOMAIN loop.candidate
<1>1. /\ owners \subseteq Changed /\ Changed \subseteq PatchTypes
      /\ Valid' = Valid \ (Changed \ owners)
      /\ "facts" \notin Changed => content'["facts"] = content["facts"]
  BY CommitEffect, RequiredAssumption
<1>2. CASE "facts" \in Changed
  <2>1. PICK q \in owners : "facts" \in TransitiveDependents({q})
    BY <1>2 DEF Changed, TransitiveDependents
  <2>2. q = "facts"
    BY <1>1, <2>1, FactsFirst, ClosureIsAcyclic DEF TransitiveDependents
  <2>3. \A p \in PatchTypes : p # "facts" => p \in Changed
    BY <1>2, <1>1, FactsFirst, TransitiveIsClosed DEF Changed
  <2>4. \A p \in owners : p = "facts"
    BY <1>1, <2>1, <2>2, FactsFirst, OwnersKeepTheirBasis
  <2>5. Valid \subseteq PatchTypes
    BY RequiredAssumption DEF Valid
  <2>6. QED
    BY <1>1, <1>2, <2>3, <2>4, <2>5
<1>3. CASE "facts" \notin Changed
  BY <1>1, <1>3
<1>4. QED
  BY <1>2, <1>3

LEMMA FactsStep ==
  ASSUME OwnersIndependent, GateInv, FactsInv, [Next]_vars
  PROVE  FactsInv'
PROOF
<1> RequestInv /\ CandidateOwnersValid /\ CallerInv /\ AcceptedGateIsCurrent
  BY DEF GateInv
<1>0. stage \in [ReviewGates -> Stages] /\ content \in Hashes(Required)
  BY DEF RequestInv, TypeOK, StateTypeOK
<1>1. mode' = mode
  BY ModeStays
<1> SUFFICES ASSUME mode = "controlled", "facts" \in ReviewGates,
                    Valid' \ {"facts"} # {}
             PROVE  stage'["facts"] = "accepted"
  BY <1>1 DEF FactsInv
<1>2. Valid \ {"facts"} # {} => stage["facts"] = "accepted"
  BY DEF FactsInv
<1>3. ASSUME stage'["facts"] = stage["facts"], content' = content
      PROVE  stage'["facts"] = "accepted"
  BY <1>2, <1>3 DEF Valid
<1>4. CASE UNCHANGED stateVars
  BY <1>3, <1>4 DEF stateVars
<1>5. ASSUME NEW p \in Required, GeneratePatch(p)
      PROVE  stage'["facts"] = "accepted"
  <2>1. /\ stage' = stage /\ MayGenerate(p)
        /\ \A q \in Required \ {p} : content'[q] = content[q]
    BY <1>0, <1>5 DEF GeneratePatch, Hashes
  <2>2. Valid' \subseteq Valid \cup {p}
    BY <2>1 DEF Valid
  <2>3. CASE p = "facts"
    BY <1>2, <2>1, <2>2, <2>3
  <2>4. CASE p # "facts"
    BY <2>1, <2>4 DEF MayGenerate, Accepted
  <2>5. QED
    BY <2>3, <2>4
<1>6. ASSUME NEW g \in ReviewGates, AcceptGate(g)
      PROVE  stage'["facts"] = "accepted"
  <2>1. stage' = [ stage EXCEPT ![g] = "accepted" ] /\ content' = content
    BY <1>6 DEF AcceptGate
  <2>2. QED
    BY <1>0, <1>3, <2>1
<1>7. ASSUME NEW g \in ReviewGates, RejectGate(g) \/ BlockGate(g)
      PROVE  stage'["facts"] = "accepted"
  <2>1. /\ content' = content
        /\ \E st \in {"reviewing", "blocked"} : stage' = [ stage EXCEPT ![g] = st ]
    BY <1>7 DEF RejectGate, BlockGate
  <2>2. CASE g = "facts"
    <3>1. stage["facts"] = "accepted"
      BY <1>2, <2>1 DEF Valid
    <3>2. ~RejectGate(g)
      BY <2>2, <3>1, FactsReviewsFacts DEF RejectGate, MayReview
    <3>3. ~BlockGate(g)
      BY <2>2, <3>1 DEF BlockGate, Rejecting, Behind, CallerInv
    <3>4. QED
      BY <1>7, <3>2, <3>3
  <2>3. CASE g # "facts"
    BY <1>0, <1>3, <2>1, <2>3
  <2>4. QED
    BY <2>2, <2>3
<1>8. ASSUME \/ \E why \in ReadinessReasons : FindUnready(why)
             \/ Assemble
             \/ \E why \in AssemblyIssues : FailAssembly(why)
             \/ \E id \in Ids : BuildTaskPlan(id)
      PROVE  stage'["facts"] = "accepted"
  BY <1>3, <1>8 DEF FindUnready, Assemble, FailAssembly, BuildTaskPlan
<1>9. CASE ReturnFromLoop
  BY <1>0, <1>3, <1>9 DEF ReturnFromLoop
<1>10. ASSUME NEW c \in ContentsOf["facts"], ReviseFacts(c)
       PROVE  stage'["facts"] = "accepted"
  BY <1>10, ReviseEffect
<1>11. ~ \E id \in Ids : RecomputeTaskPlan(id)
  BY RecomputeEffect
<1>12. CASE CommitOwner
  <2>1. /\ InvalidateGates(Changed)
        /\ Valid' = Valid \ (Changed \ DOMAIN loop.candidate)
    BY <1>12, CommitEffect
  <2>2. "facts" \notin Changed
    BY <1>12, CommitAndFacts
  <2>3. "facts" \notin GatesAffectedBy(Changed)
    BY <2>2 DEF GatesAffectedBy, GatePatchTypes, Gates
  <2>4. QED
    BY <1>2, <2>1, <2>3 DEF InvalidateGates
<1>13. QED
  BY <1>4, <1>5, <1>6, <1>7, <1>8, <1>9, <1>10, <1>11, <1>12, StateSteps

(* In controlled mode a patch past the facts stands only beside facts that *)
(* the Facts gate has accepted as they are, however often the facts are    *)
(* retried, recomputed or revised by the gate itself.                      *)
THEOREM NothingBeforeFacts ==
  ASSUME OwnersIndependent
  PROVE  Spec => []FactsBarrier
PROOF
<1>1. Init => FactsInv
  BY DEF Init, FactsInv, Valid
<1>2. GateInv /\ FactsInv /\ [Next]_vars => FactsInv'
  BY OwnersIndependent, FactsStep
<1>3. GateInv /\ FactsInv => FactsBarrier
  BY FactsReviewsFacts DEF GateInv, FactsInv, FactsBarrier
<1>4. QED
  BY <1>1, <1>2, <1>3, GateInvariant, PTL DEF Spec

-----------------------------------------------------------------------------
(* While there is an assembled plan no gate has accepted other patches,    *)
(* and only the controlled loop has acceptances.  While the assembled-plan *)
(* gate's acceptance stands for the task plan that is there, so do the     *)
(* others'; a gate that accepted before there was a task plan did so for   *)
(* none, so that building one cannot make that true again.                 *)
AcceptanceInv ==
  /\ mode # "controlled" => \A g \in ReviewGates : stage[g] # "accepted"
  /\ assembled # NoAssembly =>
       \A g \in ReviewGates : stage[g] = "accepted" => ~PatchesChanged(g)
  /\ "assembled_plan" \in ReviewGates /\ stage["assembled_plan"] = "accepted" =>
       /\ assembled # NoAssembly
       /\ acceptedPlan["assembled_plan"] = taskPlan =>
            \A g \in ReviewGates : stage[g] = "accepted" /\ ~Outgrown(g)
  /\ taskPlan = NoTaskPlan => \A g \in ReviewGates : acceptedPlan[g] = NoTaskPlan

FinalInv == GateInv /\ AssembledInv /\ AcceptanceInv

LEMMA ChangedKept ==
  ASSUME NEW g, content' = content, acceptedOf'[g] = acceptedOf[g]
  PROVE  PatchesChanged(g)' = PatchesChanged(g)
PROOF BY DEF PatchesChanged, GateInputs

LEMMA OutgrownKept ==
  ASSUME NEW g, content' = content, acceptedOf'[g] = acceptedOf[g],
         taskPlan' = taskPlan, acceptedPlan'[g] = acceptedPlan[g]
  PROVE  Outgrown(g)' = Outgrown(g)
PROOF BY DEF Outgrown, PatchesChanged, GateInputs

LEMMA AcceptanceStep ==
  ASSUME FinalInv, [Next]_vars
  PROVE  AcceptanceInv'
PROOF
<1> /\ RequestInv /\ CandidateOwnersValid /\ CallerInv /\ AcceptedAfterFacts
    /\ AcceptedGateIsCurrent /\ AssembledInv /\ AcceptanceInv
  BY DEF FinalInv, GateInv
<1>0. /\ stage \in [ReviewGates -> Stages] /\ DOMAIN acceptedOf = ReviewGates
      /\ acceptedPlan \in [ReviewGates -> TaskPlans \cup {NoTaskPlan}]
  BY DEF RequestInv, TypeOK, StateTypeOK
<1>m. mode' = mode
  BY ModeStays
<1>1. ASSUME UNCHANGED << content, taskPlan, stage, acceptedOf, acceptedPlan >>,
             assembled' # NoAssembly /\ assembled = NoAssembly =>
               \A g \in ReviewGates : stage[g] = "accepted" => ~PatchesChanged(g),
             assembled # NoAssembly => assembled' # NoAssembly
      PROVE  AcceptanceInv'
  BY <1>1, <1>m, ChangedKept, OutgrownKept DEF AcceptanceInv
<1>2. CASE UNCHANGED stateVars
  BY <1>1, <1>2 DEF stateVars
<1>3. ASSUME NEW p \in Required, GeneratePatch(p)
      PROVE  AcceptanceInv'
  <2>1. /\ p \notin Valid
        /\ UNCHANGED << stage, taskPlan, assembled, acceptedPlan >>
    BY <1>3 DEF GeneratePatch, Valid
  <2>2. assembled = NoAssembly
    BY <2>1 DEF AssembledInv
  <2>3. QED
    BY <1>m, <2>1, <2>2 DEF AcceptanceInv
<1>4. ASSUME NEW g \in ReviewGates, AcceptGate(g)
      PROVE  AcceptanceInv'
  <2>1. /\ stage' = [ stage EXCEPT ![g] = "accepted" ] /\ mode = "controlled"
        /\ acceptedOf' = [ acceptedOf EXCEPT ![g] = InputOf(g) ]
        /\ acceptedPlan' = [ acceptedPlan EXCEPT ![g] = taskPlan ]
        /\ content' = content /\ assembled' = assembled
        /\ stage[g] = "accepted" => Outgrown(g)
        /\ g = "assembled_plan" =>
             /\ assembled # NoAssembly
             /\ \A u \in Gates \ {g} :
                  Accepted(u) /\ (u \in ReviewGates => ~Outgrown(u))
    BY <1>4 DEF AcceptGate, MayReview, UpstreamAccepted
  <2>2. ~PatchesChanged(g)' /\ acceptedPlan'[g] = taskPlan
    <3>1. acceptedOf'[g] = InputOf(g) /\ acceptedPlan'[g] = taskPlan
      BY <1>0, <2>1
    <3>2. \A p \in GateInputs(g) : InputOf(g)[p] = content[p]
      BY DEF InputOf
    <3>3. QED
      BY <2>1, <3>1, <3>2 DEF PatchesChanged, GateInputs
  <2>3. \A h \in ReviewGates \ {g} : /\ PatchesChanged(h)' = PatchesChanged(h)
                                     /\ stage'[h] = stage[h]
                                     /\ acceptedPlan'[h] = acceptedPlan[h]
    BY <1>0, <2>1, ChangedKept
  <2>4. stage'[g] = "accepted"
    BY <1>0, <2>1
  <2>5. CASE g = "facts"
    <3>1. \A h \in ReviewGates : stage[h] # "accepted"
      BY <2>1, <2>5, FactsReviewsFacts DEF AcceptedAfterFacts
    <3>2. taskPlan' \in TaskPlans
      BY <1>4, <2>5, TaskPlanType DEF AcceptGate, RequestInv, TypeOK
    <3>3. QED
      BY <1>m, <2>1, <2>2, <2>3, <2>5, <3>1, <3>2, TaskPlanAssumption DEF AcceptanceInv
  <2>6. CASE g # "facts"
    <3>1. taskPlan' = taskPlan
      BY <1>4, <2>6 DEF AcceptGate
    <3>2. ~Outgrown(g)'
      BY <2>2, <3>1 DEF Outgrown
    <3>3. \A h \in ReviewGates \ {g} : Outgrown(h)' = Outgrown(h)
      BY <2>3, <3>1 DEF Outgrown
    <3>4. g = "assembled_plan" =>
            \A h \in ReviewGates \ {g} : stage[h] = "accepted" /\ ~Outgrown(h)
      BY <2>1, GateAssumption DEF Accepted
    <3>5. taskPlan' = NoTaskPlan => \A h \in ReviewGates : acceptedPlan'[h] = NoTaskPlan
      BY <2>2, <2>3, <3>1 DEF AcceptanceInv
    <3>6. assembled' # NoAssembly =>
            \A h \in ReviewGates : stage'[h] = "accepted" => ~PatchesChanged(h)'
      BY <2>1, <2>2, <2>3 DEF AcceptanceInv
    <3>7. ASSUME "assembled_plan" \in ReviewGates, stage'["assembled_plan"] = "accepted"
          PROVE  /\ assembled' # NoAssembly
                 /\ acceptedPlan'["assembled_plan"] = taskPlan' =>
                      \A h \in ReviewGates : stage'[h] = "accepted" /\ ~Outgrown(h)'
      <4>1. CASE g = "assembled_plan"
        BY <2>1, <2>3, <2>4, <3>2, <3>3, <3>4, <4>1
      <4>2. CASE g # "assembled_plan"
        <5>1. /\ stage["assembled_plan"] = "accepted"
              /\ acceptedPlan'["assembled_plan"] = acceptedPlan["assembled_plan"]
          BY <2>3, <3>7, <4>2
        <5>2. QED
          BY <2>1, <2>3, <2>4, <3>1, <3>2, <3>3, <3>7, <5>1 DEF AcceptanceInv
      <4>3. QED
        BY <4>1, <4>2
    <3>8. mode' = "controlled"
      BY <1>m, <2>1
    <3>9. QED
      BY <3>5, <3>6, <3>7, <3>8 DEF AcceptanceInv
  <2>7. QED
    BY <2>5, <2>6
<1>5. ASSUME NEW g \in ReviewGates,
             stage[g] # "accepted" \/ Outgrown(g),
             \E s \in {"reviewing", "blocked"} : stage' = [ stage EXCEPT ![g] = s ],
             UNCHANGED << content, taskPlan, assembled, acceptedOf, acceptedPlan >>
      PROVE  AcceptanceInv'
  <2>1. \A h \in ReviewGates : stage'[h] = "accepted" => stage[h] = "accepted"
    BY <1>0, <1>5
  <2>2. "assembled_plan" \in ReviewGates /\ stage["assembled_plan"] = "accepted" =>
          acceptedPlan["assembled_plan"] # taskPlan
    BY <1>5 DEF AcceptanceInv
  <2>3. QED
    BY <1>5, <1>m, <2>1, <2>2, ChangedKept DEF AcceptanceInv
<1>6. ASSUME NEW g \in ReviewGates, RejectGate(g)
      PROVE  AcceptanceInv'
  <2>1. stage[g] # "accepted" \/ Outgrown(g)
    BY <1>6 DEF RejectGate, MayReview
  <2>2. QED
    BY <1>5, <1>6, <2>1 DEF RejectGate
<1>7. ASSUME NEW g \in ReviewGates, BlockGate(g)
      PROVE  AcceptanceInv'
  <2>1. stage[g] # "accepted"
    BY <1>7 DEF BlockGate, Rejecting, Behind, CallerInv
  <2>2. QED
    BY <1>5, <1>7, <2>1 DEF BlockGate
<1>8. ASSUME NEW why \in ReadinessReasons, FindUnready(why)
      PROVE  AcceptanceInv'
  BY <1>1, <1>8 DEF FindUnready
<1>9. ASSUME NEW why \in AssemblyIssues, FailAssembly(why)
      PROVE  AcceptanceInv'
  BY <1>1, <1>9 DEF FailAssembly
<1>10. CASE Assemble
  <2>1. /\ AllGenerated /\ assembled' = content
        /\ UNCHANGED << content, taskPlan, stage, acceptedOf, acceptedPlan >>
    BY <1>10 DEF Assemble
  <2>2. content # NoAssembly
    <3>1. content \in Hashes(Required)
      BY DEF RequestInv, TypeOK, StateTypeOK
    <3>2. DOMAIN content # {} /\ DOMAIN NoAssembly = {}
      BY <3>1, RequiredAssumption DEF Hashes, NoAssembly
    <3>3. QED
      BY <3>2
  <2>3. assembled = NoAssembly =>
          \A g \in ReviewGates : stage[g] = "accepted" => ~PatchesChanged(g)
    BY <2>1 DEF AllGenerated, GatePassed, Outgrown, AcceptanceInv
  <2>4. QED
    BY <1>1, <2>1, <2>2, <2>3
<1>11. CASE ReturnFromLoop
  <2>1. CASE UNCHANGED stage
    BY <1>1, <1>11, <2>1 DEF ReturnFromLoop
  <2>2. CASE loop.caller = "placement" /\ stage' = [ stage EXCEPT !["placement"] = "blocked" ]
    <3>1. CASE "placement" \in ReviewGates
      <4>1. stage["placement"] # "accepted"
        BY <2>2, <3>1 DEF CallerInv
      <4>2. QED
        BY <1>5, <1>11, <2>2, <3>1, <4>1 DEF ReturnFromLoop
    <3>2. CASE "placement" \notin ReviewGates
      <4>1. stage' = stage
        BY <1>0, <2>2, <3>2
      <4>2. QED
        BY <1>1, <1>11, <4>1 DEF ReturnFromLoop
    <3>3. QED
      BY <3>1, <3>2
  <2>3. QED
    BY <1>11, <2>1, <2>2 DEF ReturnFromLoop
<1>12. ASSUME NEW id \in Ids, RecomputeTaskPlan(id)
       PROVE  AcceptanceInv'
  <2>1. taskPlan' \in TaskPlans /\ \A g \in ReviewGates : stage'[g] = "pending"
    BY <1>12, RecomputeEffect, TaskPlanType DEF RecomputeTaskPlan, RequestInv, TypeOK
  <2>2. QED
    BY <2>1, TaskPlanAssumption DEF AcceptanceInv
<1>13. CASE CommitOwner
  <2>1. /\ InvalidateGates(Changed) /\ assembled' = NoAssembly
        /\ UNCHANGED << taskPlan, acceptedPlan >>
    BY <1>13, CommitEffect DEF CommitOwner
  <2>2. /\ "assembled_plan" \in ReviewGates => stage'["assembled_plan"] = "pending"
        /\ \A g \in ReviewGates : stage'[g] = "accepted" => stage[g] = "accepted"
    BY <2>1 DEF InvalidateGates, GatesAffectedBy
  <2>3. QED
    BY <1>m, <2>1, <2>2 DEF AcceptanceInv
<1>14. ASSUME NEW c \in ContentsOf["facts"], ReviseFacts(c)
       PROVE  AcceptanceInv'
  <2>1. /\ mode = "controlled" /\ assembled' = NoAssembly
        /\ UNCHANGED << taskPlan, acceptedPlan >>
    BY <1>14, ReviseEffect
  <2>2. \A g \in ReviewGates : stage'[g] = "accepted" => g = "facts"
    BY <1>14, RevisedWhileOpen
  <2>3. QED
    BY <1>m, <2>1, <2>2 DEF AcceptanceInv
<1>15. ASSUME NEW id \in Ids, BuildTaskPlan(id)
       PROVE  AcceptanceInv'
  <2>1. /\ taskPlan = NoTaskPlan /\ taskPlan' \in TaskPlans
        /\ UNCHANGED << content, stage, assembled, acceptedOf, acceptedPlan >>
    BY <1>15, TaskPlanType DEF BuildTaskPlan, RequestInv, TypeOK
  <2>2. \A g \in ReviewGates : acceptedPlan'[g] # taskPlan'
    BY <2>1, TaskPlanAssumption DEF AcceptanceInv
  <2>3. QED
    BY <1>m, <2>1, <2>2, ChangedKept, TaskPlanAssumption DEF AcceptanceInv
<1>16. QED
  BY <1>2, <1>3, <1>4, <1>6, <1>7, <1>8, <1>9, <1>10, <1>11, <1>12, <1>13, <1>14, <1>15,
     StateSteps

LEMMA FinalInvariant == Spec => []FinalInv
PROOF
<1>1. Init => FinalInv
  BY GateInvInit DEF Init, FinalInv, AssembledInv, AcceptanceInv
<1>2. FinalInv /\ [Next]_vars => FinalInv'
  BY RequestInvStep, CandidateOwnersValidStep, CallerStep, AfterFactsStep, AcceptedGateStep,
     AssembledStep, AcceptanceStep DEF FinalInv, GateInv
<1>3. QED
  BY <1>1, <1>2, PTL DEF Spec

(* A plan whose assembled-plan gate stands accepted is the assembly of the *)
(* patches that are there, and while that gate need not look again every   *)
(* other gate has accepted exactly them: no retry, replay, revision or     *)
(* late patch slips in between.                                            *)
THEOREM AcceptedAsAWhole == Spec => []FinalAcceptance
PROOF
<1>1. FinalInv => FinalAcceptance
  BY DEF FinalInv, AssembledInv, AcceptanceInv, FinalAcceptance, Outgrown, PlanReaders
<1>2. QED
  BY <1>1, FinalInvariant, PTL

-----------------------------------------------------------------------------
(* What a candidate replaces.                                              *)

(* From its production on, the candidate in hand is for the contents its   *)
(* request was made about, or for ones the request never saw.              *)
SeenOrUnseen(id) ==
  \A p \in Owners(requests[id]) : requests[id].hashes[p] \in {HashOf(p), NoContent}
ReviewedInv == pc \in {"check", "accept"} => SeenOrUnseen(loop.request)

LEMMA RequestAbout ==
  ASSUME RequestInv, [Next]_vars, NEW id \in Ids
  PROVE  /\ id \in Ids' /\ requests'[id].owners = requests[id].owners
         /\ requests'[id].hashes = requests[id].hashes
PROOF
<1>1. requests[id] \in Requests
  BY ElementOfSeq DEF RequestInv, TypeOK, RequestTypeOK, Ids
<1>2. PICK lifecycle : requests'[id] = [ requests[id] EXCEPT !.lifecycle = lifecycle ]
  BY RequestsKept DEF RequestInv
<1>3. id \in Ids'
  BY RequestsKept DEF RequestInv
<1>4. QED
  BY <1>1, <1>2, <1>3 DEF Requests

LEMMA ReviewedStep ==
  ASSUME RequestInv, ReviewedInv, [Next]_vars
  PROVE  ReviewedInv'
PROOF
<1> SUFFICES ASSUME pc' \in {"check", "accept"}
             PROVE  SeenOrUnseen(loop.request)'
  BY DEF ReviewedInv
<1>1. CASE UNCHANGED vars
  BY <1>1 DEF vars, stateVars, requestVars, ReviewedInv, SeenOrUnseen, Owners, HashOf
<1>2. ASSUME NEW id \in Ids, NEW cost, NEW rejected, Produce(id, cost, rejected)
      PROVE  SeenOrUnseen(loop.request)'
  <2>1. loop'.request = id
    BY <1>2, ProduceType DEF RequestInv
  <2>2. content' = content /\ ~Outdated(requests[id])
    BY <1>2 DEF Produce, stateVars, Regenerates, Controlled, Compiled, Refused
  <2>3. SeenOrUnseen(id)
    BY <2>2 DEF Outdated, SeenOrUnseen
  <2>4. /\ requests'[id].owners = requests[id].owners
        /\ requests'[id].hashes = requests[id].hashes
    BY RequestAbout
  <2>5. QED
    BY <2>1, <2>2, <2>3, <2>4 DEF SeenOrUnseen, Owners, HashOf
<1>3. CASE PassCycleCheck
  BY <1>3 DEF PassCycleCheck, stateVars, requestVars, ReviewedInv, SeenOrUnseen, Owners, HashOf
<1>4. QED
  BY <1>1, <1>2, <1>3, CandidateSteps

(* In the loop only a commit gives a valid patch another content, and it   *)
(* is for one of the request's owners.                                     *)
LEMMA ReplacedIsOwned ==
  ASSUME RequestInv, CandidateOwnersValid, [Next]_vars, pc # "planner",
         NEW p \in Valid, content'[p] \notin { content[p], NoContent }
  PROVE  /\ pc = "accept" /\ loop.request \in Ids
         /\ p \in Owners(requests[loop.request]) /\ p \in Required
PROOF
<1>1. p \in Required /\ content[p] # NoContent
  BY DEF Valid
<1>2. content' # content
  OBVIOUS
<1>3. ~ \E q \in Required : GeneratePatch(q)
  <2>1. SUFFICES ASSUME NEW q \in Required, GeneratePatch(q)
                 PROVE  FALSE
    OBVIOUS
  <2>2. q # p /\ \E c : content' = [ content EXCEPT ![q] = c ]
    BY <1>1, <2>1 DEF GeneratePatch
  <2>3. content'[p] = content[p]
    BY <1>1, <2>2 DEF RequestInv, TypeOK, StateTypeOK, Hashes
  <2>4. QED
    BY <2>3
<1>4. ~ \E id \in Ids : RecomputeTaskPlan(id)
  BY <1>1 DEF RecomputeTaskPlan, Without
<1>5. /\ \A g : ~AcceptGate(g)
      /\ \A g : ~RejectGate(g)
      /\ \A g : ~BlockGate(g)
      /\ \A why : ~FindUnready(why)
      /\ ~Assemble /\ \A why : ~FailAssembly(why)
      /\ ~ReturnFromLoop /\ \A id : ~BuildTaskPlan(id)
      /\ \A c : ~ReviseFacts(c)
  BY <1>2 DEF AcceptGate, RejectGate, BlockGate, FindUnready, Assemble, FailAssembly,
              ReturnFromLoop, BuildTaskPlan, ReviseFacts, MayReview
<1>6. CommitOwner
  BY <1>2, <1>3, <1>4, <1>5, StateSteps DEF stateVars
<1>7. p \in DOMAIN loop.candidate
  BY <1>1, <1>6, CommitEffect
<1>8. QED
  BY <1>1, <1>6, <1>7, CommitEffect DEF CommitOwner

ReplacementInv == RequestInv /\ CandidateOwnersValid /\ ReviewedInv

LEMMA ReplacementInvariant == Spec => []ReplacementInv
PROOF
<1>1. Init => ReplacementInv
  BY RequestInvInit DEF ReplacementInv, Init, CandidateOwnersValid, ReviewedInv
<1>2. ReplacementInv /\ [Next]_vars => ReplacementInv'
  BY RequestInvStep, CandidateOwnersValidStep, ReviewedStep DEF ReplacementInv
<1>3. QED
  BY <1>1, <1>2, PTL DEF Spec

(* The loop replaces a valid patch only on behalf of a request that was    *)
(* made about its contents, or that was made when the patch did not exist: *)
(* a commit or a revision in between makes every other request outdated.   *)
THEOREM ReplacedAsSeenOrUnseen ==
  Spec => [][ pc # "planner" =>
                \A p \in Valid : content'[p] \notin { content[p], NoContent } =>
                  requests[loop.request].hashes[p] \in { content[p], NoContent } ]_vars
PROOF
<1>1. ASSUME ReplacementInv, [Next]_vars, pc # "planner",
             NEW p \in Valid, content'[p] \notin { content[p], NoContent }
      PROVE  requests[loop.request].hashes[p] \in { content[p], NoContent }
  <2>1. pc = "accept" /\ p \in Owners(requests[loop.request]) /\ p \in Required
    BY <1>1, ReplacedIsOwned DEF ReplacementInv
  <2>2. QED
    BY <1>1, <2>1 DEF ReplacementInv, ReviewedInv, SeenOrUnseen, HashOf
<1>2. ReplacementInv /\ [Next]_vars =>
        [ pc # "planner" =>
            \A p \in Valid : content'[p] \notin { content[p], NoContent } =>
              requests[loop.request].hashes[p] \in { content[p], NoContent } ]_vars
  BY <1>1
<1>3. QED
  BY <1>2, ReplacementInvariant, PTL DEF Spec

-----------------------------------------------------------------------------
(* Where requests see what they are about: a gate's findings name patches  *)
(* it waits for, the readiness check's any required ones, and none is      *)
(* posted from elsewhere.                                                  *)
FindingsNameWhatIsThere ==
  /\ \A g \in ReviewGates : \A why \in GateReasons[g] :
       Image(OwnerPolicy[why].owners) \subseteq GateNeeds[g] \cap Required
  /\ \A why \in ReadinessReasons : Image(OwnerPolicy[why].owners) \subseteq Required
  /\ DirectReasons = {}

(* Where each registration is made from.                                   *)
LEMMA RegisteringSteps ==
  ASSUME RequestInv, [Next]_vars, ~(Ids' \subseteq Ids)
  PROVE  \/ \E g \in ReviewGates : \E why \in GateReasons[g], input \in Inputs :
              Rejecting(g) /\ Register(NewRequest(why, input))
         \/ \E why \in ReadinessReasons :
              AllGenerated /\ Register(NewRequest(why, NoInput))
         \/ \E why \in DirectReasons : Register(NewRequest(why, NoInput))
PROOF
<1> DEFINE Goal ==
      \/ \E g \in ReviewGates : \E why \in GateReasons[g], input \in Inputs :
           Rejecting(g) /\ Register(NewRequest(why, input))
      \/ \E why \in ReadinessReasons :
           AllGenerated /\ Register(NewRequest(why, NoInput))
      \/ \E why \in DirectReasons : Register(NewRequest(why, NoInput))
<1> SUFFICES Goal
  OBVIOUS
<1>1. RequestTypeOK /\ StateTypeOK /\ ControlTypeOK
  BY DEF RequestInv, TypeOK
<1>2. \A id, lifecycle : SetLifecycle(id, lifecycle) => Ids' = Ids
  BY <1>1 DEF SetLifecycle, Ids, RequestTypeOK
<1>3. ~ UNCHANGED requestVars
  BY DEF Ids, requestVars
<1>4. NoInput \in Inputs /\ \A g : InputOf(g) \in Inputs
  BY <1>1, InputsType
<1>5. CASE Planner
  <2>1. ASSUME NEW g \in ReviewGates, NEW why \in GateReasons[g], ReportFinding(g, why)
        PROVE  Goal
    BY <1>4, <2>1 DEF ReportFinding
  <2>2. ASSUME NEW why \in Reasons, RetryPlacementDependency(why)
        PROVE  Goal
    <3>1. /\ Rejecting("placement") /\ why \in GateReasons["placement"]
          /\ Register(NewRequest(why, InputOf("placement")))
      BY <2>2 DEF RetryPlacementDependency
    <3>2. CASE "placement" \in ReviewGates
      BY <1>4, <3>1, <3>2
    <3>3. CASE "placement" \notin ReviewGates
      <4>1. "placement" \notin Callers \cup ReviewGates \cup {"none"}
        BY <3>3, BudgetAssumption
      <4>2. QED
        BY <1>1, <3>1, <4>1 DEF Rejecting, ControlTypeOK, Calls
    <3>4. QED
      BY <3>2, <3>3
  <2>3. ASSUME NEW why \in ReadinessReasons, FindUnready(why)
        PROVE  Goal
    BY <2>3 DEF FindUnready
  <2>4. ASSUME NEW why \in DirectReasons, PostRequest(why)
        PROVE  Goal
    BY <2>4 DEF PostRequest
  <2>5. /\ \A p : GeneratePatch(p) => UNCHANGED requestVars
        /\ \A g : AcceptGate(g) => UNCHANGED requestVars
        /\ \A g : RejectGate(g) => UNCHANGED requestVars
        /\ \A g : BlockGate(g) => UNCHANGED requestVars
        /\ Assemble => UNCHANGED requestVars
        /\ \A why : FailAssembly(why) => UNCHANGED requestVars
        /\ \A id : AnswerHuman(id) => Ids' = Ids
        /\ \A c : ReviseFacts(c) => UNCHANGED requestVars
    BY <1>2 DEF GeneratePatch, AcceptGate, RejectGate, BlockGate, Assemble, FailAssembly,
                AnswerHuman, ReviseFacts
  <2> HIDE DEF Goal
  <2>6. QED
    BY <1>3, <1>5, <2>1, <2>2, <2>3, <2>4, <2>5 DEF Planner
<1>6. \A caller : ~EnterLoop(caller)
  BY <1>3 DEF EnterLoop
<1>7. ~Loop
  <2>1. ~LeaveLoop /\ ~ReturnFromLoop /\ ~PassCycleCheck
    BY <1>3 DEF LeaveLoop, ReturnFromLoop, PassCycleCheck
  <2>2. ~StopOnCycle /\ ~FailAcceptance /\ ~CommitOwner /\ ~RollBackCommit
    BY <1>2, <1>3 DEF StopOnCycle, FailAcceptance, CommitOwner, RollBackCommit
  <2>3. \A id \in Ids : ~Iteration(id)
    <3>1. \A id : ~LoopOff(id) /\ ~RecordAdvisory(id)
      BY <1>3 DEF LoopOff, RecordAdvisory
    <3>2. \A id : ~RefuseRequest(id) /\ ~AwaitHuman(id) /\ ~RecomputeTaskPlan(id)
                  /\ ~BuildTaskPlan(id) /\ ~RecomputeUnavailable(id)
      BY <1>2 DEF RefuseRequest, AwaitHuman, RecomputeTaskPlan, BuildTaskPlan,
                  RecomputeUnavailable
    <3>3. \A id : ~FailWithoutOwner(id) /\ ~FailProduction(id)
      BY <1>2 DEF FailWithoutOwner, FailProduction
    <3>4. \A id, cost : ~ExhaustLlmBudget(id, cost)
      BY <1>2 DEF ExhaustLlmBudget
    <3>5. \A id, cost, rejected : ~Produce(id, cost, rejected)
      BY <1>2, <1>3 DEF Produce
    <3>6. QED
      BY <3>1, <3>2, <3>3, <3>4, <3>5 DEF Iteration, Candidate
  <2>4. QED
    BY <2>1, <2>2, <2>3 DEF Loop
<1>8. ~ UNCHANGED vars
  BY <1>3 DEF vars
<1>9. QED
  BY <1>5, <1>6, <1>7, <1>8 DEF Next

(* While a gate reports its findings what it waited for is there.          *)
FindingsInv ==
  /\ pc = "findings" => GateReady(loop.caller)
  /\ \A id \in Ids : \A p \in Owners(requests[id]) : requests[id].hashes[p] # NoContent

LEMMA FindingsReadyStep ==
  ASSUME RequestInv, FindingsInv, [Next]_vars, pc' = "findings"
  PROVE  GateReady(loop.caller)'
PROOF
<1>0. loop \in Calls
  BY DEF RequestInv, TypeOK, ControlTypeOK
<1>1. ASSUME UNCHANGED << content, pc, loop >>
      PROVE  GateReady(loop.caller)'
  BY <1>1 DEF FindingsInv, GateReady, Valid
<1>2. ASSUME NEW g \in ReviewGates, RejectGate(g)
      PROVE  GateReady(loop.caller)'
  <2>1. GateReady(g) /\ content' = content /\ loop'.caller = g
    BY <1>2 DEF RejectGate, MayReview, IdleLoop
  <2>2. QED
    BY <2>1 DEF GateReady, Valid
<1>3. CASE Planner
  <2>1. /\ \A p : ~GeneratePatch(p)
        /\ \A g : ~AcceptGate(g)
        /\ \A g : ~BlockGate(g)
        /\ \A why : ~RetryPlacementDependency(why)
        /\ \A c : ~ReviseFacts(c)
    BY DEF GeneratePatch, AcceptGate, MayReview, BlockGate, RetryPlacementDependency,
           ReviseFacts
  <2>2. /\ \A g, why : ReportFinding(g, why) => UNCHANGED << content, pc, loop >>
        /\ \A why : FindUnready(why) => UNCHANGED << content, pc, loop >>
        /\ \A why : PostRequest(why) => UNCHANGED << content, pc, loop >>
        /\ Assemble => UNCHANGED << content, pc, loop >>
        /\ \A why : FailAssembly(why) => UNCHANGED << content, pc, loop >>
        /\ \A id : AnswerHuman(id) => UNCHANGED << content, pc, loop >>
    BY DEF ReportFinding, FindUnready, PostRequest, Assemble, FailAssembly, AnswerHuman, stateVars
  <2>3. QED
    BY <1>1, <1>2, <1>3, <2>1, <2>2 DEF Planner
<1>4. \A caller : ~EnterLoop(caller)
  BY DEF EnterLoop
<1>5. ~Loop
  <2>1. /\ ~LeaveLoop /\ ~ReturnFromLoop /\ ~StopOnCycle /\ ~PassCycleCheck
        /\ ~FailAcceptance /\ ~CommitOwner /\ ~RollBackCommit
    BY DEF LeaveLoop, ReturnFromLoop, StopOnCycle, PassCycleCheck, FailAcceptance,
           CommitOwner, RollBackCommit
  <2>2. \A id : ~Iteration(id)
    <3> USE DEF Selected, Compiled, Controlled, Regenerates
    <3>1. \A id : /\ ~LoopOff(id) /\ ~RefuseRequest(id) /\ ~RecordAdvisory(id)
                  /\ ~AwaitHuman(id) /\ ~RecomputeUnavailable(id)
      BY DEF LoopOff, RefuseRequest, RecordAdvisory, AwaitHuman, RecomputeUnavailable
    <3>2. \A id : /\ ~RecomputeTaskPlan(id) /\ ~BuildTaskPlan(id)
                  /\ ~FailWithoutOwner(id) /\ ~FailProduction(id)
      BY DEF RecomputeTaskPlan, BuildTaskPlan, FailWithoutOwner, FailProduction
    <3>3. \A id, cost : ~ExhaustLlmBudget(id, cost)
      BY DEF ExhaustLlmBudget
    <3>4. \A id, cost, rejected : ~Produce(id, cost, rejected)
      BY DEF Produce
    <3>5. QED
      BY <3>1, <3>2, <3>3, <3>4 DEF Iteration, Candidate
  <2>3. QED
    BY <2>1, <2>2 DEF Loop
<1>6. CASE UNCHANGED vars
  BY <1>1, <1>6 DEF vars, stateVars
<1>7. QED
  BY <1>3, <1>4, <1>5, <1>6 DEF Next

LEMMA FindingsStep ==
  ASSUME FindingsNameWhatIsThere, RequestInv, FindingsInv, [Next]_vars
  PROVE  FindingsInv'
PROOF
<1>1. ASSUME NEW id \in Ids
      PROVE  (\A p \in Owners(requests[id]) : requests[id].hashes[p] # NoContent)'
  BY RequestAbout DEF FindingsInv, Owners
<1>2. ASSUME NEW why \in Reasons, NEW input \in Inputs, Register(NewRequest(why, input)),
             Image(OwnerPolicy[why].owners) \subseteq Valid, NEW id \in Ids' \ Ids
      PROVE  (\A p \in Owners(requests[id]) : requests[id].hashes[p] # NoContent)'
  <2> DEFINE r == NewRequest(why, input)
  <2>1. RequestTypeOK /\ StateTypeOK
    BY DEF RequestInv, TypeOK
  <2>2. r \in Requests
    BY <2>1, NewRequestType DEF Inputs
  <2>3. \A p \in Owners(r) : r.hashes[p] # NoContent
    <3>1. Owners(r) = Image(OwnerPolicy[why].owners)
      BY DEF NewRequest, Owners
    <3>2. \A p \in Owners(r) : r.hashes[p] = HashOf(p)
      BY <3>1 DEF NewRequest
    <3>3. QED
      BY <1>2, <3>1, <3>2 DEF Valid, HashOf
  <2> HIDE DEF r
  <2>4. Register(r)
    BY <1>2 DEF r
  <2>5. ~ UNCHANGED requestVars
    BY <1>2 DEF Ids, requestVars
  <2>6. Ids' = Ids \cup { Len(requests) + 1 } /\ requests'[Len(requests) + 1] = r
    BY <2>1, <2>2, <2>4, <2>5, RegisterAppends
  <2>7. requests'[id] = r
    BY <1>2, <2>6
  <2>8. QED
    BY <2>3, <2>7 DEF Owners
<1>3. ASSUME NEW id \in Ids' \ Ids
      PROVE  (\A p \in Owners(requests[id]) : requests[id].hashes[p] # NoContent)'
  <2>1. ASSUME NEW g \in ReviewGates, NEW why \in GateReasons[g], NEW input \in Inputs,
               Rejecting(g), Register(NewRequest(why, input))
        PROVE  (\A p \in Owners(requests[id]) : requests[id].hashes[p] # NoContent)'
    <3>1. why \in Reasons
      BY PolicyAssumption
    <3>2. GateReady(g)
      BY <2>1 DEF Rejecting, FindingsInv
    <3>3. Image(OwnerPolicy[why].owners) \subseteq Valid
      BY <2>1, <3>2 DEF FindingsNameWhatIsThere, GateReady
    <3>4. QED
      BY <1>2, <2>1, <3>1, <3>3
  <2>2. ASSUME NEW why \in ReadinessReasons, AllGenerated, Register(NewRequest(why, NoInput))
        PROVE  (\A p \in Owners(requests[id]) : requests[id].hashes[p] # NoContent)'
    <3>1. why \in Reasons /\ NoInput \in Inputs
      BY PolicyAssumption, InputsType DEF RequestInv, TypeOK
    <3>2. Image(OwnerPolicy[why].owners) \subseteq Valid
      BY <2>2 DEF FindingsNameWhatIsThere, AllGenerated
    <3>3. QED
      BY <1>2, <2>2, <3>1, <3>2
  <2>3. DirectReasons = {}
    BY DEF FindingsNameWhatIsThere
  <2>4. QED
    BY <1>3, <2>1, <2>2, <2>3, RegisteringSteps
<1>4. (\A id \in Ids : \A p \in Owners(requests[id]) : requests[id].hashes[p] # NoContent)'
  BY <1>1, <1>3
<1>5. QED
  BY <1>4, FindingsReadyStep DEF FindingsInv

(* The loop replaces a valid patch only on behalf of a request that was    *)
(* made about those very contents, in whatever order requests are worked,  *)
(* wherever requests are made about what is there.                         *)
THEOREM ReplacedAsReviewed ==
  ASSUME FindingsNameWhatIsThere
  PROVE  Spec => ReplacesWhatWasReviewed
PROOF
<1>1. Init => FindingsInv
  BY RequestInvInit DEF Init, FindingsInv, Ids
<1>2. ReplacementInv /\ FindingsInv /\ [Next]_vars => FindingsInv'
  BY FindingsNameWhatIsThere, FindingsStep DEF ReplacementInv
<1>3. ASSUME ReplacementInv, FindingsInv, [Next]_vars, pc # "planner",
             NEW p \in Valid, content'[p] \notin { content[p], NoContent }
      PROVE  requests[loop.request].hashes[p] = content[p]
  <2>1. /\ pc = "accept" /\ loop.request \in Ids
        /\ p \in Owners(requests[loop.request]) /\ p \in Required
    BY <1>3, ReplacedIsOwned DEF ReplacementInv
  <2>2. QED
    BY <1>3, <2>1 DEF ReplacementInv, ReviewedInv, SeenOrUnseen, HashOf, FindingsInv
<1>4. ReplacementInv /\ FindingsInv /\ [Next]_vars =>
        [ pc # "planner" =>
            \A p \in Valid : content'[p] \notin { content[p], NoContent } =>
              requests[loop.request].hashes[p] = content[p] ]_vars
  BY <1>3
<1>5. QED
  BY <1>1, <1>2, <1>4, ReplacementInvariant, PTL DEF Spec, ReplacesWhatWasReviewed

-----------------------------------------------------------------------------
(* Every call comes back: what a call has left to do, in steps.  A round   *)
(* takes at most a production, the cycle check and the acceptance; the     *)
(* last two steps leave the loop and its caller.                           *)
InLoop == pc \in { "select", "check", "accept", "return" }

StepsLeft == CASE pc = "select" -> 4 * (RoundLimit - loop.round) + 2
               [] pc = "check"  -> 4 * (RoundLimit - loop.round) + 4
               [] pc = "accept" -> 4 * (RoundLimit - loop.round) + 3
               [] pc = "return" -> 1
               [] OTHER         -> 0

(* A call starts at round zero and never counts past its limit.            *)
RoundInv ==
  /\ pc = "findings" => loop.round = 0
  /\ pc \in { "select", "check", "accept" } => loop.round <= RoundLimit

LEMMA RoundsAreNumbers ==
  ASSUME RequestInv
  PROVE  loop \in Calls /\ loop.round \in Nat /\ RoundLimit \in Nat
PROOF
  BY BudgetAssumption DEF RequestInv, TypeOK, ControlTypeOK, Calls, RoundLimit

(* What an iteration on a request does to the loop's place and round.      *)
LEMMA IterationSteps ==
  ASSUME RequestInv, NEW id \in Ids, Iteration(id)
  PROVE  /\ pc = "select" /\ loop.round < RoundLimit
         /\ pc' \in { "select", "check", "return" }
         /\ loop'.round = loop.round + 1 /\ loop'.caller = loop.caller
PROOF
<1> USE DEF Selected, Compiled, Controlled, Regenerates
<1>0. loop \in Calls
  BY RoundsAreNumbers
<1>1. ASSUME NEW outcome, Iterate(id, outcome)
      PROVE  loop'.round = loop.round + 1 /\ loop'.caller = loop.caller
  BY <1>0, <1>1 DEF Iterate, Calls
<1>2. CASE LoopOff(id)
  BY <1>1, <1>2 DEF LoopOff
<1>3. CASE RefuseRequest(id)
  BY <1>1, <1>3 DEF RefuseRequest
<1>4. CASE RecordAdvisory(id)
  BY <1>1, <1>4 DEF RecordAdvisory
<1>5. CASE AwaitHuman(id)
  BY <1>1, <1>5 DEF AwaitHuman
<1>6. CASE RecomputeTaskPlan(id)
  BY <1>1, <1>6 DEF RecomputeTaskPlan
<1>7. CASE RecomputeUnavailable(id)
  BY <1>1, <1>7 DEF RecomputeUnavailable
<1>8. CASE FailWithoutOwner(id)
  BY <1>1, <1>8 DEF FailWithoutOwner
<1>9. CASE FailProduction(id)
  BY <1>1, <1>9 DEF FailProduction
<1>10. ASSUME NEW cost, ExhaustLlmBudget(id, cost)
       PROVE  /\ pc = "select" /\ loop.round < RoundLimit
              /\ pc' \in { "select", "check", "return" }
              /\ loop'.round = loop.round + 1 /\ loop'.caller = loop.caller
  BY <1>1, <1>10 DEF ExhaustLlmBudget
<1>11. ASSUME NEW cost, NEW rejected, Produce(id, cost, rejected)
       PROVE  /\ pc = "select" /\ loop.round < RoundLimit
              /\ pc' \in { "select", "check", "return" }
              /\ loop'.round = loop.round + 1 /\ loop'.caller = loop.caller
  BY <1>0, <1>11 DEF Produce, Calls
<1>12. CASE BuildTaskPlan(id)
  BY <1>1, <1>12 DEF BuildTaskPlan
<1>13. QED
  BY <1>2, <1>3, <1>4, <1>5, <1>6, <1>7, <1>8, <1>9, <1>10, <1>11, <1>12
     DEF Iteration, Candidate

(* What the other steps of a call do to them.                              *)
LEMMA CallSteps ==
  ASSUME RequestInv, Loop, ~ \E id \in Ids : Iteration(id)
  PROVE  \/ pc = "select" /\ pc' = "return"
         \/ pc = "return" /\ pc' = "planner"
         \/ /\ << pc, pc' >> \in { << "check", "select" >>, << "check", "accept" >>,
                                   << "accept", "select" >> }
            /\ loop'.round = loop.round /\ loop'.caller = loop.caller
PROOF
<1>0. loop \in Calls
  BY RoundsAreNumbers
<1>1. CASE LeaveLoop
  BY <1>1 DEF LeaveLoop
<1>2. CASE ReturnFromLoop
  BY <1>2 DEF ReturnFromLoop
<1>3. CASE StopOnCycle
  BY <1>0, <1>3 DEF StopOnCycle, Calls
<1>4. CASE PassCycleCheck
  BY <1>4 DEF PassCycleCheck
<1>5. CASE FailAcceptance
  BY <1>0, <1>5 DEF FailAcceptance, Calls
<1>6. CASE CommitOwner
  BY <1>0, <1>6 DEF CommitOwner, Calls
<1>7. CASE RollBackCommit
  BY <1>0, <1>7 DEF RollBackCommit, Calls
<1>8. QED
  BY <1>1, <1>2, <1>3, <1>4, <1>5, <1>6, <1>7 DEF Loop

(* A step that begins inside a call is a step of the call.                 *)
LEMMA InLoopOnlyLoop ==
  ASSUME InLoop, Next
  PROVE  Loop
PROOF
<1>1. \A caller : ~EnterLoop(caller)
  BY DEF EnterLoop, InLoop
<1>2. ~Planner
  <2>1. /\ \A p : ~GeneratePatch(p)
        /\ \A g : ~AcceptGate(g) /\ ~RejectGate(g)
        /\ ~Assemble
        /\ \A why : ~FailAssembly(why) /\ ~FindUnready(why) /\ ~PostRequest(why)
        /\ \A id : ~AnswerHuman(id)
        /\ \A c : ~ReviseFacts(c)
    BY DEF InLoop, GeneratePatch, AcceptGate, RejectGate, MayReview, Assemble, FailAssembly,
           FindUnready, AllGenerated, PostRequest, AnswerHuman, ReviseFacts
  <2>2. /\ \A g : ~BlockGate(g)
        /\ \A g, why : ~ReportFinding(g, why)
        /\ \A why : ~RetryPlacementDependency(why)
    BY DEF InLoop, BlockGate, Behind, ReportFinding, RetryPlacementDependency, Rejecting
  <2>3. QED
    BY <2>1, <2>2 DEF Planner
<1>3. QED
  BY <1>1, <1>2 DEF Next

LEMMA RoundStep ==
  ASSUME RequestInv, RoundInv, [Next]_vars
  PROVE  RoundInv'
PROOF
<1>0. loop \in Calls /\ loop.round \in Nat /\ RoundLimit \in Nat
  BY RoundsAreNumbers
<1>1. CASE UNCHANGED << pc, loop >>
  BY <1>1 DEF RoundInv, RoundLimit
<1>2. CASE InLoop /\ Next
  <2>1. ASSUME NEW id \in Ids, Iteration(id)
        PROVE  RoundInv'
    BY <1>0, <2>1, IterationSteps DEF RoundInv, RoundLimit
  <2>2. CASE ~ \E id \in Ids : Iteration(id)
    <3>1. Loop
      BY <1>2, InLoopOnlyLoop
    <3>2. QED
      BY <1>0, <2>2, <3>1, CallSteps DEF RoundInv, RoundLimit
  <2>3. QED
    BY <2>1, <2>2
<1>3. CASE ~InLoop /\ Next
  <2>1. ASSUME NEW caller \in Callers, EnterLoop(caller)
        PROVE  RoundInv'
    <3>1. loop'.round = 0 /\ pc' = "select"
      BY <2>1 DEF EnterLoop, IdleLoop
    <3>2. RoundLimit' \in Nat
      BY BudgetAssumption DEF RoundLimit
    <3>3. QED
      BY <3>1, <3>2 DEF RoundInv
  <2>2. ~Loop
    <3>1. /\ ~LeaveLoop /\ ~ReturnFromLoop /\ ~StopOnCycle /\ ~PassCycleCheck
          /\ ~FailAcceptance /\ ~CommitOwner /\ ~RollBackCommit
      BY <1>3 DEF InLoop, LeaveLoop, ReturnFromLoop, StopOnCycle, PassCycleCheck,
                  FailAcceptance, CommitOwner, RollBackCommit
    <3>2. \A id \in Ids : ~Iteration(id)
      BY <1>3, IterationSteps DEF InLoop
    <3>3. QED
      BY <3>1, <3>2 DEF Loop
  <2>3. CASE Planner
    <3>1. /\ \A p : GeneratePatch(p) => UNCHANGED << pc, loop >>
          /\ \A g : AcceptGate(g) => UNCHANGED << pc, loop >>
          /\ \A g, why : ReportFinding(g, why) => UNCHANGED << pc, loop >>
          /\ \A why : FindUnready(why) => UNCHANGED << pc, loop >>
          /\ \A why : PostRequest(why) => UNCHANGED << pc, loop >>
          /\ Assemble => UNCHANGED << pc, loop >>
          /\ \A why : FailAssembly(why) => UNCHANGED << pc, loop >>
          /\ \A id : AnswerHuman(id) => UNCHANGED << pc, loop >>
          /\ \A c : ReviseFacts(c) => UNCHANGED << pc, loop >>
      BY DEF GeneratePatch, AcceptGate, ReportFinding, FindUnready, PostRequest, Assemble,
             FailAssembly, AnswerHuman, ReviseFacts
    <3>2. ASSUME NEW g, RejectGate(g)
          PROVE  RoundInv'
      BY <3>2 DEF RejectGate, IdleLoop, RoundInv
    <3>3. ASSUME NEW g, BlockGate(g)
          PROVE  RoundInv'
      BY <3>3 DEF BlockGate, RoundInv
    <3>4. ASSUME NEW why, RetryPlacementDependency(why)
          PROVE  RoundInv'
      <4>1. loop.round = 0 /\ loop' = loop /\ pc' = "select"
        BY <3>4 DEF RetryPlacementDependency, Rejecting, RoundInv
      <4>2. QED
        BY <1>0, <4>1 DEF RoundInv, RoundLimit
    <3>5. QED
      BY <1>1, <2>3, <3>1, <3>2, <3>3, <3>4 DEF Planner
  <2>4. QED
    BY <1>3, <2>1, <2>2, <2>3 DEF Next
<1>4. QED
  BY <1>1, <1>2, <1>3 DEF vars

LEMMA RoundInvariant == Spec => [](RequestInv /\ RoundInv)
PROOF
<1>1. Init => RoundInv
  BY DEF Init, RoundInv
<1>2. RequestInv /\ RoundInv /\ [Next]_vars => RoundInv'
  BY RoundStep
<1>3. QED
  BY <1>1, <1>2, RequestInvariant, PTL DEF Spec

(* A call of the loop is over in at most four steps per round and four     *)
(* more, however many requests are pending, whatever the producers answer  *)
(* and whatever other requests a commit leaves behind: each of its steps   *)
(* lowers what is left, which never exceeds that.                          *)
THEOREM CallsAreBounded ==
  Spec => /\ [](StepsLeft \in 0..(4 * RoundLimit + 4))
          /\ [][ InLoop => StepsLeft' < StepsLeft ]_vars
PROOF
<1>1. ASSUME RequestInv, RoundInv
      PROVE  StepsLeft \in 0..(4 * RoundLimit + 4)
  <2>1. loop.round \in Nat /\ RoundLimit \in Nat
    BY <1>1, RoundsAreNumbers
  <2>2. CASE pc = "select"
    BY <1>1, <2>1, <2>2 DEF StepsLeft, RoundInv
  <2>3. CASE pc = "check"
    BY <1>1, <2>1, <2>3 DEF StepsLeft, RoundInv
  <2>4. CASE pc = "accept"
    BY <1>1, <2>1, <2>4 DEF StepsLeft, RoundInv
  <2>5. CASE pc \notin { "select", "check", "accept" }
    BY <2>1, <2>5 DEF StepsLeft
  <2>6. QED
    BY <2>2, <2>3, <2>4, <2>5
<1>2. ASSUME RequestInv, RoundInv, InLoop, Next
      PROVE  StepsLeft' < StepsLeft
  <2>0. loop.round \in Nat /\ RoundLimit \in Nat
    BY <1>2, RoundsAreNumbers
  <2>1. ASSUME NEW id \in Ids, Iteration(id)
        PROVE  StepsLeft' < StepsLeft
    <3>1. /\ pc = "select" /\ loop.round < RoundLimit
          /\ pc' \in { "select", "check", "return" }
          /\ loop'.round = loop.round + 1 /\ RoundLimit' = RoundLimit
      BY <1>2, <2>1, IterationSteps DEF RoundLimit
    <3>2. CASE pc' = "select"
      BY <2>0, <3>1, <3>2 DEF StepsLeft
    <3>3. CASE pc' = "check"
      BY <2>0, <3>1, <3>3 DEF StepsLeft
    <3>4. CASE pc' = "return"
      BY <2>0, <3>1, <3>4 DEF StepsLeft
    <3>5. QED
      BY <3>1, <3>2, <3>3, <3>4
  <2>2. CASE ~ \E id \in Ids : Iteration(id)
    <3>1. Loop
      BY <1>2, InLoopOnlyLoop
    <3>2. CASE pc = "select" /\ pc' = "return"
      BY <1>2, <2>0, <3>2 DEF StepsLeft, RoundInv
    <3>3. CASE pc = "return" /\ pc' = "planner"
      BY <3>3 DEF StepsLeft
    <3>4. CASE /\ << pc, pc' >> \in { << "check", "select" >>, << "check", "accept" >>,
                                      << "accept", "select" >> }
               /\ loop'.round = loop.round /\ loop'.caller = loop.caller
      <4>1. RoundLimit' = RoundLimit
        BY <3>4 DEF RoundLimit
      <4>2. CASE pc = "check" /\ pc' = "select"
        BY <2>0, <3>4, <4>1, <4>2 DEF StepsLeft
      <4>3. CASE pc = "check" /\ pc' = "accept"
        BY <2>0, <3>4, <4>1, <4>3 DEF StepsLeft
      <4>4. CASE pc = "accept" /\ pc' = "select"
        BY <2>0, <3>4, <4>1, <4>4 DEF StepsLeft
      <4>5. QED
        BY <3>4, <4>2, <4>3, <4>4
    <3>5. QED
      BY <1>2, <2>2, <3>1, <3>2, <3>3, <3>4, CallSteps
  <2>3. QED
    BY <2>1, <2>2
<1>3. RequestInv /\ RoundInv /\ [Next]_vars => [ InLoop => StepsLeft' < StepsLeft ]_vars
  BY <1>2
<1>4. RequestInv /\ RoundInv => StepsLeft \in 0..(4 * RoundLimit + 4)
  BY <1>1
<1>5. QED
  BY <1>3, <1>4, RoundInvariant, PTL DEF Spec

=============================================================================
