---------------------- MODULE RetryRefinement_proofs ----------------------
(***************************************************************************)
(* One live request per defect, a bounded number of attempts on it, and    *)
(* every step of the retry loop and of the planner around it a step of the *)
(* request ledger or no change of it, for every policy, plan and budget.   *)
(***************************************************************************)
EXTENDS RetryRefinement, RetryController_proofs


-----------------------------------------------------------------------------
(* What a request is about does not change with its lifecycle.             *)
LEMMA FingerprintKept ==
  ASSUME RequestInv, [Next]_vars, NEW id \in Ids
  PROVE  Fingerprint(requests'[id]) = Fingerprint(requests[id])
PROOF
<1>1. requests[id] \in Requests
  BY ElementOfSeq DEF RequestInv, TypeOK, RequestTypeOK, Ids
<1>2. PICK lifecycle : requests'[id] = [ requests[id] EXCEPT !.lifecycle = lifecycle ]
  BY RequestsKept DEF RequestInv
<1>3. QED
  BY <1>1, <1>2 DEF Requests, Fingerprint

-----------------------------------------------------------------------------
(* One live request per fingerprint.                                       *)
LEMMA OneLiveStep ==
  ASSUME RequestInv, OneLiveRequest, [Next]_vars
  PROVE  OneLiveRequest'
PROOF
<1> RequestTypeOK /\ StateTypeOK
  BY DEF RequestInv, TypeOK
<1> SUFFICES ASSUME NEW i \in Ids', NEW j \in Ids', Live(i)', Live(j)', i # j,
                    Fingerprint(requests'[i]) = Fingerprint(requests'[j])
             PROVE  FALSE
  BY DEF OneLiveRequest
<1>1. ASSUME NEW id \in Ids, Live(id)'
      PROVE  Live(id)
  BY <1>1, RequestsKept DEF Live, RequestInv
<1>2. CASE i \in Ids /\ j \in Ids
  BY <1>1, <1>2, FingerprintKept DEF OneLiveRequest
<1>3. CASE ~(i \in Ids /\ j \in Ids)
  <2>1. Ids' # Ids
    BY <1>3
  <2>2. PICK why \in Reasons, input \in Inputs : Register(NewRequest(why, input))
    <3>1. ~ UNCHANGED requestVars
      BY <2>1 DEF requestVars, Ids
    <3>2. \A id \in Ids, lifecycle \in Lifecycles : ~SetLifecycle(id, lifecycle)
      BY <2>1, SetLifecycleSets
    <3>3. QED
      BY <3>1, <3>2, RequestSteps DEF RequestInv
  <2> DEFINE new == Len(requests) + 1
             r == NewRequest(why, input)
  <2>3. r \in Requests
    BY NewRequestType DEF Inputs
  <2>4. /\ Ids' = Ids \cup {new} /\ requests'[new] = r
        /\ \A id \in Ids : requests'[id] = requests[id]
    <3>1. ~ UNCHANGED requestVars
      BY <2>1 DEF requestVars, Ids
    <3> HIDE DEF r
    <3>2. Register(r)
      BY <2>2 DEF r
    <3>3. QED
      BY <2>3, <3>1, <3>2, RegisterAppends
  <2>5. \A id \in Ids : Live(id) => Fingerprint(requests[id]) # Fingerprint(r)
    <3>1. ~ UNCHANGED requestVars
      BY <2>1 DEF requestVars, Ids
    <3>2. QED
      BY <2>2, <3>1 DEF Register
  <2>6. PICK id \in Ids : /\ Fingerprint(requests'[id]) = Fingerprint(requests'[new])
                          /\ Live(id)'
    BY <1>3, <2>4
  <2>7. QED
    BY <1>1, <2>4, <2>5, <2>6
<1>4. QED
  BY <1>2, <1>3

(* A defect is never worked on through two requests at once: whichever     *)
(* gates report it, and whatever became of its earlier requests.           *)
THEOREM OneRequestPerDefect == Spec => []OneLiveRequest
PROOF
<1>1. Init => OneLiveRequest
  BY DEF Init, OneLiveRequest, Ids
<1>2. RequestInv /\ OneLiveRequest /\ [Next]_vars => OneLiveRequest'
  BY OneLiveStep
<1>3. QED
  BY <1>1, <1>2, RequestInvariant, PTL DEF Spec

-----------------------------------------------------------------------------
(* The ledger holds one candidate per counted attempt, and a candidate in  *)
(* hand has an attempt left.                                               *)
LedgerInv ==
  /\ AttemptsWithinBudget
  /\ \A key \in DOMAIN candidates : candidates[key] \in Seq(Candidates)
  /\ pc = "check" => Lookup(attempts, Key, 0) < Budget

LEMMA BudgetType == Budget \in Nat
PROOF BY BudgetAssumption DEF Budget, OwnerMaxAttempts

LEMMA AttemptsType ==
  ASSUME LedgerInv
  PROVE  \A key : Lookup(attempts, key, 0) \in Nat
                  /\ Lookup(candidates, key, << >>) \in Seq(Candidates)
                  /\ Lookup(attempts, key, 0) = Len(Lookup(candidates, key, << >>))
PROOF
<1>1. DOMAIN attempts = DOMAIN candidates
  BY DEF LedgerInv, AttemptsWithinBudget
<1>2. \A key \in DOMAIN attempts :
        /\ candidates[key] \in Seq(Candidates)
        /\ attempts[key] = Len(candidates[key])
        /\ attempts[key] \in Nat
  BY <1>1, LenProperties DEF LedgerInv, AttemptsWithinBudget
<1>3. << >> \in Seq(Candidates) /\ Len(<< >>) = 0
  BY EmptySeq
<1>4. QED
  BY <1>1, <1>2, <1>3 DEF Lookup

LEMMA LedgerInvStep == RequestInv /\ LedgerInv /\ [Next]_vars => LedgerInv'
PROOF
<1> SUFFICES ASSUME RequestInv, LedgerInv, [Next]_vars
             PROVE  LedgerInv'
  OBVIOUS
<1>1. CASE UNCHANGED << attempts, candidates >>
  <2>1. AttemptsWithinBudget' /\ \A key \in DOMAIN candidates' : candidates'[key] \in Seq(Candidates)
    BY <1>1 DEF LedgerInv, AttemptsWithinBudget
  <2>2. pc' = "check" => Lookup(attempts, Key', 0) < Budget
    <3>1. CASE UNCHANGED vars
      BY <3>1 DEF vars, requestVars, LedgerInv, Key
    <3>2. ASSUME NEW id \in Ids, NEW cost, NEW rejected, Produce(id, cost, rejected)
          PROVE  Lookup(attempts, Key', 0) < Budget
      <4>1. ~Spent(requests[id])
        BY <3>2 DEF Produce, Regenerates, Controlled, Compiled, Refused
      <4>2. loop'.request = id
        BY <3>2, ProduceType DEF RequestInv
      <4>3. Key' = Fingerprint(requests[id])
        BY <4>2, FingerprintKept DEF Key
      <4>4. QED
        BY <4>1, <4>3, AttemptsType, BudgetType DEF Spent
    <3>3. CASE PassCycleCheck
      BY <3>3 DEF PassCycleCheck
    <3>4. QED
      BY <3>1, <3>2, <3>3, CandidateSteps
  <2>3. QED
    BY <1>1, <2>1, <2>2 DEF LedgerInv, Lookup
<1>2. CASE StopOnCycle \/ PassCycleCheck
  <2> DEFINE taken == Lookup(candidates, Key, << >>)
             count == Lookup(attempts, Key, 0)
  <2>1. /\ pc = "check" /\ pc' # "check"
        /\ attempts' = Store(attempts, Key, count + 1)
        /\ candidates' = Store(candidates, Key, Append(taken, loop.candidate))
    BY <1>2 DEF StopOnCycle, PassCycleCheck, RecordAttempt
  <2>2. count \in Nat /\ count < Budget /\ taken \in Seq(Candidates) /\ count = Len(taken)
    BY <2>1, AttemptsType DEF LedgerInv
  <2>3. loop.candidate \in Candidates
    BY DEF RequestInv, TypeOK, ControlTypeOK, Calls
  <2>4. /\ Append(taken, loop.candidate) \in Seq(Candidates)
        /\ Len(Append(taken, loop.candidate)) = count + 1
        /\ count + 1 <= Budget
    BY <2>2, <2>3, AppendProperties, BudgetType
  <2> HIDE DEF taken, count
  <2>5. /\ DOMAIN attempts = DOMAIN candidates
        /\ \A key \in DOMAIN attempts :
             /\ attempts[key] = Len(candidates[key]) /\ attempts[key] <= Budget
             /\ candidates[key] \in Seq(Candidates)
    BY DEF LedgerInv, AttemptsWithinBudget
  <2>6. /\ DOMAIN attempts' = DOMAIN attempts \cup {Key}
        /\ DOMAIN candidates' = DOMAIN attempts \cup {Key}
        /\ attempts'[Key] = count + 1
        /\ candidates'[Key] = Append(taken, loop.candidate)
        /\ \A key \in DOMAIN attempts \ {Key} :
             attempts'[key] = attempts[key] /\ candidates'[key] = candidates[key]
    BY <2>1, <2>5 DEF Store
  <2>7. \A key \in DOMAIN attempts' :
             /\ attempts'[key] = Len(candidates'[key]) /\ attempts'[key] <= Budget
             /\ candidates'[key] \in Seq(Candidates)
    BY <2>4, <2>5, <2>6
  <2>8. QED
    BY <2>1, <2>6, <2>7 DEF LedgerInv, AttemptsWithinBudget
<1>3. /\ \A id, cost : ExhaustLlmBudget(id, cost) => UNCHANGED << attempts, candidates >>
      /\ \A id, cost, rejected : Produce(id, cost, rejected) => UNCHANGED << attempts, candidates >>
      /\ UNCHANGED ledgerVars => UNCHANGED << attempts, candidates >>
  BY DEF ExhaustLlmBudget, Produce, ledgerVars
<1>4. QED
  BY <1>1, <1>2, <1>3, LedgerSteps

(* However often a defect is reported again, the loop attempts it at most  *)
(* as often as the smaller of the two attempt limits, and remembers every  *)
(* candidate it tried.                                                     *)
THEOREM AttemptsBounded == Spec => []AttemptsWithinBudget
PROOF
<1>1. Init => LedgerInv
  BY DEF Init, LedgerInv, AttemptsWithinBudget
<1>2. LedgerInv => AttemptsWithinBudget
  BY DEF LedgerInv
<1>3. QED
  BY <1>1, <1>2, LedgerInvStep, RequestInvariant, PTL DEF Spec


-----------------------------------------------------------------------------
(* While a candidate is in hand the owners its request was compiled for    *)
(* have not been touched.                                                  *)
Untouched(r) == \A p \in Owners(r) : r.hashes[p] \in { NoContent, HashOf(p) }

HoldsUntouched == loop.request \in Ids /\ Untouched(requests[loop.request])
HandInv == LedgerInv /\ (InHand => HoldsUntouched)

LEMMA RequestOf ==
  ASSUME RequestInv, NEW id \in Ids
  PROVE  /\ requests[id] \in Requests
         /\ DOMAIN requests[id].hashes = Owners(requests[id])
         /\ Owners(requests[id]) \subseteq PatchTypes
PROOF
<1>1. requests[id] \in Requests
  BY ElementOfSeq DEF RequestInv, TypeOK, RequestTypeOK, Ids
<1>2. QED
  BY <1>1, OwnersOfRequest DEF RequestInv, TypeOK, Requests

LEMMA UntouchedKept ==
  ASSUME RequestInv, [Next]_vars, content' = content, NEW id \in Ids, Untouched(requests[id])
  PROVE  Untouched(requests[id])'
PROOF
<1>1. PICK lifecycle : requests'[id] = [ requests[id] EXCEPT !.lifecycle = lifecycle ]
  BY RequestsKept DEF RequestInv
<1>2. requests'[id].hashes = requests[id].hashes /\ requests'[id].owners = requests[id].owners
  BY <1>1, RequestOf DEF Requests
<1>3. \A p : HashOf(p)' = HashOf(p)
  BY DEF HashOf
<1>4. QED
  BY <1>2, <1>3 DEF Untouched, Owners

LEMMA HandInvStep == RequestInv /\ HandInv /\ [Next]_vars => HandInv'
PROOF
<1> SUFFICES ASSUME RequestInv, HandInv, [Next]_vars
             PROVE  HandInv'
  OBVIOUS
<1>1. LedgerInv'
  BY LedgerInvStep DEF HandInv
<1>2. Ids \subseteq Ids'
  BY RequestsKept DEF RequestInv
<1>3. ASSUME InHand'
      PROVE  HoldsUntouched'
  <2>1. CASE UNCHANGED vars
    BY <1>3, <2>1 DEF vars, stateVars, requestVars, HandInv, InHand, HoldsUntouched, Untouched,
          Owners, Ids, HashOf
  <2>2. ASSUME NEW id \in Ids, NEW cost, NEW rejected, Produce(id, cost, rejected)
        PROVE  HoldsUntouched'
    <3>1. loop'.request = id /\ content' = content
      BY <2>2, ProduceType DEF Produce, stateVars, RequestInv
    <3>2. ~Outdated(requests[id])
      BY <2>2 DEF Produce, Regenerates, Controlled, Compiled, Refused
    <3>3. Untouched(requests[id])
      BY <3>2 DEF Untouched, Outdated
    <3>4. QED
      BY <1>2, <3>1, <3>3, UntouchedKept DEF HoldsUntouched
  <2>3. CASE PassCycleCheck
    BY <1>2, <2>3, UntouchedKept DEF PassCycleCheck, stateVars, HandInv, InHand, HoldsUntouched
  <2>4. QED
    BY <1>3, <2>1, <2>2, <2>3, CandidateSteps DEF InHand
<1>4. QED
  BY <1>1, <1>3 DEF HandInv

-----------------------------------------------------------------------------
(* What the ledger sees of the requests.                                   *)
DefectSet == { Fingerprint(r) : r \in Requests }

LEMMA DefectsType ==
  ASSUME RequestInv
  PROVE  Defects \in Seq(DefectSet) /\ Len(Defects) = Len(requests) /\ DOMAIN Defects = Ids
PROOF
<1>1. Len(requests) \in Nat
  BY LenProperties DEF RequestInv, TypeOK, RequestTypeOK
<1>2. \A id \in 1..Len(requests) : Fingerprint(requests[id]) \in DefectSet
  BY RequestOf DEF DefectSet, Ids
<1> DEFINE n == Len(requests)
           f == [ id \in 1..n |-> Fingerprint(requests[id]) ]
<1>3. f \in [1..n -> DefectSet]
  BY <1>2
<1>4. f \in Seq(DefectSet) /\ Len(f) = n
  <2> HIDE DEF f, n
  <2>1. n \in Nat
    BY <1>1 DEF n
  <2>2. QED
    BY <1>3, <2>1
<1>5. QED
  BY <1>4 DEF Defects, Ids

LEMMA DefectsKept ==
  ASSUME RequestInv, [Next]_vars, Ids' = Ids
  PROVE  Defects' = Defects
PROOF BY FingerprintKept DEF Defects, Fingerprint

LEMMA LifecycleEffect ==
  ASSUME RequestInv, [Next]_vars, NEW id \in Ids, NEW lifecycle \in Lifecycles,
         SetLifecycle(id, lifecycle)
  PROVE  /\ Defects' = Defects
         /\ pending' = IF lifecycle \in Terminal THEN pending \ {id} ELSE pending
PROOF
<1>1. Ids' = Ids
  BY SetLifecycleSets DEF RequestInv, TypeOK
<1>2. QED
  BY <1>1, DefectsKept DEF SetLifecycle

LEMMA VersionKept == content' = content => Version' = Version
PROOF BY DEF Version, HashOf

LEMMA RegisterEffect ==
  ASSUME RequestInv, [Next]_vars, NEW why \in Reasons, NEW input \in Inputs,
         Register(NewRequest(why, input)), ~ UNCHANGED requestVars
  PROVE  \E d : /\ Defects' = Append(Defects, d)
                /\ pending' = pending \cup { Len(Defects') }
                /\ \E i \in DOMAIN Defects' : Defects'[i] = d
                /\ \A id \in pending : Defects[id] # d
                /\ \A p \in DOMAIN d.hashes : d.hashes[p] = Version[p]
PROOF
<1> DEFINE r == NewRequest(why, input)
           d == Fingerprint(r)
           n == Len(requests)
<1>1. r \in Requests
  BY NewRequestType DEF Inputs, RequestInv, TypeOK
<1>2. \A id \in Ids : ~(Fingerprint(requests[id]) = d /\ Live(id))
  BY DEF Register
<1>3. \A p \in DOMAIN d.hashes : p \in PatchTypes /\ d.hashes[p] = Version[p]
  <2>1. d.hashes = [ p \in Image(OwnerPolicy[why].owners) |-> HashOf(p) ]
    BY DEF Fingerprint, NewRequest
  <2>2. Image(OwnerPolicy[why].owners) \subseteq PatchTypes
    <3>1. OwnerPolicy[why].owners \in Seq(PatchTypes)
      BY PolicyAssumption DEF Policies
    <3>2. QED
      BY <3>1, ElementOfSeq, LenProperties DEF Image
  <2>3. QED
    BY <2>1, <2>2 DEF Version
<1> HIDE DEF r
<1>4. /\ Ids' = Ids \cup {n + 1} /\ n + 1 \notin Ids
      /\ requests'[n + 1] = r
      /\ \A id \in Ids : requests'[id] = requests[id]
      /\ pending' = pending \cup {n + 1}
  BY <1>1, RegisterAppends DEF RequestInv, TypeOK, r
<1>5. /\ Defects \in Seq(DefectSet) /\ DOMAIN Defects = Ids
      /\ Len(Defects) = n /\ n \in Nat /\ Ids = 1..n
      /\ \A id \in Ids : Defects[id] = Fingerprint(requests[id])
  BY DefectsType, LenProperties DEF Defects, Ids
<1>6. d \in DefectSet
  BY <1>1 DEF DefectSet
<1> HIDE DEF d, n
<1>7. /\ DOMAIN Defects' = 1..(n + 1)
      /\ Defects'[n + 1] = d
      /\ \A id \in Ids : Defects'[id] = Defects[id]
  BY <1>4, <1>5 DEF Defects, d
<1>8. /\ Append(Defects, d) \in Seq(DefectSet) /\ Len(Append(Defects, d)) = n + 1
      /\ Append(Defects, d)[n + 1] = d
      /\ \A id \in Ids : Append(Defects, d)[id] = Defects[id]
  BY <1>5, <1>6, AppendProperties
<1>9. Defects' = Append(Defects, d)
  <2>1. DOMAIN Append(Defects, d) = 1..(n + 1)
    BY <1>8, LenProperties
  <2>2. Append(Defects, d) = [ i \in 1..(n + 1) |-> Append(Defects, d)[i] ]
    BY <1>8, <2>1, LenProperties
  <2>3. Defects' = [ i \in 1..(n + 1) |-> Defects'[i] ]
    BY <1>7 DEF Defects
  <2>4. \A i \in 1..(n + 1) : Defects'[i] = Append(Defects, d)[i]
    BY <1>5, <1>7, <1>8
  <2>5. QED
    BY <2>2, <2>3, <2>4
<1>10. \A id \in pending : Defects[id] # d
  BY <1>2, <1>5 DEF PendingIsLive, RequestInv
<1>11. pending' = pending \cup { Len(Defects') } /\ n + 1 \in DOMAIN Defects'
  BY <1>4, <1>5, <1>7, <1>8, <1>9
<1>12. QED
  BY <1>3, <1>7, <1>9, <1>10, <1>11

-----------------------------------------------------------------------------
(* The steps that neither begin nor end with a candidate in hand.          *)
LEMMA IdleStep ==
  ASSUME RequestInv, [Next]_vars, ~InHand, ~InHand'
  PROVE  [Ledger!Next]_(Ledger!ledger)
PROOF
<1>1. Hand = 0 /\ Phase = "idle" /\ Hand' = 0 /\ Phase' = "idle"
  BY DEF InHand, Hand, Phase
<1>2. attempts' = attempts
  <2>1. ~StopOnCycle /\ ~PassCycleCheck
    BY DEF StopOnCycle, PassCycleCheck, InHand
  <2>2. \A id, cost, rejected : ~Produce(id, cost, rejected)
    BY DEF Produce, InHand
  <2>3. /\ \A id, cost : ExhaustLlmBudget(id, cost) => attempts' = attempts
        /\ UNCHANGED ledgerVars => attempts' = attempts
    BY DEF ExhaustLlmBudget, ledgerVars
  <2>4. QED
    BY <2>1, <2>2, <2>3, LedgerSteps
<1>3. CASE content' = content
  <2>1. Version' = Version
    BY <1>3, VersionKept
  <2>2. CASE Defects' = Defects /\ pending' = pending
    BY <1>1, <1>2, <2>1, <2>2 DEF Ledger!ledger
  <2>3. ASSUME NEW why \in Reasons, NEW input \in Inputs,
               Register(NewRequest(why, input)), ~ UNCHANGED requestVars
        PROVE  Ledger!OpenSome
    <3>1. PICK d : /\ Defects' = Append(Defects, d)
                   /\ pending' = pending \cup { Len(Defects') }
                   /\ \E i \in DOMAIN Defects' : Defects'[i] = d
                   /\ \A id \in pending : Defects[id] # d
                   /\ \A p \in DOMAIN d.hashes : d.hashes[p] = Version[p]
      BY <2>3, RegisterEffect
    <3>2. Ledger!Open(d)
      BY <1>1, <1>2, <2>1, <3>1 DEF Ledger!Open
    <3>3. QED
      BY <3>1, <3>2 DEF Ledger!OpenSome
  <2>4. ASSUME NEW id \in Ids, NEW lifecycle \in Lifecycles, SetLifecycle(id, lifecycle)
        PROVE  \/ Defects' = Defects /\ pending' = pending
               \/ id \in pending /\ Ledger!Close(id)
    <3>1. /\ Defects' = Defects
          /\ pending' = IF lifecycle \in Terminal THEN pending \ {id} ELSE pending
      BY <2>4, LifecycleEffect
    <3>2. QED
      BY <1>1, <1>2, <2>1, <3>1 DEF Ledger!Close
  <2>5. CASE UNCHANGED requestVars
    BY <2>2, <2>5 DEF requestVars, Defects, Ids
  <2>6. QED
    BY <2>2, <2>3, <2>4, <2>5, RequestSteps DEF RequestInv, Ledger!Next
<1>4. ASSUME content' # content
      PROVE  Ledger!Edit
  <2>1. ~CommitOwner
    BY DEF CommitOwner, InHand
  <2>2. \/ \E p \in Required : GeneratePatch(p)
        \/ \E c \in ContentsOf["facts"] : ReviseFacts(c)
        \/ \E id \in Ids : RecomputeTaskPlan(id)
    BY <1>4, <2>1, StateSteps DEF stateVars, AcceptGate, RejectGate, BlockGate, FindUnready,
       Assemble, FailAssembly, ReturnFromLoop, BuildTaskPlan
  <2>3. Defects' = Defects /\ pending' = pending
    <3>1. ASSUME NEW p \in Required, GeneratePatch(p)
          PROVE  Defects' = Defects /\ pending' = pending
      BY <3>1 DEF GeneratePatch, requestVars, Defects, Ids
    <3>2. ASSUME NEW id \in Ids, RecomputeTaskPlan(id)
          PROVE  Defects' = Defects /\ pending' = pending
      BY <3>2, LifecycleEffect DEF RecomputeTaskPlan, Lifecycles, Terminal
    <3>3. ASSUME NEW c \in ContentsOf["facts"], ReviseFacts(c)
          PROVE  Defects' = Defects /\ pending' = pending
      BY <3>3 DEF ReviseFacts, requestVars, Defects, Ids
    <3>4. QED
      BY <2>2, <3>1, <3>2, <3>3
  <2>4. ASSUME NEW p \in PatchTypes \ ({"facts"} \cap ReviewGates), Version[p] # NoContent
        PROVE  Version'[p] \in { NoContent, Version[p] }
    <3>1. p \in Required /\ Version[p] = content[p] /\ Version'[p] = content'[p]
      BY <2>4 DEF Version, HashOf
    <3>2. \A q \in Required : GeneratePatch(q) => content'[p] = content[p]
      BY <2>4, <3>1 DEF GeneratePatch, StateTypeOK, TypeOK, RequestInv, Hashes
    <3>3. \A id : RecomputeTaskPlan(id) => content'[p] = NoContent
      BY <3>1 DEF RecomputeTaskPlan, Without
    <3>4. ASSUME NEW c \in ContentsOf["facts"], ReviseFacts(c)
          PROVE  content'[p] = NoContent
      <4>1. "facts" \in ReviewGates /\ Valid' = {"facts"}
        BY <3>4, ReviseEffect
      <4>2. QED
        BY <3>1, <4>1 DEF Valid
    <3>5. QED
      BY <2>2, <3>1, <3>2, <3>3, <3>4
  <2>5. QED
    BY <1>1, <1>2, <2>3, <2>4 DEF Ledger!Edit, Version
<1>5. QED
  BY <1>3, <1>4 DEF Ledger!Next

-----------------------------------------------------------------------------
(* The steps of a candidate: produced, tried, given up or swapped in.      *)
LEMMA TakeStep ==
  ASSUME RequestInv, HandInv, [Next]_vars, NEW id \in Ids, NEW cost, NEW rejected,
         Produce(id, cost, rejected)
  PROVE  Ledger!Take(id)
PROOF
<1>1. pc = "select" /\ pc' = "check" /\ id \in pending /\ ~Refused(requests[id])
      /\ content' = content /\ attempts' = attempts
  BY DEF Produce, Regenerates, Controlled, Compiled, Selected, stateVars
<1>2. Phase = "idle" /\ Phase' = "taken" /\ Hand' = id
  BY <1>1, ProduceType DEF Phase, Hand, InHand, RequestInv
<1>3. Ledger!Current(Defects[id])
  <2>1. ~Outdated(requests[id]) /\ Owners(requests[id]) \subseteq PatchTypes
        /\ DOMAIN requests[id].hashes = Owners(requests[id])
    BY <1>1, RequestOf DEF Refused
  <2>2. Defects[id].hashes = requests[id].hashes
    BY DEF Defects, Fingerprint
  <2>3. QED
    BY <2>1, <2>2 DEF Ledger!Current, Outdated, Version
<1>4. Ledger!TriesOf(Defects[id]) < Budget
  <2>1. ~(Lookup(attempts, Fingerprint(requests[id]), 0) >= Budget)
    BY <1>1 DEF Refused, Spent
  <2>2. Lookup(attempts, Fingerprint(requests[id]), 0) < Budget
    BY <2>1, AttemptsType, BudgetType DEF HandInv
  <2>3. QED
    BY <2>2 DEF Lookup, Defects, Ledger!TriesOf
<1>5. Defects' = Defects /\ pending' \in { pending, pending \ {id} }
  <2>1. CASE UNCHANGED requestVars
    BY <2>1 DEF requestVars, Defects, Ids
  <2>2. CASE SetLifecycle(id, "failed")
    BY <2>2, LifecycleEffect DEF Lifecycles
  <2>3. QED
    BY <2>1, <2>2 DEF Produce
<1>6. QED
  BY <1>1, <1>2, <1>3, <1>4, <1>5, VersionKept DEF Ledger!Take, Ledger!KeepOrClose

LEMMA TryStep ==
  ASSUME RequestInv, HandInv, [Next]_vars, StopOnCycle \/ PassCycleCheck
  PROVE  Ledger!Try
PROOF
<1>1. pc = "check" /\ loop.request \in Ids /\ content' = content
      /\ attempts' = Store(attempts, Key, Lookup(attempts, Key, 0) + 1)
  BY DEF StopOnCycle, PassCycleCheck, RecordAttempt, stateVars, HandInv, InHand, HoldsUntouched
<1>2. Hand = loop.request /\ Phase = "taken" /\ Key = Defects[Hand]
  BY <1>1 DEF Hand, Phase, InHand, Key, Defects
<1>3. attempts' = [ d \in DOMAIN attempts \cup {Defects[Hand]} |->
                      IF d = Defects[Hand] THEN Ledger!TriesOf(d) + 1 ELSE attempts[d] ]
  BY <1>1, <1>2 DEF Store, Lookup, Ledger!TriesOf
<1>4. CASE PassCycleCheck
  <2>1. pc' = "accept" /\ UNCHANGED << requestVars, loop >>
    BY <1>4 DEF PassCycleCheck
  <2>2. Phase' = "tried" /\ Hand' = Hand /\ Defects' = Defects /\ pending' = pending
    BY <1>2, <2>1 DEF Phase, Hand, InHand, requestVars, Defects, Ids
  <2>3. QED
    BY <1>1, <1>2, <1>3, <2>2, VersionKept DEF Ledger!Try
<1>5. CASE StopOnCycle
  <2>1. pc' = "select" /\ SetLifecycle(loop.request, "no_progress")
    BY <1>5 DEF StopOnCycle
  <2>2. Phase' = "idle" /\ Hand' = 0
    BY <2>1 DEF Phase, Hand, InHand
  <2>3. Defects' = Defects /\ pending' = pending \ {Hand}
    BY <1>1, <1>2, <2>1, LifecycleEffect DEF Lifecycles, Terminal
  <2>4. QED
    BY <1>1, <1>2, <1>3, <2>2, <2>3, VersionKept DEF Ledger!Try, Ledger!LetGo
<1>6. QED
  BY <1>4, <1>5

LEMMA EndOfHold ==
  ASSUME RequestInv, HandInv, [Next]_vars, pc = "accept", pc' = "select",
         \/ UNCHANGED requestVars
         \/ \E lifecycle \in Lifecycles : SetLifecycle(loop.request, lifecycle)
  PROVE  /\ Phase = "tried" /\ Hand = loop.request /\ loop.request \in Ids
         /\ Hand' = 0 /\ Phase' = "idle"
         /\ Defects' = Defects /\ pending' \in { pending, pending \ {Hand} }
PROOF
<1>1. loop.request \in Ids /\ Hand = loop.request /\ Phase = "tried"
      /\ Hand' = 0 /\ Phase' = "idle"
  BY DEF HandInv, HoldsUntouched, Hand, Phase, InHand
<1>2. CASE UNCHANGED requestVars
  BY <1>1, <1>2 DEF requestVars, Defects, Ids
<1>3. ASSUME NEW lifecycle \in Lifecycles, SetLifecycle(loop.request, lifecycle)
      PROVE  Defects' = Defects /\ pending' \in { pending, pending \ {Hand} }
  BY <1>1, <1>3, LifecycleEffect
<1>4. QED
  BY <1>1, <1>2, <1>3

LEMMA GiveUpStep ==
  ASSUME RequestInv, HandInv, [Next]_vars, FailAcceptance \/ RollBackCommit
  PROVE  Ledger!GiveUp
PROOF
<1>1. /\ pc = "accept" /\ pc' = "select" /\ content' = content /\ attempts' = attempts
      /\ \/ UNCHANGED requestVars
         \/ \E lifecycle \in Lifecycles : SetLifecycle(loop.request, lifecycle)
  BY DEF FailAcceptance, RollBackCommit, stateVars, ledgerVars, Lifecycles
<1>2. QED
  BY <1>1, EndOfHold, VersionKept DEF Ledger!GiveUp, Ledger!LetGo, Ledger!KeepOrClose

LEMMA SwapStep ==
  ASSUME RequestInv, HandInv, [Next]_vars, CommitOwner
  PROVE  Ledger!Swap
PROOF
<1> DEFINE r == requests[loop.request]
           owners == DOMAIN loop.candidate
           dependents == TransitiveDependents(owners) \ owners
<1>1. /\ pc = "accept" /\ pc' = "select" /\ owners = Owners(r) /\ attempts' = attempts
      /\ \E lifecycle \in Lifecycles : SetLifecycle(loop.request, lifecycle)
      /\ content' = [ p \in Required |-> IF p \in owners THEN loop.candidate[p]
                                         ELSE Without(dependents, content)[p] ]
  BY DEF CommitOwner, ledgerVars, Lifecycles
<1>2. /\ Phase = "tried" /\ Hand = loop.request /\ loop.request \in Ids
      /\ Hand' = 0 /\ Phase' = "idle"
      /\ Defects' = Defects /\ pending' \in { pending, pending \ {Hand} }
  BY <1>1, EndOfHold
<1>3. /\ Defects[Hand].hashes = r.hashes
      /\ DOMAIN r.hashes = Owners(r) /\ Owners(r) \subseteq PatchTypes
  BY <1>2, RequestOf DEF Defects, Fingerprint
<1>4. Ledger!Current(Defects[Hand])
  <2>1. Untouched(r)
    BY <1>1 DEF HandInv, HoldsUntouched, InHand
  <2>2. QED
    BY <1>3, <2>1 DEF Untouched, Ledger!Current, Version
<1>5. owners \subseteq Required
  BY DEF RequestInv, TypeOK, ControlTypeOK, Calls, Candidates
<1>6. ASSUME NEW p \in owners
      PROVE  Version'[p] # NoContent
  <2>1. loop.candidate[p] \in ContentsOf[p] /\ p \in Required
    BY <1>1, <1>5 DEF RequestInv, TypeOK, ControlTypeOK
  <2>2. loop.candidate[p] # NoContent
    BY <2>1, ContentsAssumption DEF Contents
  <2>3. QED
    BY <1>1, <1>3, <2>1, <2>2 DEF Version, HashOf
<1>7. ASSUME NEW p \in PatchTypes \ owners
      PROVE  Version'[p] \in { NoContent, Version[p] }
  BY <1>1, <1>7 DEF Version, HashOf, Without
<1> HIDE DEF owners, r, dependents
<1>8. /\ DOMAIN Version' = PatchTypes
      /\ \A p \in DOMAIN Defects[Hand].hashes : Version'[p] # NoContent
      /\ \A p \in PatchTypes \ DOMAIN Defects[Hand].hashes :
           Version'[p] \in { NoContent, Version[p] }
  BY <1>1, <1>3, <1>6, <1>7 DEF Version
<1>9. QED
  BY <1>1, <1>2, <1>4, <1>8 DEF Ledger!Swap, Ledger!LetGo, Ledger!KeepOrClose

-----------------------------------------------------------------------------
(* With a candidate in hand nothing but these steps is possible.           *)
LEMMA StepsInHand ==
  [Next]_vars /\ InHand =>
    UNCHANGED vars \/ StopOnCycle \/ PassCycleCheck \/ FailAcceptance \/ CommitOwner
    \/ RollBackCommit
PROOF
<1> SUFFICES ASSUME Next, InHand
             PROVE  StopOnCycle \/ PassCycleCheck \/ FailAcceptance \/ CommitOwner
                    \/ RollBackCommit
  OBVIOUS
<1>1. ~Planner
  <2>1. /\ \A p : ~GeneratePatch(p)
        /\ \A g : ~AcceptGate(g) /\ ~RejectGate(g) /\ ~BlockGate(g)
        /\ \A g, why : ~ReportFinding(g, why)
        /\ \A c : ~ReviseFacts(c)
    BY DEF GeneratePatch, AcceptGate, RejectGate, BlockGate, ReportFinding, MayReview,
           ReviseFacts, Rejecting, Behind, InHand
  <2>2. /\ \A why : ~RetryPlacementDependency(why) /\ ~FindUnready(why) /\ ~PostRequest(why)
        /\ ~Assemble
        /\ \A why : ~FailAssembly(why)
        /\ \A id : ~AnswerHuman(id)
    BY DEF RetryPlacementDependency, FindUnready, PostRequest, Assemble, FailAssembly,
           AnswerHuman, Rejecting, AllGenerated, InHand
  <2>3. QED
    BY <2>1, <2>2 DEF Planner
<1>2. /\ \A caller : ~EnterLoop(caller)
      /\ ~LeaveLoop /\ ~ReturnFromLoop
  BY DEF EnterLoop, LeaveLoop, ReturnFromLoop, InHand
<1>3. \A id : ~Iteration(id)
  BY DEF Iteration, LoopOff, RefuseRequest, RecordAdvisory, AwaitHuman, RecomputeTaskPlan,
     BuildTaskPlan, RecomputeUnavailable, FailWithoutOwner, FailProduction, Candidate, ExhaustLlmBudget,
     Produce, Regenerates, Controlled, Compiled, Selected, InHand
<1>4. QED
  BY <1>1, <1>2, <1>3 DEF Next, Loop

LEMMA LedgerStep ==
  RequestInv /\ HandInv /\ [Next]_vars => [Ledger!Next]_(Ledger!ledger)
PROOF
<1> SUFFICES ASSUME RequestInv, HandInv, [Next]_vars
             PROVE  [Ledger!Next]_(Ledger!ledger)
  OBVIOUS
<1>1. CASE ~InHand /\ ~InHand'
  BY <1>1, IdleStep
<1>2. CASE UNCHANGED vars
  BY <1>2 DEF vars, stateVars, requestVars, ledgerVars, Ledger!ledger, Version, HashOf,
     Defects, Ids, Hand, Phase, InHand
<1>3. CASE ~InHand /\ InHand' /\ ~UNCHANGED vars
  <2>1. PICK id \in Ids : \E cost : \E rejected \in SUBSET Owners(requests[id]) :
          Produce(id, cost, rejected)
    BY <1>3, CandidateSteps DEF InHand, PassCycleCheck
  <2>2. Ledger!Take(id) /\ id \in pending
    BY <2>1, TakeStep DEF Ledger!Take
  <2>3. QED
    BY <2>2 DEF Ledger!Next
<1>4. CASE InHand /\ ~UNCHANGED vars
  BY <1>4, StepsInHand, TryStep, GiveUpStep, SwapStep DEF Ledger!Next
<1>5. QED
  BY <1>1, <1>2, <1>3, <1>4

(* The retry loop with the planner around it implements the request        *)
(* ledger: a patch is replaced only by the request in hand, in exchange    *)
(* for the contents it was made about, after an attempt that was counted   *)
(* and below the limit; and no request is reopened or opened twice.        *)
THEOREM LoopImplementsLedger == Spec => ImplementsLedger
PROOF
<1>1. Init => Ledger!Init
  <2> SUFFICES ASSUME Init
               PROVE  Ledger!Init
    OBVIOUS
  <2>1. Version = [ p \in PatchTypes |-> NoContent ]
    BY DEF Init, Version, HashOf
  <2>2. Defects = << >>
    BY DEF Init, Defects, Ids
  <2>3. QED
    BY <2>1, <2>2 DEF Init, Ledger!Init, Hand, Phase, InHand
<1>2. Init => HandInv
  BY DEF Init, HandInv, LedgerInv, AttemptsWithinBudget, InHand
<1>3. QED
  BY <1>1, <1>2, RequestInvariant, HandInvStep, LedgerStep, PTL
     DEF Spec, ImplementsLedger, Ledger!Spec

=============================================================================
