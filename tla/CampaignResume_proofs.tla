----------------------- MODULE CampaignResume_proofs -----------------------
(***************************************************************************)
(* Theorems about CampaignResume for any number of runs, boundaries,       *)
(* configurations and starts: what a campaign that is killed and started   *)
(* again keeps, and what its verdict rests on.                             *)
(***************************************************************************)
EXTENDS CampaignResume, FiniteSetTheorems, TLAPS

(* What ties the files to the process.  Between two runs the results file  *)
(* is what the process has; a process never shows a passed verdict while   *)
(* it works; a resumed one has every recorded pass from the moment it      *)
(* opened, before it writes any results.                                   *)
FilesInv ==
  /\ pc \in {"dispatch", "running", "closing"} => saved = results
  /\ pc # "down" => manifest # NoManifest /\ manifest.status # "passed"
  /\ manifest = NoManifest => saved = {}
  /\ resume /\ pc \notin {"down", "blocked"} => Resumable \subseteq results

CampaignInv ==
  /\ TypeOK
  /\ RunsOnce
  /\ pc = "running" => run \in Pending
  /\ ResumesItsOwnInputs
  /\ FilesInv
  /\ VerdictIsSupported

-----------------------------------------------------------------------------
LEMMA TypeInit == Init => TypeOK
PROOF
<1> SUFFICES ASSUME Init PROVE TypeOK
  OBVIOUS
<1>1. 0 \in 0..MaxCalls /\ 0 \in 0..MaxStarts
  BY CampaignAssumption
<1>2. store \in [Runs -> SUBSET Plans]
  BY DEF Init
<1>3. QED
  BY <1>1, <1>2 DEF Init, TypeOK

(* A hydrated plan is one of the run's snapshots.                          *)
LEMMA CandidatesInStore ==
  ASSUME NEW i
  PROVE  Candidates(i) \subseteq store[i]
PROOF
  BY DEF Candidates, Furthest

(* Every write leaves a manifest of its type, and not the absent one.      *)
LEMMA WriteType ==
  ASSUME NEW c \in Configs, NEW status \in Statuses, Write(c, status)
  PROVE  /\ manifest' \in [ config : Configs, status : Statuses ]
         /\ manifest'.status = status
         /\ manifest' # NoManifest
PROOF
<1>1. manifest' = [ config |-> c, status |-> status ]
  BY DEF Write
<1>2. manifest'.status = status
  BY <1>1
<1>3. manifest' # NoManifest
  BY <1>2 DEF NoManifest, Statuses
<1>4. QED
  BY <1>1, <1>2, <1>3

LEMMA TypeStep ==
  ASSUME TypeOK, [Next]_vars
  PROVE  TypeOK'
PROOF
<1> 0 \in 0..MaxCalls
  BY CampaignAssumption
<1>1. ASSUME NEW c \in Configs, NEW r \in BOOLEAN,
             BlockedStart(c, r) \/ RefuseConfig(c, r) \/ Open(c, r)
      PROVE  TypeOK'
  <2>1. starts' \in 0..MaxStarts
    BY <1>1, CampaignAssumption DEF TypeOK, BlockedStart, RefuseConfig, Open
  <2>2. manifest' \in [ config : Configs, status : Statuses ]
    BY <1>1, WriteType DEF BlockedStart, RefuseConfig, Open, Statuses
  <2>3. CASE BlockedStart(c, r)
    BY <2>1, <2>2, <2>3 DEF BlockedStart, work, TypeOK
  <2>4. CASE RefuseConfig(c, r)
    BY <2>1, <2>2, <2>4 DEF RefuseConfig, work, TypeOK
  <2>5. CASE Open(c, r)
    BY <2>1, <2>2, <2>5 DEF Open, work, Resumable, TypeOK
  <2>6. QED
    BY <1>1, <2>3, <2>4, <2>5
<1>2. CASE EraseResults
  BY <1>2 DEF EraseResults, Gone, TypeOK
<1>3. CASE SaveResults
  BY <1>3 DEF SaveResults, work, TypeOK
<1>4. ASSUME NEW i \in Runs, RefuseSnapshot(i)
      PROVE  TypeOK'
  <2>1. manifest' \in [ config : Configs, status : Statuses ]
    BY <1>4, WriteType DEF RefuseSnapshot, TypeOK, Statuses
  <2>2. QED
    BY <1>4, <2>1 DEF RefuseSnapshot, Gone, TypeOK
<1>5. ASSUME NEW i \in Runs, Dispatch(i)
      PROVE  TypeOK'
  <2>1. FreshPlan \in Plans
    BY <1>5, CampaignAssumption DEF Dispatch, TypeOK, FreshPlan, Plans
  <2>2. plan' \in Plans
    BY <1>5, <2>1, CandidatesInStore DEF Dispatch, TypeOK
  <2>3. seeded' \in BOOLEAN
    BY <1>5 DEF Dispatch, Hydrates, TypeOK
  <2>4. QED
    BY <1>5, <2>2, <2>3 DEF Dispatch, disk, TypeOK
<1>6. ASSUME NEW b \in Boundaries, AcceptBoundary(b)
      PROVE  TypeOK'
  <2>1. plan' \in Plans
    BY <1>6, CampaignAssumption DEF AcceptBoundary, TypeOK, Plans, Boundaries
  <2>2. store' \in [Runs -> SUBSET Plans]
    BY <1>6, <2>1 DEF AcceptBoundary, TypeOK
  <2>3. QED
    BY <1>6, <2>1, <2>2 DEF AcceptBoundary, TypeOK
<1>7. ASSUME NEW b \in Boundaries, ReopenBoundary(b)
      PROVE  TypeOK'
  <2>1. plan' \in Plans
    BY <1>7, CampaignAssumption DEF ReopenBoundary, TypeOK, Plans, Boundaries
  <2>2. QED
    BY <1>7, <2>1 DEF ReopenBoundary, disk, TypeOK
<1>8. CASE CallModel
  <2>1. calls' \in 0..MaxCalls
    BY <1>8, CampaignAssumption DEF CallModel, TypeOK
  <2>2. QED
    BY <1>8, <2>1 DEF CallModel, disk, TypeOK
<1>9. ASSUME NEW passed \in BOOLEAN, FinishRun(passed)
      PROVE  TypeOK'
  <2>1. results' \subseteq Results
    BY <1>9 DEF FinishRun, TypeOK, Results
  <2>2. QED
    BY <1>9, <2>1 DEF FinishRun, disk, TypeOK
<1>10. CASE RecordRun
  BY <1>10 DEF RecordRun, work, TypeOK
<1>11. CASE CloseCampaign
  <2>1. manifest' \in [ config : Configs, status : Statuses ]
    BY <1>11, WriteType DEF CloseCampaign, Verdict, TypeOK, Statuses
  <2>2. QED
    BY <1>11, <2>1 DEF CloseCampaign, Gone, TypeOK
<1>12. CASE TimeOut
  <2>1. manifest' \in [ config : Configs, status : Statuses ]
    BY <1>12, WriteType DEF TimeOut, TypeOK, Statuses
  <2>2. QED
    BY <1>12, <2>1 DEF TimeOut, Gone, TypeOK
<1>13. CASE Crash
  BY <1>13 DEF Crash, Gone, disk, TypeOK
<1>14. CASE UNCHANGED vars
  BY <1>14 DEF vars, disk, work, TypeOK
<1>15. QED
  BY <1>1, <1>2, <1>3, <1>4, <1>5, <1>6, <1>7, <1>8, <1>9, <1>10, <1>11,
     <1>12, <1>13, <1>14 DEF Next

-----------------------------------------------------------------------------
(* Recording a run that is still pending keeps one result per run.         *)
LEMMA OnceStep ==
  ASSUME TypeOK, RunsOnce, pc = "running" => run \in Pending, FilesInv, [Next]_vars
  PROVE  RunsOnce' /\ (pc' = "running" => run' \in Pending')
PROOF
<1>1. ASSUME NEW c \in Configs, NEW r \in BOOLEAN,
             BlockedStart(c, r) \/ RefuseConfig(c, r) \/ Open(c, r)
      PROVE  RunsOnce' /\ pc' # "running"
  <2>1. saved' = saved /\ results' \in {results, {}, Resumable} /\ pc' # "running"
    BY <1>1 DEF BlockedStart, RefuseConfig, Open
  <2>2. Resumable \subseteq saved
    BY DEF Resumable
  <2>3. QED
    BY <2>1, <2>2 DEF RunsOnce
<1>2. CASE EraseResults \/ CloseCampaign \/ TimeOut \/ Crash
  BY <1>2 DEF EraseResults, CloseCampaign, TimeOut, Crash, Gone, disk, RunsOnce
<1>3. CASE SaveResults \/ RecordRun
  <2>1. saved' = results /\ results' = results /\ pc' # "running"
    BY <1>3 DEF SaveResults, RecordRun
  <2>2. QED
    BY <2>1 DEF RunsOnce
<1>4. ASSUME NEW i \in Runs, RefuseSnapshot(i)
      PROVE  RunsOnce' /\ pc' # "running"
  BY <1>4 DEF RefuseSnapshot, Gone, RunsOnce
<1>5. ASSUME NEW i \in Runs, Dispatch(i)
      PROVE  RunsOnce' /\ run' \in Pending'
  BY <1>5 DEF Dispatch, disk, NextRun, Pending, RunsOnce
<1>6. ASSUME NEW b \in Boundaries, AcceptBoundary(b) \/ ReopenBoundary(b)
      PROVE  RunsOnce' /\ run' \in Pending'
  BY <1>6 DEF AcceptBoundary, ReopenBoundary, disk, Pending, RunsOnce
<1>7. CASE CallModel
  BY <1>7 DEF CallModel, disk, Pending, RunsOnce
<1>8. ASSUME NEW passed \in BOOLEAN, FinishRun(passed)
      PROVE  RunsOnce' /\ pc' # "running"
  <2> DEFINE new == [ run |-> run, config |-> config, passed |-> passed ]
  <2>1. results' = results \cup {new} /\ saved' = saved /\ pc' # "running"
    BY <1>8 DEF FinishRun, disk
  <2>2. new.run = run /\ run \in Pending
    BY <1>8 DEF FinishRun
  <2>3. \A r \in results : r.run # new.run
    BY <2>2 DEF Pending
  <2> HIDE DEF new
  <2>4. QED
    BY <2>1, <2>3 DEF RunsOnce
<1>9. CASE UNCHANGED vars
  BY <1>9 DEF vars, disk, work, Pending, RunsOnce
<1>10. QED
  BY <1>1, <1>2, <1>3, <1>4, <1>5, <1>6, <1>7, <1>8, <1>9 DEF Next

(* A hydrated plan carries the campaign's hashes because every snapshot of *)
(* the run does; nothing changes the configuration while a run works.      *)
LEMMA InputsStep ==
  ASSUME TypeOK, ResumesItsOwnInputs, [Next]_vars
  PROVE  ResumesItsOwnInputs'
PROOF
<1>1. ASSUME NEW i \in Runs, Dispatch(i)
      PROVE  ResumesItsOwnInputs'
  <2>1. CASE Hydrates(i)
    <3>1. plan' \in store[i] /\ AllMatch(i) /\ config' = config
      BY <1>1, <2>1, CandidatesInStore DEF Dispatch
    <3>2. QED
      BY <3>1 DEF AllMatch, ResumesItsOwnInputs
  <2>2. CASE ~Hydrates(i)
    BY <1>1, <2>2 DEF Dispatch, FreshPlan, ResumesItsOwnInputs
  <2>3. QED
    BY <2>1, <2>2
<1>2. ASSUME NEW b \in Boundaries, AcceptBoundary(b) \/ ReopenBoundary(b)
      PROVE  ResumesItsOwnInputs'
  <2>1. plan \in Plans /\ pc = "running"
    BY <1>2 DEF AcceptBoundary, ReopenBoundary, TypeOK
  <2>2. plan'.config = plan.config /\ config' = config
    BY <1>2, <2>1 DEF AcceptBoundary, ReopenBoundary, Plans
  <2>3. QED
    BY <2>1, <2>2 DEF ResumesItsOwnInputs
<1>3. CASE CallModel \/ UNCHANGED vars
  BY <1>3 DEF CallModel, vars, work, ResumesItsOwnInputs
<1>4. CASE pc' # "running"
  BY <1>4 DEF ResumesItsOwnInputs
<1>5. ASSUME NEW c \in Configs, NEW r \in BOOLEAN,
             BlockedStart(c, r) \/ RefuseConfig(c, r) \/ Open(c, r)
      PROVE  pc' # "running"
  BY <1>5 DEF BlockedStart, RefuseConfig, Open
<1>6. /\ EraseResults \/ SaveResults \/ RecordRun \/ CloseCampaign \/ TimeOut \/ Crash => pc' # "running"
      /\ \A i : RefuseSnapshot(i) => pc' # "running"
      /\ \A passed : FinishRun(passed) => pc' # "running"
  BY DEF EraseResults, SaveResults, RecordRun, CloseCampaign, TimeOut, Crash,
         RefuseSnapshot, FinishRun, Gone
<1>7. QED
  BY <1>1, <1>2, <1>3, <1>4, <1>5, <1>6 DEF Next

(* Loaded results are the recorded passes, and results only grow while the *)
(* process lives; every write of a verdict ends the process.               *)
LEMMA FilesStep ==
  ASSUME TypeOK, FilesInv, [Next]_vars
  PROVE  FilesInv'
PROOF
<1>1. ASSUME NEW c \in Configs, NEW r \in BOOLEAN, BlockedStart(c, r)
      PROVE  FilesInv'
  BY <1>1, WriteType DEF BlockedStart, FilesInv, Statuses
<1>2. ASSUME NEW c \in Configs, NEW r \in BOOLEAN, RefuseConfig(c, r)
      PROVE  FilesInv'
  BY <1>2, WriteType DEF RefuseConfig, FilesInv, Statuses
<1>3. ASSUME NEW c \in Configs, NEW r \in BOOLEAN, Open(c, r)
      PROVE  FilesInv'
  <2>1. manifest'.status = "running" /\ manifest' # NoManifest
    BY <1>3, WriteType DEF Open, Statuses
  <2>2. resume' => Resumable' \subseteq results'
    BY <1>3 DEF Open, FilesInv, Resumes, Resumable
  <2>3. QED
    BY <1>3, <2>1, <2>2 DEF Open, FilesInv
<1>4. CASE EraseResults
  BY <1>4 DEF EraseResults, Gone, FilesInv
<1>5. CASE SaveResults \/ RecordRun
  BY <1>5 DEF SaveResults, RecordRun, FilesInv, Resumable
<1>6. ASSUME NEW i \in Runs, RefuseSnapshot(i)
      PROVE  FilesInv'
  BY <1>6, WriteType DEF RefuseSnapshot, Gone, FilesInv, TypeOK, Statuses
<1>7. ASSUME NEW i \in Runs, Dispatch(i)
      PROVE  FilesInv'
  BY <1>7 DEF Dispatch, disk, FilesInv, Resumable
<1>8. ASSUME NEW b \in Boundaries, AcceptBoundary(b) \/ ReopenBoundary(b)
      PROVE  FilesInv'
  BY <1>8 DEF AcceptBoundary, ReopenBoundary, disk, FilesInv, Resumable
<1>9. CASE CallModel \/ UNCHANGED vars
  BY <1>9 DEF CallModel, vars, disk, work, FilesInv, Resumable
<1>10. ASSUME NEW passed \in BOOLEAN, FinishRun(passed)
       PROVE  FilesInv'
  <2>1. results \subseteq results' /\ UNCHANGED << manifest, saved, resume >>
        /\ pc = "running" /\ pc' \in {"recording", "recording_failure"}
    BY <1>10 DEF FinishRun, disk
  <2>2. QED
    BY <2>1 DEF FilesInv, Resumable
<1>11. CASE CloseCampaign \/ TimeOut
  <2>1. manifest' # NoManifest
    BY <1>11, WriteType DEF CloseCampaign, TimeOut, Verdict, TypeOK, Statuses
  <2>2. QED
    BY <1>11, <2>1 DEF CloseCampaign, TimeOut, Gone, FilesInv
<1>12. CASE Crash
  BY <1>12 DEF Crash, Gone, disk, FilesInv
<1>13. QED
  BY <1>1, <1>2, <1>3, <1>4, <1>5, <1>6, <1>7, <1>8, <1>9, <1>10, <1>11, <1>12
     DEF Next

-----------------------------------------------------------------------------
(* As many passes as there are runs, at most one of each, are all of them. *)
LEMMA EveryRunPassed ==
  ASSUME TypeOK, RunsOnce, Cardinality({ r \in results : r.passed }) = NumRuns
  PROVE  \A i \in Runs : \E r \in results : r.run = i /\ r.passed
PROOF
<1> DEFINE P == { r \in results : r.passed }
           f == [ r \in P |-> r.run ]
<1>1. f \in [P -> Runs]
  BY DEF TypeOK, Results
<1>2. f \in Injection(P, Runs)
  BY <1>1 DEF RunsOnce, Injection, IsInjective
<1>3. IsFiniteSet(Runs) /\ Cardinality(Runs) = NumRuns
  BY CampaignAssumption, FS_Interval DEF Runs
<1> HIDE DEF f
<1>4. f \in Surjection(P, Runs)
  BY <1>2, <1>3, FS_Injection
<1>5. ASSUME NEW i \in Runs
      PROVE  \E r \in results : r.run = i /\ r.passed
  <2>1. PICK r \in P : f[r] = i
    BY <1>4 DEF Surjection
  <2>2. f[r] = r.run
    BY DEF f
  <2>3. QED
    BY <2>1, <2>2
<1>6. QED
  BY <1>5

(* Only the end of a campaign writes the verdict, and it leaves the        *)
(* results as they are on disk; whatever changes them has overwritten the  *)
(* manifest before.                                                        *)
LEMMA VerdictStep ==
  ASSUME TypeOK, RunsOnce, FilesInv, VerdictIsSupported, [Next]_vars
  PROVE  VerdictIsSupported'
PROOF
<1>1. CASE CloseCampaign
  <2>1. manifest' = [ config |-> config, status |-> Verdict ] /\ saved' = saved /\ saved = results
    BY <1>1 DEF CloseCampaign, Write, FilesInv
  <2>2. ASSUME manifest'.status = "passed"
        PROVE  Cardinality({ r \in results : r.passed }) = NumRuns
    BY <2>1, <2>2 DEF Verdict
  <2>3. QED
    BY <2>1, <2>2, EveryRunPassed DEF VerdictIsSupported
<1>2. ASSUME NEW c \in Configs, NEW r \in BOOLEAN,
             BlockedStart(c, r) \/ RefuseConfig(c, r) \/ Open(c, r)
      PROVE  manifest'.status # "passed"
  BY <1>2, WriteType DEF BlockedStart, RefuseConfig, Open, Statuses
<1>3. /\ \A i : RefuseSnapshot(i) => manifest'.status # "passed"
      /\ TimeOut => manifest'.status # "passed"
  BY DEF RefuseSnapshot, TimeOut, Write
<1>4. CASE UNCHANGED << manifest, saved >>
  BY <1>4 DEF VerdictIsSupported
<1>5. EraseResults \/ SaveResults \/ RecordRun => manifest' = manifest /\ pc # "down"
  BY DEF EraseResults, SaveResults, RecordRun
<1>6. /\ \A i : Dispatch(i) => UNCHANGED << manifest, saved >>
      /\ \A b : AcceptBoundary(b) \/ ReopenBoundary(b) => UNCHANGED << manifest, saved >>
      /\ \A passed : FinishRun(passed) => UNCHANGED << manifest, saved >>
      /\ CallModel \/ Crash \/ UNCHANGED vars => UNCHANGED << manifest, saved >>
  BY DEF Dispatch, AcceptBoundary, ReopenBoundary, FinishRun, CallModel, Crash, vars, disk
<1>7. CASE manifest'.status # "passed"
  BY <1>7 DEF VerdictIsSupported
<1>8. QED
  BY <1>1, <1>2, <1>3, <1>4, <1>5, <1>6, <1>7 DEF Next, FilesInv

LEMMA CampaignInvInit == Init => CampaignInv
PROOF
<1>1. Init => RunsOnce /\ ResumesItsOwnInputs /\ FilesInv /\ VerdictIsSupported
              /\ pc # "running"
  BY DEF Init, RunsOnce, ResumesItsOwnInputs, FilesInv, VerdictIsSupported, NoManifest
<1>2. QED
  BY <1>1, TypeInit DEF CampaignInv

(* The invariant is inductive.                                             *)
THEOREM CampaignInvariant == Spec => []CampaignInv
PROOF
<1>1. CampaignInv /\ [Next]_vars => CampaignInv'
  BY TypeStep, OnceStep, InputsStep, FilesStep, VerdictStep DEF CampaignInv
<1>2. QED
  BY CampaignInvInit, <1>1, PTL DEF Spec

(* The files and the process keep their types.                             *)
THEOREM CampaignTypeCorrect == Spec => []TypeOK
PROOF
<1>1. CampaignInv => TypeOK
  BY DEF CampaignInv
<1>2. QED
  BY <1>1, CampaignInvariant, PTL

(* A recorded run is never recorded again.                                 *)
THEOREM OneResultPerRun == Spec => []RunsOnce
PROOF
<1>1. CampaignInv => RunsOnce
  BY DEF CampaignInv
<1>2. QED
  BY <1>1, CampaignInvariant, PTL

(* However often the process is killed and started, with whatever          *)
(* configurations: a run works on a plan made under the campaign's own     *)
(* inputs.                                                                 *)
THEOREM OwnInputs == Spec => []ResumesItsOwnInputs
PROOF
<1>1. CampaignInv => ResumesItsOwnInputs
  BY DEF CampaignInv
<1>2. QED
  BY <1>1, CampaignInvariant, PTL

(* A campaign reported as passed has a recorded pass for every run.        *)
THEOREM VerdictSupported == Spec => []VerdictIsSupported
PROOF
<1>1. CampaignInv => VerdictIsSupported
  BY DEF CampaignInv
<1>2. QED
  BY <1>1, CampaignInvariant, PTL

(* A resumed campaign never loses a recorded pass.                         *)
THEOREM PassesKept == Spec => PassedRunsKept
PROOF
<1>1. ASSUME CampaignInv, [Next]_vars, NEW r \in saved, r.passed, r \notin saved',
             resume, pc # "blocked"
      PROVE  FALSE
  <2>1. r \in Resumable
    BY <1>1 DEF Resumable
  <2>2. pc # "down" => r \in results
    BY <1>1, <2>1 DEF CampaignInv, FilesInv
  <2>3. SaveResults \/ RecordRun => saved' = results /\ pc # "down"
    BY DEF SaveResults, RecordRun
  <2>4. ~EraseResults
    BY <1>1 DEF EraseResults
  <2>5. /\ \A c, s : BlockedStart(c, s) \/ RefuseConfig(c, s) \/ Open(c, s) => saved' = saved
        /\ \A i : RefuseSnapshot(i) \/ Dispatch(i) => saved' = saved
        /\ \A b : AcceptBoundary(b) \/ ReopenBoundary(b) => saved' = saved
        /\ \A passed : FinishRun(passed) => saved' = saved
        /\ CallModel \/ CloseCampaign \/ TimeOut \/ Crash \/ UNCHANGED vars => saved' = saved
    BY DEF BlockedStart, RefuseConfig, Open, RefuseSnapshot, Dispatch, AcceptBoundary,
           ReopenBoundary, FinishRun, CallModel, CloseCampaign, TimeOut, Crash, vars, disk
  <2>6. QED
    BY <1>1, <2>2, <2>3, <2>4, <2>5 DEF Next
<1>2. CampaignInv /\ [Next]_vars =>
        [ \A r \in saved : r.passed /\ r \notin saved' => ~resume \/ pc = "blocked" ]_vars
  BY <1>1
<1>3. QED
  BY <1>2, CampaignInvariant, PTL DEF Spec, PassedRunsKept

=============================================================================
