--------------------------- MODULE CampaignResume ---------------------------
(***************************************************************************)
(* A real evaluation campaign and what survives its process                *)
(* (real_campaign_harness.py, plan_builder/closed_loop/campaign_           *)
(* checkpoint.py and state_snapshot.py).                                   *)
(*                                                                         *)
(* A campaign works through its runs in order.  Its output directory keeps *)
(* the manifest with the configuration's fingerprint, the results of the   *)
(* finished runs, and per run the snapshots of the plan taken at accepted  *)
(* boundaries.  The process can be killed anywhere and started again, with *)
(* or without resume, with the same configuration or another one.          *)
(*                                                                         *)
(* Every file is replaced atomically, so a write is one step.  Rewrites    *)
(* that change neither the fingerprint, the status nor the results are     *)
(* left out.  Snapshots that differ only in sequence and time are one.     *)
(***************************************************************************)
EXTENDS Integers, FiniteSets

CONSTANTS
  Configs,      \* campaign configurations: what the resume fingerprint covers
  NoConfig,     \* no process, or no configuration
  InputsOf,     \* configuration -> the five hashes a snapshot carries of it
  NumRuns,      \* campaign.runs
  NumBoundaries,\* how many of ACCEPTED_BOUNDARIES the plan passes
  MaxCalls,     \* max_llm_calls of a run
  MaxStarts     \* bound: starts of the process in a behaviour

ASSUME ConfigAssumption == NoConfig \notin Configs /\ DOMAIN InputsOf = Configs
ASSUME CampaignAssumption ==
  NumRuns \in Nat \ {0} /\ NumBoundaries \in Nat /\ MaxCalls \in Nat /\ MaxStarts \in Nat

Runs == 1..NumRuns
Boundaries == 1..NumBoundaries

VARIABLES
  manifest, \* on disk: fingerprint and aggregate status
  saved,    \* on disk: campaign_results.json
  store,    \* on disk: run -> the snapshots in its campaign_checkpoint.json
  config,   \* the process: its configuration
  resume,   \* the process: started with resume
  results,  \* the process: the results it has
  run,      \* the process: the run in hand, 0 if none
  seeded,   \* the process: the run was hydrated from a snapshot
  plan,     \* the process: the run's plan, last boundary and configuration
  calls,    \* the process: calls in the run's LLMCallRecorder
  starts,   \* how often the process was started
  pc        \* where the process is; down if there is none

disk == << manifest, saved, store >>
work == << run, seeded, plan, calls >>
vars == << disk, config, resume, results, work, starts, pc >>

NoManifest == [ config |-> NoConfig, status |-> "absent" ]
NoPlan == [ boundary |-> 0, config |-> NoConfig ]
FreshPlan == [ boundary |-> 0, config |-> config ]

Init ==
  /\ manifest = NoManifest /\ saved = {} /\ store = [ i \in Runs |-> {} ]
  /\ config = NoConfig /\ resume = FALSE /\ results = {}
  /\ run = 0 /\ seeded = FALSE /\ plan = NoPlan /\ calls = 0
  /\ starts = 0
  /\ pc = "down"

(* The process is gone, and with it everything it had not written.         *)
Gone ==
  /\ config' = NoConfig /\ resume' = FALSE /\ results' = {}
  /\ run' = 0 /\ seeded' = FALSE /\ plan' = NoPlan /\ calls' = 0
  /\ pc' = "down"

Write(c, status) == manifest' = [ config |-> c, status |-> status ]

-----------------------------------------------------------------------------
(* A start whose environment lacks the provider or OpenMC writes its       *)
(* manifest and then empty results, whether or not it was to resume.       *)
BlockedStart(c, r) ==
  /\ pc = "down" /\ starts < MaxStarts
  /\ starts' = starts + 1
  /\ Write(c, "blocked")
  /\ config' = c /\ resume' = r
  /\ pc' = "blocked"
  /\ UNCHANGED << saved, store, results, work >>

EraseResults ==
  /\ pc = "blocked"
  /\ saved' = {}
  /\ Gone
  /\ UNCHANGED << manifest, store, starts >>

(* Mutant: the recorded results are not loaded.                            *)
NothingLoaded == {}

(* _resumable_campaign_results: a failed run does not count as completed.  *)
Resumable == { r \in saved : r.passed }

Resumes(r) == r /\ manifest # NoManifest

(* Resume with another configuration is refused; the refusal is written as *)
(* the new manifest, fingerprint included.                                 *)
RefuseConfig(c, r) ==
  /\ pc = "down" /\ starts < MaxStarts
  /\ Resumes(r) /\ manifest.config # c
  /\ starts' = starts + 1
  /\ Write(c, "mismatch")
  /\ UNCHANGED << saved, store, config, resume, results, work, pc >>

(* The manifest is written before the results it goes with.                *)
Open(c, r) ==
  /\ pc = "down" /\ starts < MaxStarts
  /\ Resumes(r) => manifest.config = c
  /\ starts' = starts + 1
  /\ Write(c, "running")
  /\ config' = c /\ resume' = r
  /\ results' = IF Resumes(r) THEN Resumable ELSE {}
  /\ pc' = "opening"
  /\ UNCHANGED << saved, store, work >>

SaveResults ==
  /\ pc = "opening"
  /\ saved' = results
  /\ pc' = "dispatch"
  /\ UNCHANGED << manifest, store, config, resume, results, work, starts >>

-----------------------------------------------------------------------------
(* Mutant: recorded runs are dispatched again.                             *)
AllRuns == Runs

Pending == { i \in Runs : \A r \in results : r.run # i }
NextRun(i) == i \in Pending /\ \A j \in Pending : i <= j

(* Mutant: one matching snapshot vouches for the others.                   *)
SomeMatch(i) == \E s \in store[i] : InputsOf[s.config] = InputsOf[config]

(* hydrate_accepted_state: every snapshot of the run must carry the hashes *)
(* of this campaign, and the one at the furthest boundary is taken.        *)
AllMatch(i) == \A s \in store[i] : InputsOf[s.config] = InputsOf[config]
Furthest(i) == { s \in store[i] : \A t \in store[i] : t.boundary <= s.boundary }

(* Mutant: the run goes on behind the boundary.                            *)
BehindFurthest(i) == { [ s EXCEPT !.boundary = @ + 1 ] : s \in Furthest(i) }
Candidates(i) == Furthest(i)

Hydrates(i) == resume /\ store[i] # {}

RefuseSnapshot(i) ==
  /\ pc = "dispatch" /\ NextRun(i)
  /\ Hydrates(i) /\ ~AllMatch(i)
  /\ Write(config, "mismatch")
  /\ Gone
  /\ UNCHANGED << saved, store, starts >>

Dispatch(i) ==
  /\ pc = "dispatch" /\ NextRun(i)
  /\ Hydrates(i) => AllMatch(i)
  /\ run' = i /\ seeded' = Hydrates(i) /\ calls' = 0
  /\ plan' \in IF Hydrates(i) THEN Candidates(i) ELSE {FreshPlan}
  /\ pc' = "running"
  /\ UNCHANGED << disk, config, resume, results, starts >>

-----------------------------------------------------------------------------
(* Inside a run.  Each accepted boundary is persisted by the checkpoint    *)
(* callback, which the plan graph does not pass on in a seeded run.        *)
AcceptBoundary(b) ==
  /\ pc = "running" /\ plan.boundary < b
  /\ plan' = [ plan EXCEPT !.boundary = b ]
  /\ store' = IF seeded THEN store ELSE [ store EXCEPT ![run] = @ \cup {plan'} ]
  /\ UNCHANGED << manifest, saved, config, resume, results, run, seeded, calls, starts, pc >>

(* A committed retry takes the plan back behind an accepted boundary.      *)
ReopenBoundary(b) ==
  /\ pc = "running" /\ b <= plan.boundary
  /\ plan' = [ plan EXCEPT !.boundary = b - 1 ]
  /\ UNCHANGED << disk, config, resume, results, run, seeded, calls, starts, pc >>

(* check_budget and record_call on the recorder made for this dispatch.    *)
CallModel ==
  /\ pc = "running" /\ calls < MaxCalls
  /\ calls' = calls + 1
  /\ UNCHANGED << disk, config, resume, results, run, seeded, plan, starts, pc >>

(* A run that ends, for whatever reason, has a result; it is in memory     *)
(* until it is written.                                                    *)
FinishRun(passed) ==
  /\ pc = "running"
  /\ results' = results \cup { [ run |-> run, config |-> config, passed |-> passed ] }
  /\ run' = 0 /\ seeded' = FALSE /\ plan' = NoPlan /\ calls' = 0
  /\ pc' = IF passed THEN "recording" ELSE "recording_failure"
  /\ UNCHANGED << disk, config, resume, starts >>

(* fail_fast may end the campaign after a failure.                         *)
RecordRun ==
  /\ pc \in {"recording", "recording_failure"}
  /\ saved' = results
  /\ pc' \in IF pc = "recording" THEN {"dispatch"} ELSE {"dispatch", "closing"}
  /\ UNCHANGED << manifest, store, config, resume, results, work, starts >>

(* Mutant: completed runs are taken for successful ones.                   *)
VerdictOfCompleted ==
  IF Cardinality(results) < NumRuns THEN "incomplete" ELSE "passed"

Verdict ==
  IF Cardinality(results) < NumRuns THEN "incomplete"
  ELSE IF Cardinality({ r \in results : r.passed }) = NumRuns THEN "passed"
  ELSE "failed"

CloseCampaign ==
  /\ pc = "closing" \/ (pc = "dispatch" /\ Pending = {})
  /\ Write(config, Verdict)
  /\ Gone
  /\ UNCHANGED << saved, store, starts >>

(* The campaign's own time limit, looked at before each run.               *)
TimeOut ==
  /\ pc = "dispatch" /\ Pending # {}
  /\ Write(config, "timeout")
  /\ Gone
  /\ UNCHANGED << saved, store, starts >>

Crash ==
  /\ pc # "down"
  /\ Gone
  /\ UNCHANGED << disk, starts >>

-----------------------------------------------------------------------------
Next ==
  \/ \E c \in Configs, r \in BOOLEAN :
       BlockedStart(c, r) \/ RefuseConfig(c, r) \/ Open(c, r)
  \/ EraseResults \/ SaveResults
  \/ \E i \in Runs : RefuseSnapshot(i) \/ Dispatch(i)
  \/ \E b \in Boundaries : AcceptBoundary(b) \/ ReopenBoundary(b)
  \/ CallModel
  \/ \E passed \in BOOLEAN : FinishRun(passed)
  \/ RecordRun \/ CloseCampaign \/ TimeOut
  \/ Crash

Spec == Init /\ [][Next]_vars

-----------------------------------------------------------------------------
Plans == [ boundary : 0..NumBoundaries, config : Configs ]
Results == [ run : Runs, config : Configs, passed : BOOLEAN ]
Statuses == { "running", "blocked", "mismatch", "timeout", "incomplete", "passed", "failed" }

(* The files and the process keep their types; a run is in hand exactly    *)
(* while one is running.                                                   *)
TypeOK ==
  /\ manifest \in [ config : Configs, status : Statuses ] \cup {NoManifest}
  /\ saved \subseteq Results /\ results \subseteq Results
  /\ store \in [Runs -> SUBSET Plans]
  /\ pc \in { "down", "blocked", "opening", "dispatch", "running", "recording",
              "recording_failure", "closing" }
  /\ config \in IF pc = "down" THEN {NoConfig} ELSE Configs
  /\ resume \in BOOLEAN /\ seeded \in BOOLEAN
  /\ IF pc = "running" THEN run \in Runs /\ plan \in Plans ELSE run = 0 /\ plan = NoPlan
  /\ calls \in 0..MaxCalls /\ starts \in 0..MaxStarts

(* Whatever starts, crashes and refusals came before, a run never works on *)
(* a plan made under another requirement, input, policy, source or output  *)
(* policy than the campaign's own.                                         *)
ResumesItsOwnInputs ==
  pc = "running" => InputsOf[plan.config] = InputsOf[config]

(* At most one result per run, in memory and on disk, although a resumed   *)
(* campaign dispatches the runs that are recorded as failed once more.     *)
RunsOnce ==
  \A S \in {results, saved} : \A r, s \in S : r.run = s.run => r = s

(* A campaign that is reported as passed has a recorded pass for every     *)
(* run, also when it took several processes, and until the next start.     *)
VerdictIsSupported ==
  manifest.status = "passed" =>
    \A i \in Runs : \E r \in saved : r.run = i /\ r.passed

(* A resumed campaign never loses a recorded pass.  Two starts are         *)
(* exempted: one without resume, and one that a missing provider key       *)
(* blocks, which erases the results although it was told to resume.        *)
PassedRunsKept ==
  [][ \A r \in saved : r.passed /\ r \notin saved' => ~resume \/ pc = "blocked" ]_vars

-----------------------------------------------------------------------------
(* What documents of the repository say and the code does not do.          *)

(* "Mismatch -> CONFIG_MISMATCH (no fragment, gate or run reuse)": a       *)
(* process has only results and a plan of its own configuration.           *)
ReusedUnderSameConfig ==
  /\ \A r \in results : r.config = config
  /\ pc = "running" => plan.config = config

=============================================================================
