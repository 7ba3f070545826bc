-------------------------- MODULE FragmentPipeline --------------------------
(***************************************************************************)
(* Generation of the universes patch in fragments                          *)
(* (plan_builder/universe_patch_pipeline.py, universe_fragment_            *)
(* generation.py and universe_fragment_qualification.py), and the          *)
(* normalisation of what it merges (universes_patch_normalization.py).     *)
(*                                                                         *)
(* A large patch is asked of the model one universe at a time.  The        *)
(* accepted fragments are kept in a session under the hash of what was     *)
(* required; a session outlives the generation, the patch made of it and   *)
(* the materials its fragments cite, and a later generation with the same  *)
(* hash resumes it.  Each call of the model is a step; the pure parts      *)
(* between two calls (manifest, resume verification, merge) are one each.  *)
(*                                                                         *)
(* A fragment is a record: "sound" stands for the checks of it alone       *)
(* (boundary, identity, kind, schema, placeholders, duplicate cells),      *)
(* "cells" for what it is made of: role, material and whether it is the    *)
(* background.  Radii, names and metadata are left out.  A hash is the     *)
(* value it is taken of.  Names of one fuel variant are one value.         *)
(***************************************************************************)
EXTENDS Integers, Sequences, FiniteSets

CONSTANTS
  RequirementSets, \* what Facts may require of the universes patch
  MaterialPatches, \* accepted materials patches: id -> [ role, variant, selected,
                   \* dense ]: "selected" if the id names state.selected_variant
  Fragments,       \* what a call may answer
  Nothing,         \* no fragment, no patch, no fuel variant
  Whole,           \* a patch the model wrote in one piece
  Proposal(_, _),  \* the annular-insert oracle: item, materials -> fragment or Nothing
  Defective(_),    \* merged patches the patch validator or the aliases refuse
  MaxFragmentAttempts, \* max_fragment_attempts
  MaxTotalCalls,   \* max_total_llm_calls
  MaxRevisions     \* bound: how often the inputs are replaced

ASSUME BudgetAssumption ==
  /\ MaxFragmentAttempts \in Nat \ {0} /\ MaxTotalCalls \in Nat /\ MaxRevisions \in Nat

(* Bound: one universe at most is a satellite, named implicit_*.           *)
ASSUME RequirementAssumption ==
  \A r \in RequirementSets :
    /\ r.items \in Seq({ r.items[i] : i \in DOMAIN r.items })
    /\ \A i, j \in DOMAIN r.items : r.items[i].satellite /\ r.items[j].satellite => i = j

ASSUME FragmentAssumption ==
  /\ Nothing \notin Fragments
  /\ \A r \in RequirementSets, m \in MaterialPatches :
       \A i \in DOMAIN r.items : Proposal(r.items[i], m) \in Fragments \cup {Nothing}

VARIABLES
  required,  \* the requirement set of the accepted Facts
  materials, \* the accepted materials patch
  patch,     \* the valid universes patch: universe -> fragment, Whole or Nothing
  sessions,  \* state.metadata: input hash -> session
  phase,     \* where generate_universes_patch is
  position,  \* the index in generation_order
  attempt,   \* frag_attempt
  verified,  \* valid_resume_records
  revisions, \* replacements of the inputs so far
  asked,     \* history: the model was called since the last rejection
  rejected   \* history: the patch rejected last

pipeline == << phase, position, attempt, verified >>
inputs == << required, materials, revisions >>
history == << asked, rejected >>
vars == << inputs, patch, sessions, pipeline, history >>

-----------------------------------------------------------------------------
(* Requirements are sequences of items: universe, kind, satellite or not,  *)
(* cell roles, material roles and fuel variant.  With them, of the         *)
(* localized inserts of Facts: the kinds declared, and for each expected   *)
(* universe, of a gas plenum or not, the items that stand for its insert.  *)
UniversesOf(r) == { r.items[i].universe : i \in DOMAIN r.items }
Universes == UNION { UniversesOf(r) : r \in RequirementSets }

Order == [ i \in DOMAIN required.items |-> required.items[i].universe ]
ItemOf(u) == CHOOSE item \in { required.items[i] : i \in DOMAIN required.items } : item.universe = u

(* The hash of inventory requirements covers the inventory, that of        *)
(* requirements read off Facts the ids of the materials.                   *)
InputHash(r, m) == << r, IF r.inventory THEN {} ELSE DOMAIN m >>
Hashes == { InputHash(r, m) : r \in RequirementSets, m \in MaterialPatches }
Current == InputHash(required, materials)
session == sessions[Current]

NewSession == [ manifest |-> FALSE, calls |-> 0,
                status |-> [ u \in Universes |-> "pending" ],
                accepted |-> [ u \in Universes |-> Nothing ],
                hashes |-> [ u \in Universes |-> Nothing ] ]

Save(s) == sessions' = [ sessions EXCEPT ![Current] = s ]

(* validate_manifest: one item per universe.                               *)
ManifestErrors == \E i, j \in DOMAIN Order : i # j /\ Order[i] = Order[j]

-----------------------------------------------------------------------------
(* Poison and absorber stand for each other (material_role_satisfies).     *)
Satisfies(actual, role) == actual = role \/ {actual, role} = {"poison", "absorber"}

Roles(ids) == { materials[id].role : id \in ids }
Covers(ids, item) == \A role \in item.roles : \E actual \in Roles(ids) : Satisfies(actual, role)

Cites(f) == { cell.material : cell \in f.cells }
RolesIn(f) == { cell.role : cell \in f.cells }

(* qualify_universe_fragment against the item and the present materials.   *)
Qualifies(f, item) ==
  /\ f.sound
  /\ item.cells \subseteq RolesIn(f)
  /\ Cites(f) \subseteq DOMAIN materials
  /\ Covers(Cites(f), item)
  /\ item.variant # Nothing =>
       \A cell \in f.cells :
         cell.role = "fuel" => materials[cell.material].variant \in {Nothing, item.variant}

TrustedAccepted(s) == { u \in Universes : s.status[u] = "accepted" }

(* Mutants: everything is verified again once one fragment is invalid; the *)
(* materials are looked at by id alone, not by role and variant.           *)
AllOrNone(s) ==
  IF \A u \in TrustedAccepted(s) : Qualifies(s.accepted[u], ItemOf(u))
  THEN TrustedAccepted(s) ELSE {}
ResumableByIds(s) ==
  { u \in TrustedAccepted(s) : Cites(s.accepted[u]) \subseteq DOMAIN materials }

(* _verify_resume_fragments: accepted fragments are qualified again.       *)
Resumable(s) ==
  { u \in TrustedAccepted(s) :
      s.accepted[u] # Nothing /\ Qualifies(s.accepted[u], ItemOf(u)) }

(* Mutant: the legacy map of hashes is forgotten.                          *)
DowngradeStatus(s, us) ==
  [ s EXCEPT !.status = [ u \in Universes |-> IF u \in us THEN "pending" ELSE @[u] ],
             !.accepted = [ u \in Universes |-> IF u \in us THEN Nothing ELSE @[u] ] ]

(* _downgrade_fragment, for each of us.                                    *)
Downgrade(s, us) ==
  [ s EXCEPT !.status = [ u \in Universes |-> IF u \in us THEN "pending" ELSE @[u] ],
             !.accepted = [ u \in Universes |-> IF u \in us THEN Nothing ELSE @[u] ],
             !.hashes = [ u \in Universes |-> IF u \in us THEN Nothing ELSE @[u] ] ]

Accept(s, u, f) ==
  [ s EXCEPT !.status[u] = "accepted", !.accepted[u] = f, !.hashes[u] = f ]

(* merge_universe_fragments_structured: the universes it would flag.       *)
Flagged(s) ==
  { u \in UniversesOf(required) :
      \/ s.accepted[u] = Nothing
      \/ ~s.accepted[u].sound
      \/ ~(Cites(s.accepted[u]) \subseteq DOMAIN materials) }

Merged(s) == [ u \in UniversesOf(required) |-> s.accepted[u] ]

-----------------------------------------------------------------------------
(* normalize_universes_patch_content, on a merged patch p.  Every id it    *)
(* cites is accepted by then: no id is resolved as an alias.               *)
CellOf(role, id, background) ==
  [ role |-> role, material |-> id, background |-> background ]
WithCells(f, cells) == [ sound |-> f.sound, cells |-> cells ]

PoisonKinds ==
  { "pyrex_rod", "thimble_plug", "control_rod", "aic_rod", "b4c_rod", "waba_rod",
    "ifba_pin", "gadolinia_pin", "instrument_thimble" }

(* Poison universes of a kind Facts declares no insert of are removed.     *)
Spurious(u) == ItemOf(u).kind \in PoisonKinds \ required.declared
Stripped(p) == [ u \in { v \in DOMAIN p : ~Spurious(v) } |-> p[u] ]

(* Backgrounds of a coolant become the one the selected variant names, or  *)
(* the only one there is.                                                  *)
Coolants == { id \in DOMAIN materials : materials[id].role \in {"coolant", "moderator"} }
Anchors ==
  LET named == { id \in Coolants : materials[id].selected }
  IN  IF named # {} THEN named ELSE { id \in Coolants : Coolants = {id} }

Moderate(cell) ==
  IF cell.background /\ cell.material \in Coolants /\ Anchors # {}
  THEN CellOf(cell.role, CHOOSE id \in Anchors : TRUE, TRUE)
  ELSE cell
Moderated(p) == [ u \in DOMAIN p |-> WithCells(p[u], { Moderate(c) : c \in p[u].cells }) ]

(* The roles a cell of a material of some role may have.                   *)
Compatible ==
  LET tubes == {"clad", "cladding", "wall", "tube", "endplug", "internal",
                "structural", "plug", "frame"}
      water == {"coolant", "moderator", "background", "water"}
      poisons == {"absorber", "poison", "control"}
  IN  [ fuel |-> {"fuel"}, cladding |-> tubes, structural |-> tubes \cup {"can"},
        coolant |-> water \cup {"gas", "inner_flow"}, moderator |-> water,
        absorber |-> poisons, poison |-> poisons,
        gas |-> {"gap", "plenum", "coolant", "gas", "gas_gap"} ]
StandardRoles == UNION { Compatible[m] : m \in DOMAIN Compatible }
CanonicalRole(m) == IF m = "gas" THEN "gas_gap" ELSE m

Correct(cell) ==
  LET m == materials[cell.material].role
  IN  IF m \in DOMAIN Compatible /\ cell.role \in StandardRoles \ Compatible[m]
      THEN CellOf(CanonicalRole(m), cell.material, cell.background)
      ELSE cell
Satellites == { u \in UniversesOf(required) : ItemOf(u).satellite }
Corrected(p) ==
  [ u \in DOMAIN p |->
      IF u \in Satellites THEN WithCells(p[u], { Correct(c) : c \in p[u].cells }) ELSE p[u] ]

(* A satellite with a radial layer goes into the only fuel pin without     *)
(* some role of its; or it does not, if its radii do not fit.  Of its      *)
(* cells, those named like one of the host's and moderators left without   *)
(* thickness are dropped.                                                  *)
Layers == {"gap", "gas_gap", "cladding", "clad"}
Hosts(p, s) ==
  { v \in DOMAIN p \ {s} : ItemOf(v).kind = "fuel_pin" /\ ~(RolesIn(p[s]) \subseteq RolesIn(p[v])) }
Absorbed(p, s, v, cells) ==
  [ u \in DOMAIN p \ {s} |-> IF u = v THEN WithCells(p[v], p[v].cells \cup cells) ELSE p[u] ]
Absorptions(p) ==
  {p} \cup
  UNION { { Absorbed(p, s, v, cells) : v \in { h \in Hosts(p, s) : Hosts(p, s) = {h} },
                                       cells \in SUBSET p[s].cells }
          : s \in { t \in Satellites \cap DOMAIN p : RolesIn(p[t]) \cap Layers # {} } }

(* A pin without a background gets the densest moderator, else coolant, it *)
(* does not use (of several, one).                                         *)
PinKinds == {"fuel_pin", "guide_tube", "instrument_tube"}
Fillings(f) ==
  LET unused == DOMAIN materials \ Cites(f)
      moderators == { id \in unused : materials[id].role = "moderator" }
  IN  IF moderators # {} THEN moderators
      ELSE { id \in unused : materials[id].role = "coolant" /\ materials[id].dense }
Filled(u, f) ==
  IF /\ ItemOf(u).kind \in PinKinds
     /\ \A cell \in f.cells : ~cell.background
     /\ Fillings(f) # {}
  THEN WithCells(f, f.cells \cup
                    {CellOf("background", CHOOSE id \in Fillings(f) : TRUE, TRUE)})
  ELSE f
WithBackgrounds(p) == [ u \in DOMAIN p |-> Filled(u, p[u]) ]

Normalised(p) == { WithBackgrounds(q) : q \in Absorptions(Corrected(Moderated(Stripped(p)))) }

-----------------------------------------------------------------------------
(* materialize_localized_insert_universe_aliases: every universe Facts     *)
(* expect of an insert is there, if need be as a copy of one that stands   *)
(* for the insert; in the copy for a gas plenum the absorber is gas.       *)
Sources(p, id) == required.expected[id] \cap DOMAIN p
AliasMissing(p) == \E id \in DOMAIN required.expected \ DOMAIN p : Sources(p, id) = {}

Gases(f) == { c.material : c \in { d \in f.cells : d.role \in {"gas_gap", "gas", "gap", "plenum"} } }
Plenum(f) ==
  LET filled(cell) == IF cell.role \in {"poison", "absorber"}
                      THEN CellOf("gas_gap", CHOOSE id \in Gases(f) : TRUE, cell.background)
                      ELSE cell
  IN  IF Gases(f) = {} THEN f ELSE WithCells(f, { filled(c) : c \in f.cells })
Alias(p, id) ==
  LET source == p[CHOOSE u \in Sources(p, id) : TRUE]
  IN  IF id \in required.plenums THEN Plenum(source) ELSE source
WithAliases(p) ==
  [ u \in DOMAIN p \cup DOMAIN required.expected |-> IF u \in DOMAIN p THEN p[u] ELSE Alias(p, u) ]

-----------------------------------------------------------------------------
Init ==
  /\ required \in RequirementSets /\ materials \in MaterialPatches
  /\ patch = Nothing
  /\ sessions = [ h \in Hashes |-> NewSession ]
  /\ phase = "idle" /\ position = 1 /\ attempt = 0 /\ verified = {}
  /\ revisions = 0
  /\ asked = FALSE /\ rejected = Nothing

Return == phase' = "idle" /\ position' = 1 /\ attempt' = 0 /\ verified' = {}

Fail(s) == Return /\ Save(s) /\ UNCHANGED << inputs, patch, history >>

(* The call count is only compared with the budget: it stops there.        *)
Charge(calls, n) == IF calls + n > MaxTotalCalls THEN MaxTotalCalls ELSE calls + n

(* A patch expected to be short is asked for in one piece, twice at most;  *)
(* it is returned as it came, or failed.                                   *)
ReturnWhole(p) ==
  /\ phase = "idle" /\ patch = Nothing /\ ~required.large
  /\ patch' = p
  /\ asked' = TRUE
  /\ UNCHANGED << inputs, sessions, pipeline, rejected >>

(* ... unless an answer was cut short.                                     *)
Truncated(n) ==
  /\ phase = "idle" /\ patch = Nothing /\ ~required.large
  /\ phase' = "manifest"
  /\ Save([ session EXCEPT !.calls = Charge(@, n) ])
  /\ asked' = TRUE
  /\ UNCHANGED << inputs, patch, position, attempt, verified, rejected >>

Fragment ==
  /\ phase = "idle" /\ patch = Nothing /\ required.large
  /\ phase' = "manifest"
  /\ UNCHANGED << inputs, patch, sessions, position, attempt, verified, history >>

-----------------------------------------------------------------------------
(* The manifest is built once per session.                                 *)
RefuseManifest ==
  /\ phase = "manifest"
  /\ ~session.manifest /\ ManifestErrors
  /\ Fail(session)

ManifestReady == phase = "manifest" /\ (session.manifest \/ ~ManifestErrors)

(* _preflight_material_role_coverage: no accepted material has the role.   *)
Uncovered == \E i \in DOMAIN required.items : ~Covers(DOMAIN materials, required.items[i])

RefuseCoverage ==
  /\ ManifestReady /\ Uncovered
  /\ Fail([ session EXCEPT !.manifest = TRUE ])

(* Only accepted fragments that do not qualify any more are downgraded.    *)
Resume ==
  /\ ManifestReady /\ ~Uncovered
  /\ verified' = Resumable(session)
  /\ Save(Downgrade([ session EXCEPT !.manifest = TRUE ],
                    TrustedAccepted(session) \ Resumable(session)))
  /\ phase' = "fragments"
  /\ UNCHANGED << inputs, patch, position, attempt, history >>

-----------------------------------------------------------------------------
InHand(u) == phase = "fragments" /\ position <= Len(Order) /\ u = Order[position]
Done(u) == session.status[u] = "accepted" /\ u \in verified

(* Mutant: the budget of calls is not looked at.                           *)
AttemptsLeft == attempt < MaxFragmentAttempts
MayCall == attempt < MaxFragmentAttempts /\ session.calls < MaxTotalCalls

Advance == position' = position + 1 /\ attempt' = 0

Keep(u) ==
  /\ InHand(u) /\ Done(u)
  /\ Advance
  /\ UNCHANGED << inputs, patch, sessions, phase, verified, history >>

(* A call of the model for one fragment, counted before it is made.        *)
CallModel(u) ==
  /\ InHand(u) /\ ~Done(u) /\ MayCall
  /\ asked' = TRUE
  /\ UNCHANGED << inputs, patch, phase, verified, rejected >>

AcceptAnswer(u, f) ==
  /\ CallModel(u)
  /\ Qualifies(f, ItemOf(u))
  /\ Save(Accept([ session EXCEPT !.calls = @ + 1 ], u, f))
  /\ Advance

(* The provider failed, the answer did not parse or does not qualify.      *)
RejectAnswer(u) ==
  /\ CallModel(u)
  /\ Save([ session EXCEPT !.calls = @ + 1, !.status[u] = "pending" ])
  /\ attempt' = attempt + 1
  /\ UNCHANGED position

(* Out of attempts or of calls: the oracle may construct the universe.     *)
Exhausted(u) == InHand(u) /\ ~Done(u) /\ ~MayCall
Constructed(u) ==
  /\ Proposal(ItemOf(u), materials) # Nothing
  /\ Qualifies(Proposal(ItemOf(u), materials), ItemOf(u))

Construct(u) ==
  /\ Exhausted(u) /\ Constructed(u)
  /\ Save(Accept(session, u, Proposal(ItemOf(u), materials)))
  /\ Advance
  /\ UNCHANGED << inputs, patch, phase, verified, history >>

(* Mutant: the failed fragment is tried again from the start.              *)
StartOver(u) ==
  /\ Exhausted(u) /\ ~Constructed(u)
  /\ position' = 1 /\ attempt' = 0
  /\ UNCHANGED << inputs, patch, sessions, phase, verified, history >>

FailFragment(u) ==
  /\ Exhausted(u) /\ ~Constructed(u)
  /\ Fail([ session EXCEPT !.status[u] = "failed" ])

-----------------------------------------------------------------------------
Merging == phase = "fragments" /\ position > Len(Order)

(* The merge of fragments it does not flag.  That it flags none is         *)
(* MergeIsClean below, so the replay of flagged ones is left out.  The     *)
(* patch is validated as merged, and again with its aliases.               *)
Unusable(p) == ~AliasMissing(p) => Defective(WithAliases(p))

RefuseMerge ==
  /\ Merging /\ Flagged(session) = {}
  /\ Defective(Merged(session)) \/ \E p \in Normalised(Merged(session)) : Unusable(p)
  /\ Fail(session)

ReturnMerged ==
  /\ Merging /\ Flagged(session) = {}
  /\ ~Defective(Merged(session))
  /\ \E p \in Normalised(Merged(session)) : ~Unusable(p) /\ patch' = WithAliases(p)
  /\ Save(session)
  /\ Return
  /\ UNCHANGED << inputs, history >>

Generate ==
  \/ \E p \in {Whole, Nothing} : ReturnWhole(p)
  \/ \E n \in 1..2 : Truncated(n)
  \/ Fragment

Step ==
  \/ RefuseManifest \/ RefuseCoverage \/ Resume
  \/ \E u \in Universes :
       \/ Keep(u) \/ RejectAnswer(u) \/ Construct(u) \/ FailFragment(u)
       \/ \E f \in Fragments : AcceptAnswer(u, f)
  \/ RefuseMerge \/ ReturnMerged

-----------------------------------------------------------------------------
(* Between generations.  Assembly or plan validation finds the patch at    *)
(* fault: it is invalidated to be generated again.                         *)
Reject ==
  /\ phase = "idle" /\ patch # Nothing
  /\ patch' = Nothing
  /\ rejected' = patch /\ asked' = FALSE
  /\ UNCHANGED << inputs, sessions, pipeline >>

(* Other materials, or other Facts and materials, are accepted; the        *)
(* universes patch depends on both.  Sessions stay, whatever their hash.   *)
Revise(r, m) ==
  /\ phase = "idle" /\ revisions < MaxRevisions
  /\ << r, m >> # << required, materials >>
  /\ required' = r /\ materials' = m /\ patch' = Nothing
  /\ revisions' = revisions + 1
  /\ asked' = FALSE /\ rejected' = Nothing
  /\ UNCHANGED << sessions, pipeline >>

Next ==
  \/ Generate \/ Step \/ Reject
  \/ \E r \in RequirementSets, m \in MaterialPatches : Revise(r, m)

Spec == Init /\ [][Next]_vars /\ WF_vars(Step)

-----------------------------------------------------------------------------
Session ==
  [ manifest : BOOLEAN, calls : 0..MaxTotalCalls,
    status : [ Universes -> {"pending", "failed", "accepted"} ],
    accepted : [ Universes -> Fragments \cup {Nothing} ],
    hashes : [ Universes -> Fragments \cup {Nothing} ] ]

(* Type invariant; among the types, that no session is charged more calls  *)
(* than max_total_llm_calls by the calls it makes for fragments.           *)
TypeOK ==
  /\ required \in RequirementSets /\ materials \in MaterialPatches
  /\ sessions \in [ Hashes -> Session ]
  /\ phase \in {"idle", "manifest", "fragments"}
  /\ position \in 1..(Len(Order) + 1) /\ attempt \in 0..MaxFragmentAttempts
  /\ verified \subseteq Universes
  /\ revisions \in 0..MaxRevisions /\ asked \in BOOLEAN

(* Through failures, downgrades and resumes, a session has a record and a  *)
(* hash for exactly the fragments it calls accepted, and they agree        *)
(* (LargePatchGenerationSession: "the two MUST stay in sync").             *)
AcceptedIsBacked ==
  \A h \in Hashes, u \in Universes :
    /\ sessions[h].status[u] = "accepted" <=> sessions[h].accepted[u] # Nothing
    /\ sessions[h].hashes[u] = sessions[h].accepted[u]

(* What qualification asked of a universe and later corrections must not   *)
(* lose: its cell roles, the roles of its materials but for the water the  *)
(* corrections choose, and, where no satellite can have been taken in,     *)
(* fuel of its variant alone.                                              *)
Fulfils(f, item) ==
  /\ item.cells \subseteq RolesIn(f)
  /\ \A role \in item.roles \ {"coolant", "moderator"} :
       \E actual \in Roles(Cites(f)) : Satisfies(actual, role)
  /\ item.variant # Nothing /\ Satellites = {} =>
       \A cell \in f.cells :
         cell.role = "fuel" /\ materials[cell.material].role = "fuel"
           => materials[cell.material].variant \in {Nothing, item.variant}

(* Whatever session it was merged from, whichever inputs that session was  *)
(* filled under, and whatever was dropped, merged, rewritten and copied    *)
(* since: a valid patch has each required universe that is neither a       *)
(* satellite nor a poison Facts do not declare, it does what its item      *)
(* asks under the materials now accepted, each universe Facts expect of an *)
(* insert is there, and no cell cites a material that is not accepted.     *)
PatchQualifies ==
  patch \notin {Nothing, Whole} =>
    /\ \A u \in UniversesOf(required) \ Satellites :
         ~Spurious(u) => u \in DOMAIN patch /\ Fulfils(patch[u], ItemOf(u))
    /\ DOMAIN required.expected \subseteq DOMAIN patch
    /\ \A u \in DOMAIN patch : Cites(patch[u]) \subseteq DOMAIN materials

(* The merge never finds a fragment to flag: what it checks again has been *)
(* checked, under the same materials, by qualification or on resume.       *)
MergeIsClean == Merging => Flagged(session) = {}

(* A fragment that qualifies under the present inputs is never dropped nor *)
(* generated again, whatever happens to the others (universe fragment      *)
(* transaction: one failure never invalidates another fragment).           *)
SoundFragmentsKept ==
  [][\A u \in Universes :
       session.accepted[u] # Nothing /\ Qualifies(session.accepted[u], ItemOf(u))
         => sessions'[Current].accepted[u] = session.accepted[u]]_vars

(* A generation returns, however often the model fails.                    *)
GenerationReturns == (phase # "idle") ~> (phase = "idle")

(* A patch that was rejected is not returned again unasked: its            *)
(* regeneration calls the model at least once.  It does not hold.          *)
RejectedIsRegenerated == (patch # Nothing /\ patch = rejected) => asked

=============================================================================
