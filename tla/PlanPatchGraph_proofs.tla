----------------------- MODULE PlanPatchGraph_proofs -----------------------
(***************************************************************************)
(* What the invalidation of dependents rests on: the closure of the patch  *)
(* graph contains its seeds, is closed, is idempotent, and never reaches   *)
(* back to what a patch was generated from.                                *)
(***************************************************************************)
EXTENDS PlanPatchGraph, TLAPS

LEMMA PatchTypesIs ==
  PatchTypes = { "facts", "materials", "universes", "localized_insert_profiles",
                 "base_path_axial_profiles", "pin_map", "assembly_catalog",
                 "axial_layers", "axial_overlays", "core_layout", "settings" }
PROOF
<1>1. Len(Order) = 11
  BY DEF Order
<1>2. \A i \in 1..11 : i = 1 \/ i = 2 \/ i = 3 \/ i = 4 \/ i = 5 \/ i = 6
                    \/ i = 7 \/ i = 8 \/ i = 9 \/ i = 10 \/ i = 11
  OBVIOUS
<1>3. QED
  BY <1>1, <1>2, SMTT(60) DEF PatchTypes, Order

LEMMA DependentsType == \A p \in PatchTypes : Dependents(p) \subseteq PatchTypes
PROOF BY DEF Dependents

(* The whole set of patch types is closed, so every closure is inside it.  *)
LEMMA ClosureType == \A p \in PatchTypes : DependentClosure[p] \subseteq PatchTypes
PROOF BY DEF DependentClosure

(* A patch is in its own closure.                                          *)
LEMMA ClosureContainsSeed == \A p \in PatchTypes : p \in DependentClosure[p]
PROOF BY DEF DependentClosure

(* What is generated from a member of a closure is a member of it.         *)
LEMMA ClosureIsClosed ==
  ASSUME NEW p \in PatchTypes, NEW q \in DependentClosure[p], NEW r \in Dependents(q)
  PROVE  r \in DependentClosure[p]
PROOF
<1>1. q \in PatchTypes /\ \A S \in ClosedSets : p \in S => q \in S
  BY DEF DependentClosure
<1>2. r \in PatchTypes
  BY <1>1, DependentsType
<1>3. ASSUME NEW S \in ClosedSets, p \in S
      PROVE  r \in S
  BY <1>1, <1>3 DEF ClosedSets, Closed
<1>4. QED
  BY <1>2, <1>3 DEF DependentClosure

(* A closure contains the closures of its members.                         *)
LEMMA ClosureIsTransitive ==
  ASSUME NEW p \in PatchTypes, NEW q \in DependentClosure[p]
  PROVE  DependentClosure[q] \subseteq DependentClosure[p]
PROOF
<1>1. q \in PatchTypes
  BY ClosureType
<1>2. DependentClosure[p] \in ClosedSets
  BY ClosureType, ClosureIsClosed DEF ClosedSets, Closed
<1>3. ASSUME NEW r \in DependentClosure[q]
      PROVE  r \in DependentClosure[p]
  BY <1>1, <1>2 DEF DependentClosure
<1>4. QED
  BY <1>3

-----------------------------------------------------------------------------
(* The position of a patch type in the fixed order; every dependency comes *)
(* earlier.                                                                *)
Rank == [ facts |-> 1, materials |-> 2, universes |-> 3,
          localized_insert_profiles |-> 4, base_path_axial_profiles |-> 5,
          pin_map |-> 6, assembly_catalog |-> 7, axial_layers |-> 8,
          axial_overlays |-> 9, core_layout |-> 10, settings |-> 11 ]

LEMMA RankType == Rank \in [PatchTypes -> 1..11]
PROOF BY PatchTypesIs, SMTT(60) DEF Rank

LEMMA DependenciesComeEarlier ==
  \A p \in PatchTypes : \A d \in Dependencies[p] : d \in PatchTypes /\ Rank[d] < Rank[p]
PROOF BY PatchTypesIs, SMTT(60) DEF Dependencies, Rank

(* The graph has no cycle: the dependencies of a patch are not among what  *)
(* a change of it makes stale.                                             *)
THEOREM ClosureIsAcyclic ==
  ASSUME NEW p \in PatchTypes, NEW d \in Dependencies[p]
  PROVE  d \notin DependentClosure[p]
PROOF
<1> DEFINE S == { q \in PatchTypes : Rank[q] >= Rank[p] }
<1>1. ASSUME NEW q \in S, NEW r \in Dependents(q)
      PROVE  r \in S
  <2>1. r \in PatchTypes /\ q \in Dependencies[r] /\ q \in PatchTypes
    BY DEF Dependents
  <2>2. Rank[q] < Rank[r]
    BY <2>1, DependenciesComeEarlier
  <2>3. Rank[p] \in Int /\ Rank[q] \in Int /\ Rank[r] \in Int
    BY <2>1, RankType
  <2>4. QED
    BY <2>1, <2>2, <2>3
<1>2. S \in ClosedSets
  BY <1>1 DEF ClosedSets, Closed
<1>3. p \in S
  BY RankType
<1>4. d \notin S
  <2>1. d \in PatchTypes /\ Rank[d] < Rank[p]
    BY DependenciesComeEarlier
  <2>2. QED
    BY <2>1, RankType
<1>5. QED
  BY <1>2, <1>3, <1>4 DEF DependentClosure

-----------------------------------------------------------------------------
(* The closures of sets.                                                   *)
LEMMA TransitiveType ==
  \A S \in SUBSET PatchTypes : S \subseteq TransitiveDependents(S)
                               /\ TransitiveDependents(S) \subseteq PatchTypes
PROOF BY ClosureType, ClosureContainsSeed DEF TransitiveDependents

LEMMA TransitiveIsClosed ==
  ASSUME NEW S \in SUBSET PatchTypes, NEW q \in TransitiveDependents(S)
  PROVE  /\ TransitiveDependents({q}) \subseteq TransitiveDependents(S)
         /\ \A r \in PatchTypes : q \in Dependencies[r] => r \in TransitiveDependents(S)
PROOF
<1>1. PICK p \in S : q \in DependentClosure[p]
  BY DEF TransitiveDependents
<1>2. p \in PatchTypes /\ q \in PatchTypes
  BY <1>1, ClosureType
<1>3. DependentClosure[q] \subseteq DependentClosure[p]
  BY <1>1, <1>2, ClosureIsTransitive
<1>4. TransitiveDependents({q}) \subseteq TransitiveDependents(S)
  BY <1>1, <1>3 DEF TransitiveDependents
<1>5. ASSUME NEW r \in PatchTypes, q \in Dependencies[r]
      PROVE  r \in TransitiveDependents(S)
  <2>1. r \in Dependents(q)
    BY <1>5 DEF Dependents
  <2>2. r \in DependentClosure[p]
    BY <1>1, <1>2, <2>1, ClosureIsClosed
  <2>3. QED
    BY <1>1, <2>2 DEF TransitiveDependents
<1>6. QED
  BY <1>4, <1>5

-----------------------------------------------------------------------------
(* Everything is generated from the facts.                                 *)
LEMMA FactsFirst ==
  /\ Dependencies["facts"] = {}
  /\ \A p \in PatchTypes \ {"facts"} : "facts" \in Dependencies[p]
PROOF BY PatchTypesIs, SMTT(60) DEF Dependencies

LEMMA OrderOfRank ==
  /\ Len(Order) = 11
  /\ \A p \in PatchTypes : Order[Rank[p]] = p
PROOF
<1>1. Len(Order) = 11
  BY DEF Order
<1>2. \A p \in PatchTypes : Order[Rank[p]] = p
  BY PatchTypesIs, SMTT(60) DEF Order, Rank
<1>3. QED
  BY <1>1, <1>2

=============================================================================
