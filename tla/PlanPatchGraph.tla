--------------------------- MODULE PlanPatchGraph ---------------------------
(***************************************************************************)
(* The typed dependency graph between the incremental plan patches         *)
(* (plan_builder/dependency_graph.py) and the assignment of patch types to *)
(* review gates (plan_builder/closed_loop/policy.py).                      *)
(*                                                                         *)
(* Everything here is a constant of the program: which patch is generated  *)
(* from which, what a change of one patch makes stale, and which gates     *)
(* must look again.  The closures are given by their meaning (least        *)
(* closed sets); PatchGraphWalk models the worklist and the Kahn sort that *)
(* compute them in the code.                                               *)
(***************************************************************************)
EXTENDS Integers, Sequences, FiniteSets

(* The fixed patch order, the key of every "stable" sort in the code.      *)
Order == << "facts", "materials", "universes", "localized_insert_profiles",
            "base_path_axial_profiles", "pin_map", "assembly_catalog",
            "axial_layers", "axial_overlays", "core_layout", "settings" >>

PatchTypes == { Order[i] : i \in 1..Len(Order) }

(* dependencies_of: the patches a patch is generated from.                 *)
Dependencies ==
  [ facts                     |-> {},
    materials                 |-> {"facts"},
    universes                 |-> {"facts", "materials"},
    localized_insert_profiles |-> {"facts", "universes"},
    base_path_axial_profiles  |-> {"facts", "universes"},
    pin_map                   |-> {"facts", "universes", "localized_insert_profiles"},
    assembly_catalog          |-> {"facts", "universes", "localized_insert_profiles"},
    axial_layers              |-> {"facts", "pin_map", "assembly_catalog"},
    axial_overlays            |-> {"facts", "materials", "axial_layers", "assembly_catalog"},
    core_layout               |-> {"facts", "assembly_catalog"},
    settings                  |-> {"facts"} ]

(* dependents_of: the patches generated directly from patch type p.        *)
Dependents(p) == { q \in PatchTypes : p \in Dependencies[q] }

(* A set of patch types that contains whatever is generated from it.       *)
Closed(S) == \A p \in S : Dependents(p) \subseteq S

ClosedSets == { S \in SUBSET PatchTypes : Closed(S) }

(* The least closed set around each patch type.                            *)
DependentClosure ==
  [ p \in PatchTypes |->
      { q \in PatchTypes : \A S \in ClosedSets : p \in S => q \in S } ]

(* Mutant: the direct dependents only.                                     *)
DirectDependents(S) == S \cup UNION { Dependents(p) : p \in S }

(* transitive_dependents: what a change of the patch types in S makes      *)
(* stale, the seeds included.                                              *)
TransitiveDependents(S) == UNION { DependentClosure[p] : p \in S }

Gates == { "facts", "material_universe", "placement", "axial_geometry",
           "assembled_plan" }

(* _GATES: the patch types a gate reviews.  The assembled-plan gate is     *)
(* derived and owns none; the settings patch has no gate.                  *)
GatePatchTypes ==
  [ facts             |-> {"facts"},
    material_universe |-> {"materials", "universes"},
    placement         |-> {"localized_insert_profiles", "pin_map",
                           "assembly_catalog", "core_layout"},
    axial_geometry    |-> {"base_path_axial_profiles", "axial_layers",
                           "axial_overlays"},
    assembled_plan    |-> {} ]

(* Mutant: the derived gate is forgotten.                                  *)
GatesReviewing(S) == { g \in Gates : GatePatchTypes[g] \cap S # {} }

(* gates_affected_by_patch_types: the gates of the changed patches, and    *)
(* always the assembled-plan gate.                                         *)
GatesAffectedBy(S) ==
  { g \in Gates : GatePatchTypes[g] \cap S # {} } \cup {"assembled_plan"}

Position(p) == CHOOSE i \in 1..Len(Order) : Order[i] = p

(* Those of S that come before p.                                          *)
Before(S, p) == { q \in S : Position(q) < Position(p) }

(* The patches of S in the fixed order.                                    *)
InOrder(S) ==
  [ i \in 1..Cardinality(S) |-> CHOOSE p \in S : Cardinality(Before(S, p)) = i - 1 ]

=============================================================================
