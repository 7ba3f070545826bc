------------------------- MODULE MCRetryController -------------------------
(***************************************************************************)
(* Instances of RetryController for TLC.  The reasons are issue codes of   *)
(* closed_loop/retry_owner_policy.py, axial_geometry_issue_policy.py and   *)
(* assembled_plan_issue_policy.py with the owners, the action and the      *)
(* priority they get there.                                                *)
(***************************************************************************)
EXTENDS RetryRefinement, TLC

CONSTANTS a, b, nothing, planA, planB, noplan

Regenerate(owners, priority) ==
  [ owners |-> owners, action |-> "regenerate", supported |-> TRUE,
    human |-> FALSE, priority |-> priority ]

Codes ==
     "material_universe.required_fuel_variant_missing" :> Regenerate(<<"facts">>, 10)
  @@ "material_universe.required_material_missing"     :> Regenerate(<<"materials">>, 20)
  @@ "localized_insert.required_universe_missing"      :> Regenerate(<<"universes">>, 30)
  @@ "materials.execution_density_required"            :> Regenerate(<<"materials">>, 20)
  @@ "assembled.renderer_capability_mismatch"          :>
       Regenerate(<<"axial_layers", "axial_overlays">>, 60)
  @@ "axial.required_patch_omitted"                    :>
       [ owners |-> << >>, action |-> "recompute", supported |-> TRUE,
         human |-> FALSE, priority |-> 30 ]
  @@ "inventory.hash_mismatch"                         :>
       [ owners |-> << >>, action |-> "fail_closed", supported |-> FALSE,
         human |-> FALSE, priority |-> 90 ]
  @@ "facts.control_state_contract_missing"            :>
       [ Regenerate(<<"facts">>, 10) EXCEPT !.human = TRUE ]

PolicyOf(codes) == [ code \in codes |-> Codes[code] ]

(* The task plan's hash covers the facts it was built from.                *)
PlanOf(contents) == [ c \in contents \cup {nothing} |-> IF c = b THEN planB ELSE planA ]

-----------------------------------------------------------------------------
(* A single-assembly plan up to its pin map, with the gates that retry     *)
(* facts, materials and universes.                                         *)
PinRequired == {"facts", "materials", "universes", "pin_map"}
PinContents == [ facts |-> {a, b}, materials |-> {a, b}, universes |-> {a}, pin_map |-> {a} ]
PinMuReasons == { "material_universe.required_fuel_variant_missing",
                  "material_universe.required_material_missing" }
PinReasons == PinMuReasons \cup {"localized_insert.required_universe_missing"}
PinPolicy == PolicyOf(PinReasons)
PinGates == {"facts", "material_universe", "placement"}
PinGateReasons == [ facts             |-> {},
                    material_universe |-> PinMuReasons,
                    placement         |-> {"localized_insert.required_universe_missing"} ]
TwoPlans == PlanOf({a, b})
OnePlan  == PlanOf({a})

(* A plan with axial geometry, assembled and reviewed as a whole:          *)
(* materials without a density, an owner pair from the renderer, and       *)
(* requests posted directly: unsupported, for a human, for a recompute or  *)
(* for materials, maybe before there are any.                              *)
AxialRequired == {"facts", "materials", "universes", "axial_layers", "axial_overlays"}
AxialContents == [ p \in AxialRequired |-> {a} ]
AxialPosted == { "inventory.hash_mismatch", "facts.control_state_contract_missing",
                 "axial.required_patch_omitted", "materials.execution_density_required" }
AssembledGateReasons == {"assembled.renderer_capability_mismatch"}
AxialReasons == AssembledGateReasons \cup AxialPosted
AxialPolicy == PolicyOf(AxialReasons)
AxialGates == {"facts", "axial_geometry", "assembled_plan"}
AxialReasonsOf == [ facts          |-> {},
                    axial_geometry |-> {},
                    assembled_plan |-> AssembledGateReasons ]

=============================================================================
