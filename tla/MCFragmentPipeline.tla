------------------------- MODULE MCFragmentPipeline -------------------------
(***************************************************************************)
(* Instances of FragmentPipeline for TLC.  An assembly has a fuel pin and  *)
(* a poison insert with a gas plenum, from an inventory.  A pin cell has,  *)
(* read off Facts, a fuel pin, its gap as a satellite and an insert Facts  *)
(* do not declare.  Both are large enough to be fragmented.  A third set   *)
(* names one universe twice; a fourth, short unless it is cut, expects a   *)
(* plenum of an insert of another kind than it has.                        *)
(***************************************************************************)
EXTENDS FragmentPipeline, TLC

CONSTANTS nothing, whole

Item(u, kind, cells, roles, variant) ==
  [ universe |-> u, kind |-> kind, satellite |-> u = "implicit_gap",
    cells |-> cells, roles |-> roles, variant |-> variant ]
FuelItem == Item("u_fuel", "fuel_pin", {"fuel"}, {"fuel"}, "v1")
InsertItem == Item("u_insert", "pyrex_rod", {}, {"poison"}, nothing)
GapItem == Item("implicit_gap", "other", {"gas_gap"}, {"structural"}, nothing)

Requirements(items, inventory, large, declared, expected) ==
  [ items |-> items, inventory |-> inventory, large |-> large, declared |-> declared,
    expected |-> expected, plenums |-> DOMAIN expected ]
Assembly ==
  Requirements(<< FuelItem, InsertItem >>, TRUE, TRUE, {"pyrex_rod"}, "u_plenum" :> {"u_insert"})
PinCell == Requirements(<< FuelItem, GapItem, InsertItem >>, FALSE, TRUE, {}, << >>)
TwoPins == Requirements(<< FuelItem, FuelItem >>, TRUE, TRUE, {}, << >>)
OtherKind ==
  Requirements(<< InsertItem >>, TRUE, FALSE, {"waba_rod"}, "u_plenum" :> {"u_insert"})
MCRequirements == {Assembly, PinCell, TwoPins, OtherKind}

Material(role, variant) ==
  [ role |-> role, variant |-> variant, selected |-> FALSE, dense |-> role # "gas" ]
Steel == Material("structural", nothing)
Pyrex == Material("poison", nothing)
Hafnium == Material("absorber", nothing)
Fluids == "h" :> Material("gas", nothing) @@ "x" :> Material("coolant", nothing)
          @@ "w" :> [ Material("moderator", nothing) EXCEPT !.selected = TRUE ]
(* The second differs from the first in the roles and the variant behind   *)
(* the same ids, the third renames the poison and has no steel.            *)
MCMaterials ==
  { "f" :> Material("fuel", "v1") @@ "p" :> Pyrex @@ "s" :> Steel @@ Fluids,
    "f" :> Material("fuel", "v2") @@ "p" :> Steel @@ "s" :> Hafnium @@ Fluids,
    "f" :> Material("fuel", "v1") @@ "q" :> Pyrex @@ Fluids }

Of(cells) == [ sound |-> TRUE, cells |-> cells ]
Solid(role, id) == CellOf(role, id, FALSE)
Fuel == Solid("fuel", "f")
Gap == Solid("gas_gap", "h")
(* Fuel in the wrong water; an insert of each poison, of one with and      *)
(* without the gas for a plenum; a gap with its cladding named like it;    *)
(* unsound fuel.                                                           *)
MCFragments ==
  { Of({Fuel, CellOf("background", "x", TRUE)}),
    Of({Solid("poison", "p"), Gap}), Of({Solid("poison", "p")}), Of({Solid("poison", "q")}),
    Of({Gap, Solid("gas_gap", "s")}),
    [ Of({Fuel}) EXCEPT !.sound = FALSE ] }

(* The oracle builds the insert of the first poison it can bind.           *)
MCProposal(item, ms) ==
  CASE item.universe = "u_insert" /\ "q" \in DOMAIN ms -> Of({Solid("poison", "q")})
    [] OTHER -> nothing

(* The validator refuses the insert of q, and poison in a plenum: what an  *)
(* insert without gas leaves there.                                        *)
MCDefective(p) ==
  \/ "u_insert" \in DOMAIN p /\ p["u_insert"] = Of({Solid("poison", "q")})
  \/ "u_plenum" \in DOMAIN p /\ "poison" \in RolesIn(p["u_plenum"])

=============================================================================
