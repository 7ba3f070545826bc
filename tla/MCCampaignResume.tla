-------------------------- MODULE MCCampaignResume --------------------------
(***************************************************************************)
(* Instances of CampaignResume for TLC: three configurations, of which the *)
(* first two differ in nothing a snapshot's hashes cover (another model,   *)
(* say) and the third has another requirement.                             *)
(***************************************************************************)
EXTENDS CampaignResume, TLC

CONSTANTS base, otherModel, otherInput, noconfig

ThreeConfigs == {base, otherModel, otherInput}
TwoConfigs == {base, otherInput}
TwoInputs == base :> 1 @@ otherModel :> 1 @@ otherInput :> 2
InputsOfTwo == base :> 1 @@ otherInput :> 2

=============================================================================
