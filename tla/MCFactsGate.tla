----------------------------- MODULE MCFactsGate -----------------------------
(***************************************************************************)
(* Instances of FactsGate for TLC.  Of three facts patches the first       *)
(* breaks the feature contract, the second the skeleton, and the third is  *)
(* sound.  The reviewer can report a gap and a slip, which a model may     *)
(* repair, and a doubt, which a human must settle.                         *)
(***************************************************************************)
EXTENDS FactsGate, TLC

CONSTANTS misscoped, unfilled, sound, none, breach, gap, slip, doubt

MCContract == misscoped :> {breach} @@ unfilled :> {} @@ sound :> {}
MCSkeleton == misscoped :> {} @@ unfilled :> {breach} @@ sound :> {}

Config(mode, investigation, reviewer, reviser, human) ==
  [ mode |-> mode, investigation |-> investigation, reviewer |-> reviewer,
    reviser |-> reviser, human |-> human ]
(* Advisory runs with and without a reviewer; controlled runs with all     *)
(* that can be configured, without a reviser and with less investigation,  *)
(* and without a reviewer.                                                 *)
MCConfigs ==
  { Config("advisory", "off", TRUE, TRUE, FALSE),
    Config("advisory", "advisory", FALSE, TRUE, FALSE),
    Config("controlled", "controlled", TRUE, TRUE, TRUE),
    Config("controlled", "advisory", TRUE, FALSE, TRUE),
    Config("controlled", "off", TRUE, FALSE, FALSE),
    Config("controlled", "off", FALSE, TRUE, TRUE) }

=============================================================================
