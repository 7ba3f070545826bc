------------------------- MODULE RetryRefinement -------------------------
(***************************************************************************)
(* RetryController implements RetryLedger: a patch's version is the hash   *)
(* of its valid envelope, a request is open while it is on the pending     *)
(* list, and in hand from its compiled plan to its commit.                 *)
(***************************************************************************)
EXTENDS RetryController

InHand == pc \in { "check", "accept" }

Version == [ p \in PatchTypes |-> HashOf(p) ]
Defects == [ id \in Ids |-> Fingerprint(requests[id]) ]
Hand == IF InHand THEN loop.request ELSE 0
Phase == IF pc = "check" THEN "taken" ELSE IF pc = "accept" THEN "tried" ELSE "idle"

Ledger == INSTANCE RetryLedger WITH
  Patches <- PatchTypes, None <- NoContent, Revisable <- {"facts"} \cap ReviewGates,
  Limit <- Budget,
  version <- Version, issued <- Defects, open <- pending,
  hand <- Hand, phase <- Phase, tries <- attempts

(* The loop and the planner around it keep the promise of the ledger:      *)
(* whatever requests are registered, refused, failed, rolled back or       *)
(* registered again, a patch is replaced only by the one request in hand,  *)
(* in exchange for the contents it was made about and for a counted        *)
(* attempt below the limit.                                                *)
ImplementsLedger == Ledger!Spec

=============================================================================
