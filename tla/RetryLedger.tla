--------------------------- MODULE RetryLedger ---------------------------
(***************************************************************************)
(* What the dependency-retry loop promises its callers, without owner      *)
(* policies, gates, modes, rounds or producers.                            *)
(*                                                                         *)
(* A request is a compare-and-swap on the patches that own a defect.  It   *)
(* is opened on the versions there are, and not twice while it is open.    *)
(* One request at a time is taken in hand, only while it is open, its      *)
(* defect has attempts left and no owner it recorded was touched since.    *)
(* While one is in hand nothing else writes a patch.  A swap is paid for   *)
(* by a counted attempt and ends the hold; a patch nobody's request is     *)
(* about is at most dropped, or revised by its own gate between requests.  *)
(* A closed request is never opened again.                                 *)
(***************************************************************************)
EXTENDS Integers, Sequences, FiniteSets

CONSTANTS
  Patches,   \* what a request can own
  None,      \* the version of a patch that is not valid
  Revisable, \* the patches their own gate may replace between two requests
  Limit      \* the attempts on one defect

VARIABLES
  version,   \* patch -> its version
  issued,    \* the defect of every request, in the order they were opened
  open,      \* the requests that are not finished
  hand,      \* the request in hand, 0 if there is none
  phase,     \* "idle", "taken" or, once its attempt is counted, "tried"
  tries      \* defect -> the attempts on it

ledger == << version, issued, open, hand, phase, tries >>

Init ==
  /\ version = [ p \in Patches |-> None ]
  /\ issued = << >> /\ open = {}
  /\ hand = 0 /\ phase = "idle"
  /\ tries = << >>

TriesOf(d) == IF d \in DOMAIN tries THEN tries[d] ELSE 0

(* A swap would replace what the defect was found in, as far as there was  *)
(* anything to find it in.                                                 *)
Current(d) == \A p \in DOMAIN d.hashes : d.hashes[p] \in { None, version[p] }

(* The request stays open or is finished.                                  *)
KeepOrClose(id) == open' \in { open, open \ {id} }

(* The planner adds a patch where there is none, drops patches or revises  *)
(* a revisable one.                                                        *)
Edit ==
  /\ phase = "idle"
  /\ DOMAIN version' = Patches
  /\ \A p \in Patches \ Revisable :
       version[p] # None => version'[p] \in { None, version[p] }
  /\ UNCHANGED << issued, open, hand, phase, tries >>

(* A defect not open already is found in the versions there are.           *)
Open(d) ==
  /\ phase = "idle"
  /\ issued' = Append(issued, d)
  /\ \A p \in DOMAIN d.hashes : d.hashes[p] = version[p]
  /\ \A id \in open : issued[id] # d
  /\ open' = open \cup { Len(issued') }
  /\ UNCHANGED << version, hand, phase, tries >>

OpenSome == \E i \in DOMAIN issued' : Open(issued'[i])

Close(id) ==
  /\ phase = "idle" /\ id \in open
  /\ open' = open \ {id}
  /\ UNCHANGED << version, issued, hand, phase, tries >>

Take(id) ==
  /\ phase = "idle" /\ id \in open
  /\ Current(issued[id]) /\ TriesOf(issued[id]) < Limit
  /\ hand' = id /\ phase' = "taken"
  /\ KeepOrClose(id)
  /\ UNCHANGED << version, issued, tries >>

LetGo == hand' = 0 /\ phase' = "idle"

Try ==
  /\ phase = "taken"
  /\ tries' = [ d \in DOMAIN tries \cup {issued[hand]} |->
                  IF d = issued[hand] THEN TriesOf(d) + 1 ELSE tries[d] ]
  /\ \/ phase' = "tried" /\ UNCHANGED << hand, open >>
     \/ LetGo /\ open' = open \ {hand}
  /\ UNCHANGED << version, issued >>

GiveUp ==
  /\ phase = "tried"
  /\ LetGo /\ KeepOrClose(hand)
  /\ UNCHANGED << version, issued, tries >>

Swap ==
  LET d == issued[hand]
  IN  /\ phase = "tried" /\ Current(d)
      /\ DOMAIN version' = Patches
      /\ \A p \in DOMAIN d.hashes : version'[p] # None
      /\ \A p \in Patches \ DOMAIN d.hashes : version'[p] \in { None, version[p] }
      /\ LetGo /\ KeepOrClose(hand)
      /\ UNCHANGED << issued, tries >>

Next == Edit \/ OpenSome \/ (\E id \in open : Close(id) \/ Take(id)) \/ Try \/ GiveUp \/ Swap

Spec == Init /\ [][Next]_ledger

=============================================================================
