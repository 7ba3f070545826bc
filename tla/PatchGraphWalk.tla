--------------------------- MODULE PatchGraphWalk ---------------------------
(***************************************************************************)
(* The two traversals of the patch graph, step by step as the code walks   *)
(* it: the worklist of transitive_dependents and the Kahn sort of          *)
(* topological_order (plan_builder/dependency_graph.py).  Each behaviour   *)
(* is one call: Init chooses the operation and its argument, Next takes    *)
(* one turn of its loop.                                                   *)
(***************************************************************************)
EXTENDS PlanPatchGraph, FiniteSets, SequencesExt

VARIABLES op,        \* "closure" or "sort": the call being evaluated
          arg,       \* its argument, as a set of patch types
          queue,     \* closure: the deque; sort: the ready list
          wanted,    \* closure: the patch types reached so far
          indegree,  \* sort: unsatisfied dependencies of each selected node
          ordered,   \* sort: the nodes emitted so far
          status     \* "running", "done" or "error" (ValueError raised)

vars == << op, arg, queue, wanted, indegree, ordered, status >>

Selected(p) == Dependencies[p] \cap arg

(* The seeds reach transitive_dependents in any order a caller lists them; *)
(* the canonical order and its reverse stand for all of them.              *)
StartClosure ==
  /\ op = "closure"
  /\ wanted = arg
  /\ queue \in { InOrder(arg), Reverse(InOrder(arg)) }
  /\ indegree = << >>

StartSort ==
  /\ op = "sort"
  /\ wanted = {}
  /\ indegree = [ p \in arg |-> Cardinality(Selected(p)) ]
  /\ queue = InOrder({ p \in arg : indegree[p] = 0 })

Init ==
  /\ arg \in SUBSET PatchTypes
  /\ StartClosure \/ StartSort
  /\ ordered = << >>
  /\ status = "running"

(* Mutants: new nodes are never expanded; the head is never taken off.     *)
PopUnexpanded ==
  /\ op = "closure" /\ status = "running" /\ queue # << >>
  /\ wanted' = wanted \cup Dependents(Head(queue))
  /\ queue' = Tail(queue)
  /\ UNCHANGED << op, arg, indegree, ordered, status >>
PeekWorklist ==
  /\ op = "closure" /\ status = "running" /\ queue # << >>
  /\ LET new == Dependents(Head(queue)) \ wanted
     IN  /\ wanted' = wanted \cup new
         /\ queue' = queue \o InOrder(new)
  /\ UNCHANGED << op, arg, indegree, ordered, status >>

(* One turn of the worklist: the popped node's dependents that are new are *)
(* added and queued.                                                       *)
PopWorklist ==
  /\ op = "closure" /\ status = "running" /\ queue # << >>
  /\ LET new == Dependents(Head(queue)) \ wanted
     IN  /\ wanted' = wanted \cup new
         /\ queue' = Tail(queue) \o InOrder(new)
  /\ UNCHANGED << op, arg, indegree, ordered, status >>

(* Mutant: the ready list keeps the order of the appends.                  *)
Unsorted(s) == s

(* The ready list is kept sorted by the fixed order, after each append.    *)
Resort(s) == InOrder(ToSet(s))

(* One turn of the Kahn loop: the first ready node is emitted, and the     *)
(* nodes it was the last open dependency of become ready.                  *)
EmitReady ==
  /\ op = "sort" /\ status = "running" /\ queue # << >>
  /\ LET node  == Head(queue)
         outs  == { p \in arg : node \in Dependencies[p] }
         freed == { p \in outs : indegree[p] = 1 }
     IN  /\ ordered' = Append(ordered, node)
         /\ indegree' = [ p \in arg |-> IF p \in outs THEN indegree[p] - 1
                                                      ELSE indegree[p] ]
         /\ queue' = Resort(Tail(queue) \o InOrder(freed))
  /\ UNCHANGED << op, arg, wanted, status >>

(* The loop is over; the sort checks that it emitted every node.           *)
Finish ==
  /\ status = "running" /\ queue = << >>
  /\ status' = IF op = "sort" /\ Len(ordered) # Cardinality(arg)
               THEN "error" ELSE "done"
  /\ UNCHANGED << op, arg, queue, wanted, indegree, ordered >>

Next == PopWorklist \/ EmitReady \/ Finish

Spec == Init /\ [][Next]_vars /\ WF_vars(Next)

-----------------------------------------------------------------------------
(* transitive_dependents returns exactly the patches a change of its seeds *)
(* makes stale.                                                            *)
ClosureIsExact ==
  op = "closure" /\ status = "done" => wanted = TransitiveDependents(arg)

(* topological_order never reports a cycle for this graph and always       *)
(* answers the selected nodes in the fixed patch order: regeneration and   *)
(* earliest_patch_type depend on that order being the same in every call.  *)
SortIsCanonical ==
  op = "sort" => /\ status # "error"
                 /\ status = "done" => ordered = InOrder(arg)

(* Every call returns.                                                     *)
WalkTerminates == <>(status # "running")

=============================================================================
