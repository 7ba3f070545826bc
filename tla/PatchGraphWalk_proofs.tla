----------------------- MODULE PatchGraphWalk_proofs -----------------------
(***************************************************************************)
(* The traversals of the patch graph return what the rest of the program   *)
(* takes them to return, and each turn brings the end nearer.              *)
(***************************************************************************)
EXTENDS PatchGraphWalk, PlanPatchGraph_proofs, SequenceTheorems, FiniteSetTheorems

-----------------------------------------------------------------------------
(* The patches of a set in the fixed order.                                *)

LEMMA PositionIsRank == \A p \in PatchTypes : Position(p) = Rank[p]
PROOF
<1>1. \A i \in 1..11 : Rank[Order[i]] = i
  BY SMTT(60) DEF Order, Rank
<1>2. SUFFICES ASSUME NEW p \in PatchTypes
               PROVE  Position(p) = Rank[p]
  OBVIOUS
<1>3. Rank[p] \in 1..Len(Order) /\ Order[Rank[p]] = p
  BY RankType, OrderOfRank
<1>4. \A i \in 1..Len(Order) : Order[i] = p => i = Rank[p]
  BY <1>1, OrderOfRank
<1>5. QED
  BY <1>3, <1>4 DEF Position

LEMMA RankIsInjective == \A p, q \in PatchTypes : Rank[p] = Rank[q] => p = q
PROOF BY OrderOfRank

LEMMA PatchTypesFinite == IsFiniteSet(PatchTypes)
PROOF
<1>1. IsFiniteSet(1..11)
  BY 1 \in Int, 11 \in Int, FS_Interval, Zenon
<1>2. Rank \in Injection(PatchTypes, 1..11)
  BY RankType, RankIsInjective DEF Injection, IsInjective
<1>3. QED
  BY <1>1, <1>2, FS_Injection

LEMMA SubsetsFinite ==
  ASSUME NEW S \in SUBSET PatchTypes
  PROVE  IsFiniteSet(S) /\ Cardinality(S) \in Nat
PROOF BY PatchTypesFinite, FS_Subset, FS_CardinalityType

LEMMA BeforeIs ==
  ASSUME NEW S \in SUBSET PatchTypes, NEW p \in PatchTypes
  PROVE  Before(S, p) = { q \in S : Rank[q] < Rank[p] }
PROOF BY PositionIsRank DEF Before

(* The number of patches before one tells it from the others and follows   *)
(* the order.                                                              *)
LEMMA CountsBefore ==
  ASSUME NEW S \in SUBSET PatchTypes, NEW p \in S, NEW q \in S, Rank[p] < Rank[q]
  PROVE  /\ Cardinality(Before(S, p)) \in Nat /\ Cardinality(Before(S, q)) \in Nat
         /\ Cardinality(Before(S, p)) < Cardinality(Before(S, q))
PROOF
<1> DEFINE B == Before(S, p)
           C == Before(S, q)
<1>1. Rank[p] \in Int /\ Rank[q] \in Int /\ \A r \in S : Rank[r] \in Int
  BY RankType
<1>2. B = { r \in S : Rank[r] < Rank[p] } /\ C = { r \in S : Rank[r] < Rank[q] }
  BY BeforeIs
<1>3. p \notin B /\ B \cup {p} \subseteq C
  BY <1>1, <1>2
<1>4. IsFiniteSet(B) /\ IsFiniteSet(C) /\ Cardinality(B) \in Nat /\ Cardinality(C) \in Nat
  BY <1>2, SubsetsFinite
<1>5. Cardinality(B \cup {p}) = Cardinality(B) + 1
  BY <1>3, <1>4, FS_AddElement
<1>6. Cardinality(B \cup {p}) <= Cardinality(C)
  BY <1>3, <1>4, FS_Subset
<1>7. QED
  BY <1>4, <1>5, <1>6

LEMMA CountIsInjective ==
  ASSUME NEW S \in SUBSET PatchTypes, NEW p \in S, NEW q \in S,
         Cardinality(Before(S, p)) = Cardinality(Before(S, q))
  PROVE  p = q
PROOF
<1>1. Rank[p] \in Int /\ Rank[q] \in Int
  BY RankType
<1>2. ~(Rank[p] < Rank[q]) /\ ~(Rank[q] < Rank[p])
  BY CountsBefore
<1>3. QED
  BY <1>1, <1>2, RankIsInjective

(* Every number of predecessors below the size of the set occurs.          *)
LEMMA CountIsSurjective ==
  ASSUME NEW S \in SUBSET PatchTypes, NEW n \in 0 .. Cardinality(S) - 1
  PROVE  \E p \in S : Cardinality(Before(S, p)) = n
PROOF
<1> DEFINE N == 0 .. Cardinality(S) - 1
           count == [ p \in S |-> Cardinality(Before(S, p)) ]
<1>1. IsFiniteSet(S) /\ Cardinality(S) \in Nat
  BY SubsetsFinite
<1>2. IsFiniteSet(N) /\ Cardinality(N) = Cardinality(S)
  BY <1>1, FS_Interval
<1>3. ASSUME NEW p \in S
      PROVE  count[p] \in N
  <2>1. Before(S, p) \subseteq S \ {p}
    BY RankType, BeforeIs
  <2>2. Cardinality(S \ {p}) = Cardinality(S) - 1 /\ IsFiniteSet(S \ {p})
    BY <1>1, FS_RemoveElement
  <2>3. Cardinality(Before(S, p)) <= Cardinality(S \ {p})
    BY <2>1, <2>2, FS_Subset
  <2>4. Cardinality(Before(S, p)) \in Nat
    BY <2>1, SubsetsFinite
  <2>5. QED
    BY <1>1, <2>2, <2>3, <2>4
<1>4. count \in Injection(S, N)
  <2>1. count \in [S -> N]
    BY <1>3
  <2>2. \A p, q \in S : count[p] = count[q] => p = q
    BY CountIsInjective
  <2>3. QED
    BY <2>1, <2>2 DEF Injection, IsInjective
<1>5. count \in Surjection(S, N)
  BY <1>1, <1>2, <1>4, FS_Injection
<1>6. QED
  BY <1>5 DEF Surjection

(* InOrder lists the members of the set, each after those before it.       *)
LEMMA InOrderLists ==
  ASSUME NEW S \in SUBSET PatchTypes
  PROVE  /\ InOrder(S) \in Seq(S) /\ Len(InOrder(S)) = Cardinality(S)
         /\ \A i \in 1 .. Cardinality(S) :
              InOrder(S)[i] \in S /\ Cardinality(Before(S, InOrder(S)[i])) = i - 1
         /\ ToSet(InOrder(S)) = S
PROOF
<1> DEFINE s == InOrder(S)
<1>1. Cardinality(S) \in Nat
  BY SubsetsFinite
<1>2. ASSUME NEW i \in 1 .. Cardinality(S)
      PROVE  s[i] \in S /\ Cardinality(Before(S, s[i])) = i - 1
  <2>1. \E p \in S : Cardinality(Before(S, p)) = i - 1
    BY <1>1, CountIsSurjective
  <2>2. s[i] = CHOOSE p \in S : Cardinality(Before(S, p)) = i - 1
    BY DEF InOrder
  <2>3. QED
    BY <2>1, <2>2
<1>3. s \in [1 .. Cardinality(S) -> S]
  BY <1>2 DEF InOrder
<1>4. s \in Seq(S) /\ Len(s) = Cardinality(S)
  BY <1>1, <1>3
<1>5. ASSUME NEW p \in S
      PROVE  \E i \in 1 .. Cardinality(S) : s[i] = p
  <2> DEFINE n == Cardinality(Before(S, p))
  <2>1. Before(S, p) \subseteq S \ {p}
    BY RankType, BeforeIs
  <2>2. /\ Cardinality(S \ {p}) = Cardinality(S) - 1 /\ IsFiniteSet(S \ {p})
        /\ n \in Nat
    BY <2>1, SubsetsFinite, FS_RemoveElement
  <2>3. n <= Cardinality(S \ {p})
    BY <2>1, <2>2, FS_Subset
  <2>4. n + 1 \in 1 .. Cardinality(S)
    BY <1>1, <2>2, <2>3
  <2>5. Cardinality(Before(S, s[n + 1])) = n /\ s[n + 1] \in S
    BY <1>2, <2>2, <2>4
  <2>6. s[n + 1] = p
    BY <2>5, CountIsInjective
  <2>7. QED
    BY <2>4, <2>6
<1>6. ToSet(s) = S
  BY <1>2, <1>3, <1>5 DEF ToSet
<1>7. QED
  BY <1>2, <1>4, <1>6

LEMMA InOrderIncreases ==
  ASSUME NEW S \in SUBSET PatchTypes, NEW i \in 1 .. Cardinality(S),
         NEW j \in 1 .. Cardinality(S), i < j
  PROVE  Rank[InOrder(S)[i]] < Rank[InOrder(S)[j]]
PROOF
<1> DEFINE p == InOrder(S)[i]
           q == InOrder(S)[j]
<1>1. p \in S /\ q \in S /\ Cardinality(Before(S, p)) = i - 1 /\ Cardinality(Before(S, q)) = j - 1
  BY InOrderLists
<1>2. Rank[p] \in Int /\ Rank[q] \in Int
  BY <1>1, RankType
<1>3. Cardinality(S) \in Nat
  BY SubsetsFinite
<1>4. ~(Rank[q] < Rank[p])
  BY <1>1, <1>3, CountsBefore
<1>5. Rank[q] # Rank[p]
  BY <1>1, <1>3, RankIsInjective
<1>6. QED
  BY <1>2, <1>4, <1>5

(* A patch behind all of a set extends its list.                           *)
LEMMA InOrderAppends ==
  ASSUME NEW S \in SUBSET PatchTypes, NEW m \in PatchTypes,
         \A p \in S : Rank[p] < Rank[m]
  PROVE  InOrder(S \cup {m}) = Append(InOrder(S), m)
PROOF
<1> DEFINE T == S \cup {m}
           s == InOrder(S)
           t == InOrder(T)
           u == Append(s, m)
<1>1. m \notin S /\ T \in SUBSET PatchTypes /\ Rank[m] \in Int /\ \A p \in S : Rank[p] \in Int
  BY RankType
<1>2. Cardinality(S) \in Nat /\ Cardinality(T) = Cardinality(S) + 1
  BY <1>1, SubsetsFinite, FS_AddElement
<1>3. \A p \in S : Before(T, p) = Before(S, p)
  <2>1. SUFFICES ASSUME NEW p \in S
                 PROVE  Before(T, p) = Before(S, p)
    OBVIOUS
  <2>2. ~(Rank[m] < Rank[p])
    BY <1>1
  <2>3. QED
    BY <1>1, <2>2, BeforeIs
<1>4. Before(T, m) = S
  <2>1. Before(T, m) = { q \in T : Rank[q] < Rank[m] }
    BY <1>1, BeforeIs
  <2>2. ~(Rank[m] < Rank[m])
    BY <1>1
  <2>3. QED
    BY <2>1, <2>2
<1>5. s \in Seq(T) /\ Len(s) = Cardinality(S) /\ u \in Seq(T) /\ Len(u) = Cardinality(T)
  <2>1. s \in Seq(S) /\ Len(s) = Cardinality(S)
    BY InOrderLists
  <2>2. s \in Seq(T)
    BY <2>1, SeqMonotonic
  <2>3. QED
    BY <1>2, <2>1, <2>2, AppendProperties
<1>6. t \in Seq(T) /\ Len(t) = Cardinality(T)
  BY <1>1, InOrderLists
<1>7. ASSUME NEW i \in 1 .. Cardinality(T)
      PROVE  t[i] = u[i]
  <2>1. t[i] \in T /\ Cardinality(Before(T, t[i])) = i - 1
    BY <1>1, InOrderLists
  <2>2. u[i] \in T /\ Cardinality(Before(T, u[i])) = i - 1
    <3>1. CASE i = Cardinality(T)
      BY <1>2, <1>4, <1>5, <3>1, AppendProperties
    <3>2. CASE i # Cardinality(T)
      <4>1. i \in 1 .. Cardinality(S)
        BY <1>2, <3>2
      <4>2. u[i] = s[i]
        BY <1>5, <4>1, AppendProperties
      <4>3. s[i] \in S /\ Cardinality(Before(S, s[i])) = i - 1
        BY <4>1, InOrderLists
      <4>4. QED
        BY <1>3, <4>2, <4>3
    <3>3. QED
      BY <3>1, <3>2
  <2>3. Cardinality(Before(T, t[i])) = Cardinality(Before(T, u[i]))
    BY <2>1, <2>2
  <2> HIDE DEF T, t, u
  <2>4. QED
    BY <1>1, <2>1, <2>2, <2>3, CountIsInjective
<1>8. QED
  BY <1>5, <1>6, <1>7, SeqEqual

(* The head of the list is the first member, the tail lists the others.    *)
LEMMA InOrderHead ==
  ASSUME NEW S \in SUBSET PatchTypes, S # {}
  PROVE  LET s == InOrder(S)
         IN  /\ s # << >> /\ Head(s) \in S /\ Tail(s) \in Seq(S)
             /\ Len(Tail(s)) = Cardinality(S) - 1
             /\ \A p \in S \ {Head(s)} : Rank[Head(s)] < Rank[p]
             /\ ToSet(Tail(s)) = S \ {Head(s)}
PROOF
<1> DEFINE s == InOrder(S)
           n == Cardinality(S)
<1>1. s \in Seq(S) /\ Len(s) = n /\ ToSet(s) = S /\ \A i \in 1 .. n : s[i] \in S
  BY InOrderLists
<1>2. n \in Nat /\ n # 0
  BY SubsetsFinite, FS_EmptySet
<1>3. s # << >> /\ Head(s) = s[1]
  BY <1>1, <1>2
<1>4. /\ Head(s) \in S /\ Tail(s) \in Seq(S) /\ Len(Tail(s)) = n - 1
      /\ \A i \in 1 .. n - 1 : Tail(s)[i] = s[i + 1]
  BY <1>1, <1>3, HeadTailProperties
<1>5. \A p \in S : \E i \in 1 .. n : p = s[i]
  BY <1>1 DEF ToSet
<1>6. ASSUME NEW p \in S \ {Head(s)}
      PROVE  Rank[Head(s)] < Rank[p]
  <2>1. PICK i \in 1 .. n : p = s[i]
    BY <1>5
  <2>2. 1 < i /\ 1 \in 1 .. n
    BY <1>2, <1>3, <2>1
  <2>3. QED
    BY <1>3, <2>1, <2>2, InOrderIncreases
<1>7. ASSUME NEW p \in S \ {Head(s)}
      PROVE  p \in ToSet(Tail(s))
  <2>1. PICK i \in 1 .. n : p = s[i]
    BY <1>5
  <2>2. i - 1 \in 1 .. n - 1 /\ i - 1 + 1 = i
    BY <1>2, <1>3, <2>1
  <2>3. Tail(s)[i - 1] = p /\ i - 1 \in DOMAIN Tail(s)
    BY <1>4, <2>1, <2>2
  <2>4. QED
    BY <2>3 DEF ToSet
<1>8. ASSUME NEW p \in ToSet(Tail(s))
      PROVE  p \in S \ {Head(s)}
  <2>1. PICK i \in 1 .. n - 1 : p = s[i + 1]
    BY <1>2, <1>4, <1>8 DEF ToSet
  <2>2. i + 1 \in 1 .. n /\ 1 \in 1 .. n /\ 1 < i + 1
    BY <1>2
  <2>3. Rank[s[1]] < Rank[s[i + 1]] /\ s[i + 1] \in S /\ s[1] \in S
    BY <1>1, <2>2, InOrderIncreases
  <2>4. s[1] # p
    BY <2>1, <2>3, RankType
  <2>5. QED
    BY <1>3, <2>1, <2>3, <2>4
<1>9. ToSet(Tail(s)) = S \ {Head(s)}
  BY <1>7, <1>8
<1>10. QED
  BY <1>3, <1>4, <1>6, <1>9

-----------------------------------------------------------------------------
(* The worklist.  What is wanted is stale and contains the seeds, and the  *)
(* dependents of a wanted patch that is no longer queued are wanted too:   *)
(* when the queue is empty, what is wanted is closed.                      *)
ClosureInv ==
  op = "closure" =>
    /\ arg \subseteq wanted /\ wanted \subseteq TransitiveDependents(arg)
    /\ queue \in Seq(wanted)
    /\ \A p \in wanted \ ToSet(queue) : Dependents(p) \subseteq wanted
    /\ status # "error"
    /\ status = "done" => queue = << >>

WalkTypes ==
  /\ op \in {"closure", "sort"} /\ arg \in SUBSET PatchTypes
  /\ status \in {"running", "done", "error"}

LEMMA ReverseLists ==
  ASSUME NEW S, NEW s \in Seq(S)
  PROVE  Reverse(s) \in Seq(S) /\ ToSet(Reverse(s)) = ToSet(s)
PROOF
<1> DEFINE r == Reverse(s)
<1>1. /\ Len(s) \in Nat /\ s \in [1 .. Len(s) -> S]
      /\ r = [ i \in 1 .. Len(s) |-> s[Len(s) - i + 1] ]
  BY LenProperties DEF Reverse
<1>2. \A i \in 1 .. Len(s) : Len(s) - i + 1 \in 1 .. Len(s)
                             /\ Len(s) - (Len(s) - i + 1) + 1 = i
  BY <1>1
<1>3. r \in [1 .. Len(s) -> S]
  BY <1>1, <1>2
<1>4. r \in Seq(S)
  BY <1>1, <1>3, SeqDef
<1>5. ASSUME NEW i \in 1 .. Len(s)
      PROVE  /\ \E j \in 1 .. Len(s) : r[j] = s[i]
             /\ \E j \in 1 .. Len(s) : s[j] = r[i]
  <2>1. r[Len(s) - i + 1] = s[i] /\ s[Len(s) - i + 1] = r[i]
    BY <1>1, <1>2
  <2>2. QED
    BY <1>2, <2>1
<1>6. DOMAIN s = 1 .. Len(s) /\ DOMAIN r = 1 .. Len(s)
  BY <1>1, <1>3
<1> HIDE DEF r
<1>7. ToSet(r) = ToSet(s)
  <2>1. ToSet(r) = { r[i] : i \in 1 .. Len(s) } /\ ToSet(s) = { s[i] : i \in 1 .. Len(s) }
    BY <1>6 DEF ToSet
  <2>2. \A i \in 1 .. Len(s) : s[i] \in { r[j] : j \in 1 .. Len(s) }
    BY <1>5
  <2>3. \A i \in 1 .. Len(s) : r[i] \in { s[j] : j \in 1 .. Len(s) }
    BY <1>5
  <2>4. QED
    BY <2>1, <2>2, <2>3
<1>8. QED
  BY <1>4, <1>7 DEF r

LEMMA ConcatLists ==
  ASSUME NEW S, NEW s \in Seq(S), NEW t \in Seq(S)
  PROVE  ToSet(s \o t) = ToSet(s) \cup ToSet(t)
PROOF
<1> DEFINE u == s \o t
<1>1. /\ Len(s) \in Nat /\ Len(t) \in Nat /\ DOMAIN s = 1 .. Len(s) /\ DOMAIN t = 1 .. Len(t)
      /\ u \in Seq(S) /\ Len(u) = Len(s) + Len(t) /\ DOMAIN u = 1 .. Len(s) + Len(t)
  BY ConcatProperties, LenProperties
<1>2. \A i \in 1 .. Len(s) + Len(t) :
        u[i] = IF i <= Len(s) THEN s[i] ELSE t[i - Len(s)]
  BY ConcatProperties
<1> HIDE DEF u
<1>3. \A i \in 1 .. Len(s) : i \in 1 .. Len(s) + Len(t) /\ u[i] = s[i]
  BY <1>1, <1>2
<1>4. \A i \in 1 .. Len(t) : Len(s) + i \in 1 .. Len(s) + Len(t) /\ u[Len(s) + i] = t[i]
  <2>1. SUFFICES ASSUME NEW i \in 1 .. Len(t)
                 PROVE  /\ Len(s) + i \in 1 .. Len(s) + Len(t)
                        /\ u[Len(s) + i] = t[i]
    OBVIOUS
  <2>2. /\ Len(s) + i \in 1 .. Len(s) + Len(t) /\ ~(Len(s) + i <= Len(s))
        /\ Len(s) + i - Len(s) = i
    BY <1>1
  <2>3. QED
    BY <1>2, <2>2
<1>5. \A i \in 1 .. Len(s) + Len(t) :
        \/ i \in 1 .. Len(s) /\ u[i] = s[i]
        \/ i - Len(s) \in 1 .. Len(t) /\ u[i] = t[i - Len(s)]
  BY <1>1, <1>2
<1>6. ToSet(u) \subseteq ToSet(s) \cup ToSet(t)
  BY <1>1, <1>5 DEF ToSet
<1>7. ToSet(s) \subseteq ToSet(u)
  BY <1>1, <1>3 DEF ToSet
<1>8. ToSet(t) \subseteq ToSet(u)
  BY <1>1, <1>4 DEF ToSet
<1>9. QED
  BY <1>6, <1>7, <1>8 DEF u

(* Taking the head off a queue leaves the others.                          *)
LEMMA PopLeaves ==
  ASSUME NEW S, NEW s \in Seq(S), s # << >>
  PROVE  /\ Head(s) \in S /\ Tail(s) \in Seq(S)
         /\ ToSet(s) \subseteq ToSet(Tail(s)) \cup {Head(s)}
PROOF
<1>1. Len(s) \in Nat /\ DOMAIN s = 1 .. Len(s)
  BY LenProperties
<1>2. /\ Head(s) \in S /\ Tail(s) \in Seq(S) /\ Len(Tail(s)) = Len(s) - 1
      /\ \A i \in 1 .. Len(Tail(s)) : Tail(s)[i] = s[i + 1]
      /\ DOMAIN Tail(s) = 1 .. Len(Tail(s)) /\ Head(s) = s[1]
  BY HeadTailProperties, LenProperties
<1>3. ASSUME NEW i \in 1 .. Len(s)
      PROVE  s[i] \in ToSet(Tail(s)) \cup {Head(s)}
  <2>1. CASE i = 1
    BY <1>2, <2>1
  <2>2. CASE i # 1
    <3>1. i - 1 \in DOMAIN Tail(s) /\ Tail(s)[i - 1] = s[i]
      BY <1>1, <1>2, <2>2
    <3>2. QED
      BY <3>1 DEF ToSet
  <2>3. QED
    BY <2>1, <2>2
<1>4. QED
  BY <1>1, <1>2, <1>3 DEF ToSet

LEMMA EmptyLists == ToSet(<< >>) = {}
PROOF
<1>1. DOMAIN << >> = {}
  BY DOMAIN << >> = 1 .. Len(<< >>), Len(<< >>) = 0
<1>2. QED
  BY <1>1 DEF ToSet

(* What is in a closed set between the seeds and their dependents is all   *)
(* that is stale.                                                          *)
LEMMA ClosedContainsClosure ==
  ASSUME NEW A \in SUBSET PatchTypes, NEW W \in SUBSET PatchTypes, A \subseteq W, Closed(W)
  PROVE  TransitiveDependents(A) \subseteq W
PROOF
<1>1. W \in ClosedSets
  BY DEF ClosedSets
<1>2. \A p \in A : DependentClosure[p] \subseteq W
  BY <1>1 DEF DependentClosure
<1>3. QED
  BY <1>2 DEF TransitiveDependents

LEMMA ClosureStep ==
  ASSUME WalkTypes, ClosureInv, [Next]_vars
  PROVE  ClosureInv'
PROOF
<1> SUFFICES ASSUME op' = "closure"
             PROVE  ClosureInv'
  BY DEF ClosureInv
<1>0. op = "closure" /\ op' = op /\ arg' = arg
  BY DEF Next, PopWorklist, EmitReady, Finish, vars
<1>1. /\ arg \subseteq wanted /\ wanted \subseteq TransitiveDependents(arg)
      /\ queue \in Seq(wanted)
      /\ \A p \in wanted \ ToSet(queue) : Dependents(p) \subseteq wanted
      /\ status # "error" /\ (status = "done" => queue = << >>)
  BY <1>0 DEF ClosureInv
<1>2. CASE UNCHANGED vars
  BY <1>0, <1>1, <1>2 DEF vars, ClosureInv
<1>3. CASE PopWorklist
  <2> DEFINE node == Head(queue)
             new  == Dependents(node) \ wanted
  <2>1. /\ queue # << >> /\ wanted' = wanted \cup new
        /\ queue' = Tail(queue) \o InOrder(new) /\ status' = status /\ status = "running"
    BY <1>3 DEF PopWorklist
  <2>2. /\ node \in wanted /\ Tail(queue) \in Seq(wanted)
        /\ ToSet(queue) \subseteq ToSet(Tail(queue)) \cup {node}
    BY <1>1, <2>1, PopLeaves
  <2>3. node \in TransitiveDependents(arg) /\ new \in SUBSET PatchTypes
    BY <1>1, <2>2 DEF Dependents
  <2>4. new \subseteq TransitiveDependents(arg)
    BY <2>3, TransitiveIsClosed DEF WalkTypes, Dependents
  <2>5. InOrder(new) \in Seq(new) /\ ToSet(InOrder(new)) = new
    BY <2>3, InOrderLists
  <2>6. Tail(queue) \in Seq(wanted') /\ InOrder(new) \in Seq(wanted')
    BY <2>1, <2>2, <2>5, SeqMonotonic
  <2>7. queue' \in Seq(wanted') /\ ToSet(queue') = ToSet(Tail(queue)) \cup new
    <3> DEFINE tail == Tail(queue)
               more == InOrder(new)
    <3>1. tail \in Seq(wanted') /\ more \in Seq(wanted') /\ ToSet(more) = new
      BY <2>5, <2>6
    <3> HIDE DEF tail, more
    <3>2. tail \o more \in Seq(wanted') /\ ToSet(tail \o more) = ToSet(tail) \cup new
      BY <3>1, ConcatLists, ConcatProperties
    <3>3. QED
      BY <2>1, <3>2 DEF tail, more
  <2>8. ASSUME NEW p \in wanted' \ ToSet(queue')
        PROVE  Dependents(p) \subseteq wanted'
    <3>1. p \in wanted /\ p \notin ToSet(Tail(queue))
      BY <2>1, <2>7
    <3>2. CASE p = node
      BY <2>1, <3>2
    <3>3. CASE p # node
      BY <1>1, <2>1, <2>2, <3>1, <3>3
    <3>4. QED
      BY <3>2, <3>3
  <2>9. QED
    BY <1>0, <1>1, <2>1, <2>4, <2>7, <2>8 DEF ClosureInv
<1>4. CASE EmitReady
  BY <1>0, <1>4 DEF EmitReady
<1>5. CASE Finish
  BY <1>0, <1>1, <1>5 DEF Finish, ClosureInv
<1>6. QED
  BY <1>2, <1>3, <1>4, <1>5 DEF Next

LEMMA WalkTypesStep == WalkTypes /\ [Next]_vars => WalkTypes'
PROOF BY DEF WalkTypes, Next, PopWorklist, EmitReady, Finish, vars

LEMMA ClosureStart == Init => WalkTypes /\ ClosureInv
PROOF
<1> SUFFICES ASSUME Init
             PROVE  WalkTypes /\ ClosureInv
  OBVIOUS
<1>1. WalkTypes
  BY DEF Init, StartClosure, StartSort, WalkTypes
<1>2. ASSUME op = "closure"
      PROVE  ClosureInv
  <2>1. /\ StartClosure /\ status = "running" /\ arg \in SUBSET PatchTypes
    BY <1>2 DEF Init, StartSort
  <2>2. InOrder(arg) \in Seq(arg) /\ ToSet(InOrder(arg)) = arg
    BY <2>1, InOrderLists
  <2>3. queue \in Seq(arg) /\ ToSet(queue) = arg
    BY <2>1, <2>2, ReverseLists DEF StartClosure
  <2>4. arg \subseteq TransitiveDependents(arg)
    BY <2>1, TransitiveType
  <2>5. QED
    BY <2>1, <2>3, <2>4 DEF ClosureInv, StartClosure
<1>3. QED
  BY <1>1, <1>2 DEF ClosureInv

(* transitive_dependents returns exactly what a change of its seeds makes  *)
(* stale, whatever the seeds: the least closed set around them.            *)
THEOREM WorklistComputesClosure == Spec => []ClosureIsExact
PROOF
<1>1. Init => WalkTypes /\ ClosureInv
  BY ClosureStart
<1>2. WalkTypes /\ ClosureInv /\ [Next]_vars => (WalkTypes /\ ClosureInv)'
  BY WalkTypesStep, ClosureStep
<1>3. WalkTypes /\ ClosureInv => ClosureIsExact
  <2>1. SUFFICES ASSUME WalkTypes, ClosureInv, op = "closure", status = "done"
                 PROVE  wanted = TransitiveDependents(arg)
    BY DEF ClosureIsExact
  <2>2. /\ arg \subseteq wanted /\ wanted \subseteq TransitiveDependents(arg)
        /\ \A p \in wanted : Dependents(p) \subseteq wanted
    BY <2>1, EmptyLists DEF ClosureInv
  <2>3. wanted \in SUBSET PatchTypes /\ Closed(wanted)
    BY <2>1, <2>2, TransitiveType DEF WalkTypes, Closed
  <2>4. QED
    BY <2>1, <2>2, <2>3, ClosedContainsClosure DEF WalkTypes
<1>4. QED
  BY <1>1, <1>2, <1>3, PTL DEF Spec

-----------------------------------------------------------------------------
(* The sort.  What was emitted is the first part of the answer; the ready  *)
(* list holds the others that wait for nothing, and the first of those     *)
(* that are left always is among them.                                     *)
Emitted == ToSet(ordered)
Left == arg \ Emitted
Ready == { p \in Left : Selected(p) \subseteq Emitted }

SortInv ==
  op = "sort" =>
    /\ Emitted \subseteq arg /\ ordered = InOrder(Emitted)
    /\ \A p \in Emitted, q \in Left : Rank[p] < Rank[q]
    /\ indegree = [ p \in arg |-> Cardinality(Selected(p) \ Emitted) ]
    /\ queue = InOrder(Ready)
    /\ status # "error"
    /\ status = "done" => queue = << >>

(* The patch that comes first among those left is ready.                   *)
LEMMA FirstIsReady ==
  ASSUME WalkTypes, Emitted \subseteq arg, Left # {}
  PROVE  /\ Ready \in SUBSET PatchTypes /\ Ready # {}
         /\ Head(InOrder(Ready)) \in Ready
         /\ \A p \in Left \ {Head(InOrder(Ready))} : Rank[Head(InOrder(Ready))] < Rank[p]
PROOF
<1> DEFINE first == Head(InOrder(Left))
           node  == Head(InOrder(Ready))
<1>1. Left \in SUBSET PatchTypes /\ Ready \in SUBSET PatchTypes
  BY DEF WalkTypes, Left, Ready
<1>2. first \in Left /\ \A p \in Left \ {first} : Rank[first] < Rank[p]
  BY <1>1, InOrderHead
<1>3. \A p \in PatchTypes : Rank[p] \in Int
  BY RankType
<1>4. ASSUME NEW d \in Selected(first)
      PROVE  d \in Emitted
  <2>1. d \in arg /\ d \in PatchTypes /\ Rank[d] < Rank[first] /\ first \in PatchTypes
    BY <1>1, <1>2, DependenciesComeEarlier DEF Selected, WalkTypes
  <2>2. ~(Rank[first] < Rank[d]) /\ d # first
    BY <1>3, <2>1
  <2>3. QED
    BY <1>2, <2>1, <2>2 DEF Left
<1>5. first \in Ready
  BY <1>2, <1>4 DEF Ready
<1>6. node \in Ready /\ \A p \in Ready \ {node} : Rank[node] < Rank[p]
  BY <1>1, <1>5, InOrderHead
<1>7. node = first
  <2>1. node \in Left /\ node \in PatchTypes /\ first \in PatchTypes
    BY <1>1, <1>6 , <1>5 DEF Ready
  <2>2. node # first => Rank[first] < Rank[node] /\ Rank[node] < Rank[first]
    BY <1>2, <1>5, <1>6, <2>1
  <2>3. QED
    BY <1>3, <2>1, <2>2
<1>8. QED
  BY <1>1, <1>2, <1>5, <1>6, <1>7

LEMMA SortStart == Init => SortInv
PROOF
<1> SUFFICES ASSUME Init, op = "sort"
             PROVE  SortInv
  BY DEF SortInv
<1>1. /\ StartSort /\ ordered = << >> /\ status = "running" /\ arg \in SUBSET PatchTypes
  BY DEF Init, StartClosure
<1>2. Emitted = {} /\ Left = arg
  BY <1>1, EmptyLists DEF Emitted, Left
<1>3. InOrder({}) = << >>
  <2>1. InOrder({}) \in Seq({}) /\ Len(InOrder({})) = 0
    BY InOrderLists, FS_EmptySet
  <2>2. QED
    BY <2>1, EmptySeq
<1>4. indegree = [ p \in arg |-> Cardinality(Selected(p) \ Emitted) ]
  BY <1>1, <1>2 DEF StartSort
<1>5. \A p \in arg : indegree[p] = 0 <=> Selected(p) \subseteq Emitted
  <2>1. SUFFICES ASSUME NEW p \in arg
                 PROVE  indegree[p] = 0 <=> Selected(p) \subseteq Emitted
    OBVIOUS
  <2>2. Selected(p) \in SUBSET PatchTypes /\ indegree[p] = Cardinality(Selected(p))
    BY <1>1, <1>2, <1>4 DEF Selected
  <2>3. IsFiniteSet(Selected(p))
    BY <2>2, SubsetsFinite
  <2>4. QED
    BY <1>2, <2>2, <2>3, FS_EmptySet
<1>6. queue = InOrder(Ready)
  <2>1. { p \in arg : indegree[p] = 0 } = Ready
    BY <1>2, <1>5 DEF Ready
  <2>2. QED
    BY <1>1, <2>1 DEF StartSort
<1>7. QED
  BY <1>1, <1>2, <1>3, <1>4, <1>6 DEF SortInv

LEMMA EmitStep ==
  ASSUME WalkTypes, SortInv, EmitReady
  PROVE  /\ SortInv'
         /\ Emitted' = Emitted \cup {Head(queue)} /\ Head(queue) \in Left
PROOF
<1> DEFINE node  == Head(queue)
           outs  == { p \in arg : node \in Dependencies[p] }
           freed == { p \in outs : indegree[p] = 1 }
<1>1. /\ op = "sort" /\ op' = op /\ arg' = arg /\ status = "running" /\ status' = status
      /\ queue # << >> /\ ordered' = Append(ordered, node)
      /\ indegree' = [ p \in arg |-> IF p \in outs THEN indegree[p] - 1 ELSE indegree[p] ]
      /\ queue' = Resort(Tail(queue) \o InOrder(freed))
  BY DEF EmitReady
<1>2. /\ Emitted \subseteq arg /\ ordered = InOrder(Emitted)
      /\ \A p \in Emitted, q \in Left : Rank[p] < Rank[q]
      /\ indegree = [ p \in arg |-> Cardinality(Selected(p) \ Emitted) ]
      /\ queue = InOrder(Ready)
  BY <1>1 DEF SortInv
<1>3. /\ arg \in SUBSET PatchTypes /\ Emitted \in SUBSET PatchTypes
      /\ Left \in SUBSET PatchTypes /\ Ready \in SUBSET PatchTypes /\ freed \in SUBSET PatchTypes
  BY <1>2 DEF WalkTypes, Left, Ready
<1>4. Left # {}
  <2>1. SUFFICES ASSUME Left = {}
                 PROVE  FALSE
    OBVIOUS
  <2>2. Ready = {}
    BY <2>1 DEF Ready
  <2>3. Cardinality(Ready) = 0 /\ InOrder(Ready) \in Seq(Ready) /\ Len(InOrder(Ready)) = 0
    BY <1>3, <2>2, InOrderLists, FS_EmptySet
  <2>4. QED
    BY <1>1, <1>2, <2>3, EmptySeq
<1>5. /\ Ready # {} /\ node \in Ready
      /\ \A p \in Left \ {node} : Rank[node] < Rank[p]
  BY <1>2, <1>4, FirstIsReady
<1>6. node \in Left /\ node \in PatchTypes /\ node \in arg /\ node \notin Emitted
      /\ Selected(node) \subseteq Emitted
  BY <1>3, <1>5 DEF Ready, Left
<1>7. ordered' = InOrder(Emitted \cup {node})
  BY <1>1, <1>2, <1>3, <1>6, InOrderAppends
<1>8. Emitted' = Emitted \cup {node}
  <2>1. Emitted \cup {node} \in SUBSET PatchTypes
    BY <1>3, <1>6
  <2>2. ToSet(InOrder(Emitted \cup {node})) = Emitted \cup {node}
    BY <2>1, InOrderLists
  <2>3. QED
    BY <1>7, <2>2 DEF Emitted
<1>9. Left' = Left \ {node}
  BY <1>1, <1>8 DEF Left
<1>10. \A p \in PatchTypes : Rank[p] \in Int
  BY RankType
<1>11. \A p \in outs : p \notin Emitted /\ p # node /\ Rank[node] < Rank[p]
  <2>1. SUFFICES ASSUME NEW p \in outs
                 PROVE  p \notin Emitted /\ p # node /\ Rank[node] < Rank[p]
    OBVIOUS
  <2>2. p \in PatchTypes /\ Rank[node] < Rank[p]
    BY <1>3, DependenciesComeEarlier
  <2>3. p \in Emitted => Rank[p] < Rank[node]
    BY <1>2, <1>6
  <2>4. QED
    BY <1>6, <1>10, <2>2, <2>3
<1>12. ASSUME NEW p \in arg
       PROVE  /\ p \in outs => indegree[p] - 1 = Cardinality(Selected(p) \ Emitted')
              /\ p \notin outs => Selected(p) \ Emitted' = Selected(p) \ Emitted
              /\ p \in freed <=> p \in outs /\ Selected(p) \subseteq Emitted'
  <2> DEFINE waits == Selected(p) \ Emitted
  <2>1. waits \in SUBSET PatchTypes /\ indegree[p] = Cardinality(waits)
    BY <1>2, <1>3 DEF Selected
  <2>2. IsFiniteSet(waits) /\ Cardinality(waits) \in Nat
    BY <2>1, SubsetsFinite
  <2>3. Selected(p)' = Selected(p)
    BY <1>1 DEF Selected
  <2>4. Selected(p) \ Emitted' = waits \ {node}
    BY <1>8
  <2>5. node \in waits <=> p \in outs
    BY <1>6 DEF Selected
  <2>6. /\ IsFiniteSet(waits \ {node})
        /\ Cardinality(waits \ {node}) = IF node \in waits THEN Cardinality(waits) - 1
                                                           ELSE Cardinality(waits)
    BY <2>2, FS_RemoveElement
  <2>7. waits \ {node} = {} <=> Cardinality(waits \ {node}) = 0
    BY <2>6, FS_EmptySet
  <2>8. p \in outs => (indegree[p] = 1 <=> Selected(p) \subseteq Emitted')
    BY <2>1, <2>2, <2>4, <2>5, <2>6, <2>7
  <2>9. QED
    BY <2>1, <2>4, <2>5, <2>6, <2>8
<1>13. indegree' = [ p \in arg' |-> Cardinality(Selected(p)' \ Emitted') ]
  <2>1. \A p \in arg : Selected(p)' = Selected(p)
    BY <1>1 DEF Selected
  <2>2. \A p \in arg : (IF p \in outs THEN indegree[p] - 1 ELSE indegree[p])
                       = Cardinality(Selected(p) \ Emitted')
    BY <1>2, <1>12
  <2>3. QED
    BY <1>1, <2>1, <2>2
<1>14. Ready' = (Ready \ {node}) \cup freed
  <2>1. Ready' = { p \in Left \ {node} : Selected(p) \subseteq Emitted' }
    BY <1>1, <1>9 DEF Ready, Selected
  <2>2. ASSUME NEW p \in Left \ {node}
        PROVE  Selected(p) \subseteq Emitted' <=> p \in (Ready \ {node}) \cup freed
    <3>1. p \in arg
      BY DEF Left
    <3>2. CASE p \in outs
      <4>1. p \notin Ready
        BY <1>6, <3>2 DEF Ready, Selected
      <4>2. QED
        BY <1>12, <3>1, <3>2, <4>1
    <3>3. CASE p \notin outs
      <4>1. Selected(p) \subseteq Emitted' <=> Selected(p) \subseteq Emitted
        BY <1>12, <3>1, <3>3, <1>8
      <4>2. QED
        BY <3>3, <4>1 DEF Ready
    <3>4. QED
      BY <3>2, <3>3
  <2>3. (Ready \ {node}) \cup freed \subseteq Left \ {node}
    BY <1>11 DEF Ready, Left
  <2>4. QED
    BY <2>1, <2>2, <2>3
<1>15. queue' = InOrder(Ready')
  <2> DEFINE tail == Tail(queue)
             more == InOrder(freed)
  <2>1. tail \in Seq(Ready) /\ ToSet(tail) = Ready \ {node}
    BY <1>2, <1>3, <1>5, InOrderHead
  <2>2. more \in Seq(freed) /\ ToSet(more) = freed
    BY <1>3, InOrderLists
  <2>3. tail \in Seq(PatchTypes) /\ more \in Seq(PatchTypes)
    BY <1>3, <2>1, <2>2, SeqMonotonic
  <2>4. queue' = InOrder(ToSet(tail \o more))
    BY <1>1 DEF Resort
  <2> HIDE DEF tail, more
  <2>5. ToSet(tail \o more) = (Ready \ {node}) \cup freed
    BY <2>1, <2>2, <2>3, ConcatLists
  <2>6. QED
    BY <1>14, <2>4, <2>5
<1>16. \A p \in Emitted', q \in Left' : Rank[p] < Rank[q]
  BY <1>2, <1>5, <1>8, <1>9
<1>17. SortInv'
  BY <1>1, <1>2, <1>6, <1>7, <1>8, <1>13, <1>15, <1>16 DEF SortInv
<1>18. QED
  BY <1>6, <1>8, <1>17

LEMMA SortStep ==
  ASSUME WalkTypes, SortInv, [Next]_vars
  PROVE  SortInv'
PROOF
<1> SUFFICES ASSUME op' = "sort"
             PROVE  SortInv'
  BY DEF SortInv
<1>0. op = "sort" /\ op' = op /\ arg' = arg
  BY DEF Next, PopWorklist, EmitReady, Finish, vars
<1>1. ASSUME UNCHANGED << op, arg, queue, indegree, ordered >>
      PROVE  Emitted' = Emitted /\ Left' = Left /\ Ready' = Ready
             /\ \A p \in arg : Selected(p)' = Selected(p)
  BY <1>1 DEF Emitted, Left, Ready, Selected
<1>2. CASE UNCHANGED vars
  BY <1>0, <1>1, <1>2 DEF vars, SortInv
<1>3. CASE PopWorklist
  BY <1>0, <1>3 DEF PopWorklist
<1>4. CASE EmitReady
  BY <1>4, EmitStep
<1>5. CASE Finish
  <2>1. /\ queue = << >> /\ UNCHANGED << op, arg, queue, indegree, ordered >>
        /\ status' = IF Len(ordered) # Cardinality(arg) THEN "error" ELSE "done"
    BY <1>0, <1>5 DEF Finish
  <2>2. /\ Emitted \subseteq arg /\ ordered = InOrder(Emitted) /\ queue = InOrder(Ready)
    BY <1>0 DEF SortInv
  <2>3. Left = {}
    <3>1. SUFFICES ASSUME Left # {}
                   PROVE  FALSE
      OBVIOUS
    <3>2. Ready \in SUBSET PatchTypes /\ Ready # {}
      BY <2>2, <3>1, FirstIsReady
    <3>3. QED
      BY <2>1, <2>2, <3>2, InOrderHead
  <2>4. Emitted = arg
    BY <2>2, <2>3 DEF Left
  <2>5. Len(ordered) = Cardinality(arg)
    BY <2>2, <2>4, InOrderLists DEF WalkTypes
  <2>6. QED
    BY <1>0, <1>1, <2>1, <2>5 DEF SortInv
<1>6. QED
  BY <1>2, <1>3, <1>4, <1>5 DEF Next

(* topological_order reports no cycle for this graph and answers the       *)
(* selected nodes in the fixed patch order, whichever are selected.        *)
THEOREM SortAnswersInOrder == Spec => []SortIsCanonical
PROOF
<1>1. Init => WalkTypes /\ SortInv
  BY ClosureStart, SortStart
<1>2. WalkTypes /\ SortInv /\ [Next]_vars => (WalkTypes /\ SortInv)'
  BY WalkTypesStep, SortStep
<1>3. WalkTypes /\ SortInv => SortIsCanonical
  <2>1. SUFFICES ASSUME WalkTypes, SortInv, op = "sort", status = "done"
                 PROVE  ordered = InOrder(arg)
    BY DEF SortIsCanonical, SortInv
  <2>2. Emitted \subseteq arg /\ ordered = InOrder(Emitted) /\ InOrder(Ready) = << >>
    BY <2>1 DEF SortInv
  <2>3. Left = {}
    <3>1. SUFFICES ASSUME Left # {}
                   PROVE  FALSE
      OBVIOUS
    <3>2. Ready \in SUBSET PatchTypes /\ Ready # {}
      BY <2>1, <2>2, <3>1, FirstIsReady
    <3>3. QED
      BY <2>2, <3>2, InOrderHead
  <2>4. QED
    BY <2>2, <2>3 DEF Left
<1>4. QED
  BY <1>1, <1>2, <1>3, PTL DEF Spec

-----------------------------------------------------------------------------
(* How many turns are left at most: a patch enters the worklist once, a    *)
(* sorted one is emitted once, and then the call returns.                  *)
Running == IF status = "running" THEN 1 ELSE 0
TurnsLeft == Running + IF op = "closure" THEN Len(queue) + Cardinality(PatchTypes \ wanted)
                                         ELSE Cardinality(Left)

LEMMA TurnStep ==
  ASSUME WalkTypes, ClosureInv, SortInv, Next
  PROVE  TurnsLeft \in Nat /\ TurnsLeft' \in Nat /\ TurnsLeft' < TurnsLeft
PROOF
<1> DEFINE queued == Len(queue)
           rest   == Cardinality(PatchTypes \ wanted)
           left   == Cardinality(Left)
<1>1. Running \in Nat /\ Running' \in Nat
  BY DEF Running
<1>2. rest \in Nat /\ left \in Nat
  <2>1. Left \in SUBSET PatchTypes /\ PatchTypes \ wanted \in SUBSET PatchTypes
    BY DEF WalkTypes, Left
  <2>2. QED
    BY <2>1, SubsetsFinite
<1>3. op = "closure" => queued \in Nat
  BY LenProperties DEF ClosureInv
<1>4. CASE PopWorklist
  <2> DEFINE new == Dependents(Head(queue)) \ wanted
  <2>1. /\ op = "closure" /\ op' = op /\ status = "running" /\ status' = status
        /\ queue # << >> /\ wanted' = wanted \cup new /\ queue' = Tail(queue) \o InOrder(new)
    BY <1>4 DEF PopWorklist
  <2>2. new \in SUBSET PatchTypes /\ queue \in Seq(wanted)
    BY <2>1 DEF Dependents, ClosureInv
  <2>3. IsFiniteSet(new) /\ Cardinality(new) \in Nat /\ IsFiniteSet(PatchTypes \ wanted)
    BY <2>2, SubsetsFinite, PatchTypes \ wanted \in SUBSET PatchTypes
  <2>4. Len(queue') = queued - 1 + Cardinality(new)
    <3>1. Tail(queue) \in Seq(wanted) /\ Len(Tail(queue)) = queued - 1
      BY <2>1, <2>2, HeadTailProperties
    <3>2. InOrder(new) \in Seq(new) /\ Len(InOrder(new)) = Cardinality(new)
      BY <2>2, InOrderLists
    <3>3. Tail(queue) \in Seq(wanted \cup new) /\ InOrder(new) \in Seq(wanted \cup new)
      BY <3>1, <3>2, SeqMonotonic
    <3>4. QED
      BY <2>1, <3>1, <3>2, <3>3, ConcatProperties
  <2>5. rest = Cardinality((PatchTypes \ wanted) \ new) + Cardinality(new)
    <3>1. (PatchTypes \ wanted) \cap new = new
      BY <2>2
    <3>2. Cardinality((PatchTypes \ wanted) \ new) = rest - Cardinality(new)
      BY <2>3, <3>1, FS_Difference
    <3>3. QED
      BY <1>2, <2>3, <3>2
  <2>6. (PatchTypes \ wanted) \ new = PatchTypes \ wanted'
    BY <2>1
  <2>7. Cardinality(PatchTypes \ wanted') \in Nat
    BY SubsetsFinite, PatchTypes \ wanted' \in SUBSET PatchTypes
  <2>8. queued - 1 \in Nat
    BY <2>1, <2>2, EmptySeq
  <2>9. Running = 1 /\ Running' = 1
    BY <2>1 DEF Running
  <2>10. TurnsLeft = 1 + (queued + rest) /\ TurnsLeft' = 1 + (Len(queue') + Cardinality(PatchTypes \ wanted'))
    BY <2>1, <2>9 DEF TurnsLeft
  <2> DEFINE more   == Cardinality(new)
             queued2 == Len(queue')
             rest2   == Cardinality(PatchTypes \ wanted')
  <2>11. /\ queued - 1 \in Nat /\ queued \in Nat /\ rest2 \in Nat /\ more \in Nat
         /\ queued2 = queued - 1 + more /\ rest = rest2 + more
         /\ TurnsLeft = 1 + (queued + rest) /\ TurnsLeft' = 1 + (queued2 + rest2)
    BY <1>3, <2>1, <2>3, <2>4, <2>5, <2>6, <2>7, <2>8, <2>10
  <2> HIDE DEF more, queued2, rest2, queued, rest
  <2>12. QED
    BY <2>11
<1>5. CASE EmitReady
  <2>1. op = "sort" /\ op' = op /\ arg' = arg /\ status = "running" /\ status' = status
    BY <1>5 DEF EmitReady
  <2>2. Left' = Left \ {Head(queue)} /\ Head(queue) \in Left
    BY <1>5, <2>1, EmitStep DEF Left
  <2>3. IsFiniteSet(Left)
    BY SubsetsFinite DEF WalkTypes, Left
  <2>4. Cardinality(Left') = left - 1
    BY <2>2, <2>3, FS_RemoveElement
  <2>5. IsFiniteSet(Left') /\ Cardinality(Left') \in Nat
    BY <2>2, <2>3, FS_RemoveElement, FS_CardinalityType
  <2>6. Running = 1 /\ Running' = 1
    BY <2>1 DEF Running
  <2>7. TurnsLeft = 1 + left /\ TurnsLeft' = 1 + Cardinality(Left')
    BY <2>1, <2>6 DEF TurnsLeft
  <2>8. QED
    BY <1>2, <2>4, <2>5, <2>7
<1>6. CASE Finish
  <2>1. /\ Running = 1 /\ Running' = 0
        /\ UNCHANGED << op, arg, queue, wanted, ordered >>
    BY <1>6 DEF Finish, Running
  <2>2. op = "closure" => TurnsLeft = 1 + (queued + rest) /\ TurnsLeft' = 0 + (queued + rest)
    BY <2>1 DEF TurnsLeft
  <2>3. op # "closure" => TurnsLeft = 1 + left /\ TurnsLeft' = 0 + left
    BY <2>1 DEF TurnsLeft, Left, Emitted
  <2>4. QED
    BY <1>2, <1>3, <2>2, <2>3
<1>7. QED
  BY <1>4, <1>5, <1>6 DEF Next

(* No call walks forever: each turn of either loop leaves fewer to come,   *)
(* also where patches share dependents.                                    *)
THEOREM WalkEnds ==
  Spec => [][TurnsLeft' < TurnsLeft /\ TurnsLeft \in Nat /\ TurnsLeft' \in Nat]_vars
PROOF
<1>1. Init => WalkTypes /\ ClosureInv /\ SortInv
  BY ClosureStart, SortStart
<1>2. WalkTypes /\ ClosureInv /\ SortInv /\ [Next]_vars => (WalkTypes /\ ClosureInv /\ SortInv)'
  BY WalkTypesStep, ClosureStep, SortStep
<1>3. WalkTypes /\ ClosureInv /\ SortInv /\ [Next]_vars =>
        [TurnsLeft' < TurnsLeft /\ TurnsLeft \in Nat /\ TurnsLeft' \in Nat]_vars
  BY TurnStep
<1>4. QED
  BY <1>1, <1>2, <1>3, PTL DEF Spec

=============================================================================
