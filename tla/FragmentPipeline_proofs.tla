---------------------- MODULE FragmentPipeline_proofs ----------------------
(***************************************************************************)
(* The universes pipeline, for every set of requirements, materials and    *)
(* answers and every budget: sessions hold what they say, a valid patch    *)
(* qualifies under the present materials, and a sound fragment is kept.    *)
(***************************************************************************)
EXTENDS FragmentPipeline, TLAPS

-----------------------------------------------------------------------------
(* A session alone: a record and a hash for what it calls accepted.        *)
Backed(s) ==
  \A u \in Universes :
    /\ s.status[u] = "accepted" <=> s.accepted[u] # Nothing
    /\ s.hashes[u] = s.accepted[u]

(* A manifest that was accepted has one item per universe.                 *)
Duplicated(r) ==
  \E i, j \in DOMAIN r.items : i # j /\ r.items[i].universe = r.items[j].universe
ManifestInv == \A h \in Hashes : sessions[h].manifest => ~Duplicated(h[1])

(* While fragments are asked for, what the session has qualifies, the      *)
(* universes up to the one in hand have a fragment, and an accepted one    *)
(* was verified on resume or in this pass.                                 *)
Passed(u) == \E i \in 1 .. (position - 1) : i \in DOMAIN Order /\ Order[i] = u
PassInv ==
  /\ ~Duplicated(required)
  /\ \A u \in Universes : session.accepted[u] # Nothing => Qualifies(session.accepted[u], ItemOf(u))
  /\ \A i \in 1 .. (position - 1) : i \in DOMAIN Order => session.accepted[Order[i]] # Nothing
  /\ \A u \in Universes : session.status[u] = "accepted" => u \in verified \/ Passed(u)

PipelineInv ==
  /\ TypeOK /\ AcceptedIsBacked /\ ManifestInv /\ PatchQualifies
  /\ phase # "fragments" => position = 1
  /\ phase = "fragments" => PassInv

-----------------------------------------------------------------------------
(* The requirements in order, and the session of the present inputs.       *)
LEMMA OrderFacts ==
  ASSUME required \in RequirementSets
  PROVE  /\ Len(Order) \in Nat /\ DOMAIN Order = 1 .. Len(Order)
         /\ DOMAIN required.items = 1 .. Len(Order)
         /\ \A i \in DOMAIN Order : /\ Order[i] = required.items[i].universe
                                    /\ Order[i] \in UniversesOf(required)
         /\ \A u \in UniversesOf(required) : \E i \in DOMAIN Order : u = Order[i]
         /\ UniversesOf(required) \subseteq Universes
         /\ ManifestErrors <=> Duplicated(required)
PROOF
<1> DEFINE S == { required.items[i] : i \in DOMAIN required.items }
<1>1. required.items \in Seq(S)
  BY RequirementAssumption
<1>2. DOMAIN required.items = 1 .. Len(required.items) /\ Len(required.items) \in Nat
  BY <1>1
<1>3. DOMAIN Order = 1 .. Len(required.items)
  BY <1>2 DEF Order
<1>4. Len(Order) = Len(required.items)
  BY <1>2, <1>3
<1>5. \A i \in DOMAIN Order : Order[i] = required.items[i].universe
  BY DEF Order
<1>6. UniversesOf(required) \subseteq Universes
  BY DEF Universes
<1>7. ManifestErrors <=> Duplicated(required)
  BY <1>2, <1>3, <1>5 DEF ManifestErrors, Duplicated
<1>8. QED
  BY <1>2, <1>3, <1>4, <1>5, <1>6, <1>7 DEF UniversesOf

LEMMA CurrentHash ==
  ASSUME required \in RequirementSets, materials \in MaterialPatches
  PROVE  Current \in Hashes /\ Current[1] = required
PROOF
  BY DEF Current, Hashes, InputHash

LEMMA SessionFacts ==
  ASSUME TypeOK, AcceptedIsBacked
  PROVE  session \in Session /\ Backed(session)
PROOF
<1>1. Current \in Hashes
  BY CurrentHash DEF TypeOK
<1>2. QED
  BY <1>1 DEF session, TypeOK, AcceptedIsBacked, Backed

(* What qualifies depends on the inputs alone.                             *)
LEMMA InputsDecide ==
  ASSUME UNCHANGED inputs
  PROVE  /\ Current' = Current /\ Order' = Order /\ required' = required
         /\ \A u : ItemOf(u)' = ItemOf(u)
         /\ materials' = materials /\ Satellites' = Satellites
         /\ \A u : Spurious(u)' <=> Spurious(u)
         /\ \A f, item : Qualifies(f, item)' <=> Qualifies(f, item)
         /\ \A f, item : Fulfils(f, item)' <=> Fulfils(f, item)
PROOF
  BY DEF inputs, Current, InputHash, Order, ItemOf, Qualifies, Covers, Roles, Fulfils,
         Satellites, UniversesOf, Spurious

(* One session is saved and the inputs stay.                               *)
LEMMA SaveStep ==
  ASSUME TypeOK, AcceptedIsBacked, ManifestInv, UNCHANGED inputs,
         NEW s \in Session, Save(s), Backed(s), s.manifest => ~Duplicated(required)
  PROVE  /\ sessions' \in [ Hashes -> Session ]
         /\ session' = s /\ sessions'[Current] = s
         /\ AcceptedIsBacked' /\ ManifestInv'
PROOF
<1>1. Current \in Hashes /\ Current[1] = required
  BY CurrentHash DEF TypeOK
<1>2. sessions' = [ sessions EXCEPT ![Current] = s ] /\ sessions \in [ Hashes -> Session ]
  BY DEF Save, TypeOK
<1>3. sessions' \in [ Hashes -> Session ] /\ sessions'[Current] = s
  BY <1>1, <1>2
<1>4. \A h \in Hashes : h # Current => sessions'[h] = sessions[h]
  BY <1>1, <1>2
<1>5. session' = s
  BY <1>3, InputsDecide DEF session
<1>6. AcceptedIsBacked'
  BY <1>3, <1>4 DEF AcceptedIsBacked, Backed
<1>7. ManifestInv'
  BY <1>1, <1>3, <1>4 DEF ManifestInv, Duplicated
<1>8. QED
  BY <1>3, <1>5, <1>6, <1>7

(* The patch stays while the inputs do.                                    *)
LEMMA PatchStays ==
  ASSUME PatchQualifies, UNCHANGED inputs, patch' = patch
  PROVE  PatchQualifies'
PROOF
<1>1. UniversesOf(required)' = UniversesOf(required)
  BY InputsDecide DEF UniversesOf
<1>2. QED
  BY <1>1, InputsDecide DEF PatchQualifies

-----------------------------------------------------------------------------
(* What the steps write into a session leaves it a session that is backed. *)
LEMMA ChargedSession ==
  ASSUME NEW s \in Session, Backed(s), NEW n \in Nat
  PROVE  LET t == [ s EXCEPT !.calls = Charge(@, n) ]
         IN  t \in Session /\ Backed(t) /\ t.manifest = s.manifest
PROOF
<1>1. Charge(s.calls, n) \in 0 .. MaxTotalCalls
  BY BudgetAssumption DEF Session, Charge
<1>2. QED
  BY <1>1 DEF Session, Backed

LEMMA CalledSession ==
  ASSUME NEW s \in Session, Backed(s), s.calls < MaxTotalCalls
  PROVE  LET t == [ s EXCEPT !.calls = @ + 1 ]
         IN  t \in Session /\ Backed(t) /\ t.manifest = s.manifest /\ t.accepted = s.accepted
             /\ t.status = s.status
PROOF
  BY BudgetAssumption DEF Session, Backed

LEMMA ManifestSession ==
  ASSUME NEW s \in Session, Backed(s)
  PROVE  LET t == [ s EXCEPT !.manifest = TRUE ]
         IN  t \in Session /\ Backed(t) /\ t.accepted = s.accepted /\ t.status = s.status
PROOF
  BY DEF Session, Backed

LEMMA DowngradedSession ==
  ASSUME NEW s \in Session, Backed(s), NEW us
  PROVE  LET t == Downgrade(s, us)
         IN  /\ t \in Session /\ Backed(t) /\ t.manifest = s.manifest
             /\ \A u \in Universes : t.accepted[u] = IF u \in us THEN Nothing ELSE s.accepted[u]
PROOF
<1> DEFINE t == Downgrade(s, us)
<1>1. /\ t.manifest = s.manifest /\ t.calls = s.calls
      /\ t.status = [ u \in Universes |-> IF u \in us THEN "pending" ELSE s.status[u] ]
      /\ t.accepted = [ u \in Universes |-> IF u \in us THEN Nothing ELSE s.accepted[u] ]
      /\ t.hashes = [ u \in Universes |-> IF u \in us THEN Nothing ELSE s.hashes[u] ]
      /\ DOMAIN t = DOMAIN s
  BY DEF Downgrade, Session
<1>2. t \in Session
  BY DEF Downgrade, Session
<1>3. QED
  BY <1>1, <1>2 DEF Backed

LEMMA AcceptedSession ==
  ASSUME NEW s \in Session, Backed(s), NEW u \in Universes, NEW f \in Fragments
  PROVE  LET t == Accept(s, u, f)
         IN  /\ t \in Session /\ Backed(t) /\ t.manifest = s.manifest
             /\ t.accepted[u] = f /\ t.status[u] = "accepted"
             /\ \A v \in Universes : v # u => /\ t.accepted[v] = s.accepted[v]
                                              /\ t.status[v] = s.status[v]
PROOF
  BY FragmentAssumption DEF Accept, Session, Backed

LEMMA RefusedSession ==
  ASSUME NEW s \in Session, Backed(s), NEW u \in Universes, s.status[u] # "accepted",
         NEW st \in {"pending", "failed"}
  PROVE  LET t == [ s EXCEPT !.status[u] = st ]
         IN  /\ t \in Session /\ Backed(t) /\ t.manifest = s.manifest
             /\ t.accepted = s.accepted
             /\ \A v \in Universes : t.status[v] = "accepted" => s.status[v] = "accepted"
PROOF
  BY DEF Session, Backed

-----------------------------------------------------------------------------
(* The step of SoundFragmentsKept.                                         *)
KeptStep ==
  \A u \in Universes :
    session.accepted[u] # Nothing /\ Qualifies(session.accepted[u], ItemOf(u))
      => sessions'[Current].accepted[u] = session.accepted[u]

(* A step between generations or within one that writes no session.        *)
LEMMA QuietStep ==
  ASSUME PipelineInv, UNCHANGED << inputs, sessions >>, patch' \in {patch, Whole, Nothing}
  PROVE  /\ sessions' \in [ Hashes -> Session ] /\ session' = session
         /\ AcceptedIsBacked' /\ ManifestInv' /\ PatchQualifies' /\ KeptStep
PROOF
<1>1. session' = session
  BY InputsDecide DEF session
<1>2. AcceptedIsBacked' /\ ManifestInv'
  BY DEF PipelineInv, AcceptedIsBacked, ManifestInv, Duplicated
<1>3. PatchQualifies'
  <2>1. CASE patch' = patch
    BY <2>1, PatchStays DEF PipelineInv
  <2>2. CASE patch' \in {Whole, Nothing}
    BY <2>2 DEF PatchQualifies
  <2>3. QED
    BY <2>1, <2>2
<1>4. QED
  BY <1>1, <1>2, <1>3 DEF KeptStep, session, PipelineInv, TypeOK

(* A generation that fails saves its session and nothing else.             *)
LEMMA FailStep ==
  ASSUME PipelineInv, NEW s \in Session, Fail(s), Backed(s),
         s.manifest => ~Duplicated(required), s.accepted = session.accepted
  PROVE  PipelineInv' /\ KeptStep
PROOF
<1> USE DEF PipelineInv
<1>1. UNCHANGED inputs /\ UNCHANGED patch /\ UNCHANGED history /\ Save(s)
  BY DEF Fail
<1>2. /\ sessions' \in [ Hashes -> Session ] /\ sessions'[Current] = s
      /\ AcceptedIsBacked' /\ ManifestInv'
  BY <1>1, SaveStep
<1>3. phase' = "idle" /\ position' = 1 /\ attempt' = 0 /\ verified' = {}
  BY DEF Fail, Return
<1>4. PatchQualifies'
  BY <1>1, PatchStays
<1>5. TypeOK'
  <2>1. 1 \in 1 .. (Len(Order) + 1)
    BY OrderFacts DEF TypeOK
  <2>2. position' \in 1 .. (Len(Order') + 1)
    BY <1>1, <1>3, <2>1, InputsDecide
  <2>3. QED
    BY <1>1, <1>2, <1>3, <2>2, BudgetAssumption DEF TypeOK, inputs, history
<1>6. KeptStep
  BY <1>2 DEF KeptStep
<1>7. QED
  BY <1>2, <1>3, <1>4, <1>5, <1>6

(* The session may have its manifest.                                      *)
LEMMA ReadyIsSingle ==
  ASSUME PipelineInv, ManifestReady \/ session.manifest
  PROVE  ~Duplicated(required)
PROOF
<1>1. Current \in Hashes /\ Current[1] = required
  BY CurrentHash DEF PipelineInv, TypeOK
<1>2. session.manifest => ~Duplicated(required)
  BY <1>1 DEF PipelineInv, ManifestInv, session
<1>3. QED
  BY <1>2, OrderFacts DEF ManifestReady, PipelineInv, TypeOK

-----------------------------------------------------------------------------
LEMMA InitPipeline == Init => PipelineInv
PROOF
<1> SUFFICES ASSUME Init
             PROVE  PipelineInv
  OBVIOUS
<1>1. NewSession \in Session /\ Backed(NewSession) /\ ~NewSession.manifest
  BY BudgetAssumption DEF NewSession, Session, Backed
<1>2. \A h \in Hashes : sessions[h] = NewSession
  BY DEF Init
<1>3. sessions \in [ Hashes -> Session ]
  BY <1>1 DEF Init
<1>4. AcceptedIsBacked
  BY <1>1, <1>2 DEF AcceptedIsBacked, Backed
<1>5. ManifestInv
  BY <1>1, <1>2 DEF ManifestInv
<1>6. PatchQualifies
  BY DEF Init, PatchQualifies
<1>7. 1 \in 1 .. (Len(Order) + 1)
  BY OrderFacts DEF Init
<1>8. TypeOK
  <2>1. 0 \in 0 .. MaxFragmentAttempts /\ 0 \in 0 .. MaxRevisions
    BY BudgetAssumption
  <2>2. QED
    BY <1>3, <1>7, <2>1 DEF Init, TypeOK
<1>9. QED
  BY <1>4, <1>5, <1>6, <1>8 DEF Init, PipelineInv

LEMMA GenerateKeeps ==
  ASSUME PipelineInv, Generate
  PROVE  PipelineInv' /\ KeptStep
PROOF
<1> USE DEF PipelineInv
<1>1. UNCHANGED inputs /\ Order' = Order /\ phase = "idle" /\ position' = position
      /\ attempt' = attempt /\ verified' = verified
  BY InputsDecide DEF Generate, ReturnWhole, Truncated, Fragment, pipeline
<1>2. phase' \in {"idle", "manifest"} /\ asked' \in BOOLEAN
  BY DEF Generate, ReturnWhole, Truncated, Fragment, pipeline, history, TypeOK
<1>3. sessions' \in [ Hashes -> Session ] => TypeOK'
  BY <1>1, <1>2 DEF TypeOK, inputs
<1>4. CASE UNCHANGED sessions /\ patch' \in {patch, Whole, Nothing}
  BY <1>1, <1>2, <1>3, <1>4, QuietStep
<1>5. ASSUME NEW n \in 1 .. 2, Truncated(n)
      PROVE  PipelineInv' /\ KeptStep
  <2> DEFINE s == [ session EXCEPT !.calls = Charge(@, n) ]
  <2>1. session \in Session /\ Backed(session)
    BY SessionFacts
  <2>2. s \in Session /\ Backed(s) /\ s.manifest = session.manifest
    BY <2>1, ChargedSession
  <2>3. s.accepted = session.accepted
    BY <2>1 DEF Session
  <2>4. Save(s) /\ patch' = patch
    BY <1>5 DEF Truncated
  <2>5. s.manifest => ~Duplicated(required)
    BY <2>2, ReadyIsSingle
  <2> HIDE DEF s
  <2>6. /\ sessions' \in [ Hashes -> Session ] /\ sessions'[Current] = s
        /\ AcceptedIsBacked' /\ ManifestInv'
    BY <1>1, <2>2, <2>4, <2>5, SaveStep
  <2>7. PatchQualifies'
    BY <1>1, <2>4, PatchStays
  <2>8. KeptStep
    BY <2>3, <2>6 DEF KeptStep
  <2>9. QED
    BY <1>1, <1>2, <1>3, <2>6, <2>7, <2>8
<1>6. QED
  BY <1>4, <1>5 DEF Generate, ReturnWhole, Fragment

LEMMA RefusalsKeep ==
  ASSUME PipelineInv, RefuseManifest \/ RefuseCoverage
  PROVE  PipelineInv' /\ KeptStep
PROOF
<1>1. session \in Session /\ Backed(session)
  BY SessionFacts DEF PipelineInv
<1>2. CASE RefuseManifest
  BY <1>1, <1>2, FailStep DEF RefuseManifest
<1>3. CASE RefuseCoverage
  <2> DEFINE s == [ session EXCEPT !.manifest = TRUE ]
  <2>1. s \in Session /\ Backed(s) /\ s.accepted = session.accepted
    BY <1>1, ManifestSession
  <2>2. Fail(s) /\ ~Duplicated(required)
    BY <1>3, ReadyIsSingle DEF RefuseCoverage
  <2> HIDE DEF s
  <2>3. QED
    BY <2>1, <2>2, FailStep
<1>4. QED
  BY <1>2, <1>3

LEMMA ResumeKeeps ==
  ASSUME PipelineInv, Resume
  PROVE  PipelineInv' /\ KeptStep
PROOF
<1> USE DEF PipelineInv
<1> DEFINE t == [ session EXCEPT !.manifest = TRUE ]
           us == TrustedAccepted(session) \ Resumable(session)
           s == Downgrade(t, us)
<1>1. session \in Session /\ Backed(session)
  BY SessionFacts
<1>2. t \in Session /\ Backed(t) /\ t.accepted = session.accepted
  BY <1>1, ManifestSession
<1>3. /\ s \in Session /\ Backed(s)
      /\ \A u \in Universes : s.accepted[u] = IF u \in us THEN Nothing ELSE session.accepted[u]
  <2> HIDE DEF t, us
  <2>1. QED
    BY <1>2, DowngradedSession
<1>4. UNCHANGED inputs /\ UNCHANGED patch /\ Save(s) /\ ~Duplicated(required)
  BY ReadyIsSingle DEF Resume
<1>5. /\ phase' = "fragments" /\ position' = position /\ attempt' = attempt
      /\ verified' = Resumable(session) /\ asked' = asked /\ position = 1
  BY DEF Resume, ManifestReady, history
<1>6. \A u \in Universes : session.status[u] = "accepted" <=> session.accepted[u] # Nothing
  BY <1>1 DEF Backed
<1>7. \A u \in Universes :
        /\ s.accepted[u] # Nothing => Qualifies(s.accepted[u], ItemOf(u))
        /\ s.status[u] = "accepted" => u \in Resumable(session)
  BY <1>3, <1>6 DEF TrustedAccepted, Resumable, Backed
<1>8. \A u \in Universes :
        session.accepted[u] # Nothing /\ Qualifies(session.accepted[u], ItemOf(u))
          => s.accepted[u] = session.accepted[u]
  BY <1>3, <1>6 DEF TrustedAccepted, Resumable
<1> HIDE DEF s, us, t
<1>9. /\ sessions' \in [ Hashes -> Session ] /\ sessions'[Current] = s /\ session' = s
      /\ AcceptedIsBacked' /\ ManifestInv'
  BY <1>3, <1>4, SaveStep
<1>10. PatchQualifies'
  BY <1>4, PatchStays
<1>11. TypeOK'
  <2>1. Resumable(session) \subseteq Universes
    BY DEF Resumable, TrustedAccepted
  <2>2. QED
    BY <1>4, <1>5, <1>9, <2>1, InputsDecide DEF TypeOK, inputs
<1>12. PassInv'
  <2>1. Duplicated(required)' <=> Duplicated(required)
    BY <1>4, InputsDecide DEF Duplicated
  <2>2. \A i : i \notin 1 .. (position' - 1)
    BY <1>5
  <2>3. QED
    BY <1>4, <1>5, <1>7, <1>9, <2>1, <2>2, InputsDecide DEF PassInv
<1>13. KeptStep
  BY <1>8, <1>9 DEF KeptStep
<1>14. QED
  BY <1>5, <1>9, <1>10, <1>11, <1>12, <1>13

-----------------------------------------------------------------------------
(* The universe in hand has no fragment unless it was verified: it was not *)
(* passed, for it comes once.                                              *)
LEMMA InHandIsOpen ==
  ASSUME PipelineInv, NEW u, InHand(u)
  PROVE  /\ u \in Universes /\ position \in DOMAIN Order /\ position \in Nat
         /\ DOMAIN Order = 1 .. Len(Order) /\ Len(Order) \in Nat
         /\ ItemOf(u) \in { required.items[i] : i \in DOMAIN required.items }
         /\ ~Done(u) => session.status[u] # "accepted" /\ session.accepted[u] = Nothing
PROOF
<1> USE DEF PipelineInv
<1>1. required \in RequirementSets
  BY DEF TypeOK
<1>2. position \in 1 .. Len(Order) /\ u = Order[position]
  BY <1>1, OrderFacts DEF InHand, TypeOK
<1>3. position \in DOMAIN Order /\ u \in UniversesOf(required) /\ u \in Universes
  BY <1>1, <1>2, OrderFacts
<1>4. ItemOf(u) \in { required.items[i] : i \in DOMAIN required.items }
  BY <1>3 DEF ItemOf, UniversesOf
<1>5. ~Passed(u)
  <2>1. \A i \in DOMAIN Order : i # position => Order[i] # u
    BY <1>1, <1>2, <1>3, OrderFacts DEF InHand, PassInv, Duplicated
  <2>2. \A i \in 1 .. (position - 1) : i # position
    BY <1>1, <1>2, OrderFacts
  <2>3. QED
    BY <2>1, <2>2 DEF Passed
<1>6. ~Done(u) => session.status[u] # "accepted"
  BY <1>3, <1>5 DEF InHand, PassInv, Done
<1>7. QED
  BY <1>1, <1>2, <1>3, <1>4, <1>6, OrderFacts, SessionFacts DEF Backed

(* The pass goes on to the next universe.                                  *)
LEMMA AdvanceStep ==
  ASSUME PipelineInv, NEW u, InHand(u), Advance, UNCHANGED inputs
  PROVE  /\ position' \in 1 .. (Len(Order') + 1) /\ attempt' \in 0 .. MaxFragmentAttempts
         /\ \A i \in 1 .. (position' - 1) : i \in 1 .. (position - 1) \/ i = position
         /\ Passed(u)' /\ \A v : Passed(v) => Passed(v)'
PROOF
<1>1. /\ position \in 1 .. Len(Order) /\ Len(Order) \in Nat /\ u = Order[position]
      /\ DOMAIN Order = 1 .. Len(Order)
  BY InHandIsOpen DEF InHand
<1>2. position' = position + 1 /\ attempt' = 0 /\ Order' = Order
  BY InputsDecide DEF Advance
<1>3. /\ position' \in 1 .. (Len(Order') + 1)
      /\ \A i \in 1 .. (position' - 1) : i \in 1 .. (position - 1) \/ i = position
      /\ \A i \in 1 .. (position - 1) : i \in 1 .. (position' - 1)
      /\ position \in 1 .. (position' - 1)
  BY <1>1, <1>2
<1>4. Passed(u)' /\ \A v : Passed(v) => Passed(v)'
  BY <1>1, <1>2, <1>3 DEF Passed
<1>5. QED
  BY <1>2, <1>3, <1>4, BudgetAssumption

LEMMA KeepKeeps ==
  ASSUME PipelineInv, NEW u, Keep(u)
  PROVE  PipelineInv' /\ KeptStep
PROOF
<1> USE DEF PipelineInv
<1>1. /\ InHand(u) /\ Done(u) /\ Advance /\ UNCHANGED << inputs, patch, sessions >>
      /\ phase' = phase /\ verified' = verified /\ asked' = asked /\ phase = "fragments"
  BY DEF Keep, history, InHand
<1>2. /\ sessions' \in [ Hashes -> Session ] /\ session' = session
      /\ AcceptedIsBacked' /\ ManifestInv' /\ PatchQualifies' /\ KeptStep
  BY <1>1, QuietStep
<1>3. /\ position' \in 1 .. (Len(Order') + 1) /\ attempt' \in 0 .. MaxFragmentAttempts
      /\ \A i \in 1 .. (position' - 1) : i \in 1 .. (position - 1) \/ i = position
      /\ \A v : Passed(v) => Passed(v)'
  BY <1>1, AdvanceStep
<1>4. TypeOK'
  BY <1>1, <1>2, <1>3 DEF TypeOK, inputs
<1>5. session.accepted[Order[position]] # Nothing
  BY <1>1, InHandIsOpen, SessionFacts DEF Done, InHand, Backed
<1>6. PassInv'
  <2>1. Duplicated(required)' <=> Duplicated(required)
    BY <1>1, InputsDecide DEF Duplicated
  <2>2. QED
    BY <1>1, <1>2, <1>3, <1>5, <2>1, InputsDecide DEF PassInv
<1>7. QED
  BY <1>1, <1>2, <1>4, <1>6

(* A fragment that qualifies is accepted for the universe in hand, by the  *)
(* model (s is charged) or by the oracle (s is the session).               *)
LEMMA AcceptStep ==
  ASSUME PipelineInv, NEW u, InHand(u), ~Done(u), NEW f \in Fragments, Qualifies(f, ItemOf(u)),
         NEW s \in Session, Backed(s), s.manifest = session.manifest,
         s.accepted = session.accepted, s.status = session.status,
         Save(Accept(s, u, f)), Advance,
         UNCHANGED << inputs, patch, phase, verified >>, asked' \in BOOLEAN
  PROVE  PipelineInv' /\ KeptStep
PROOF
<1> USE DEF PipelineInv
<1> DEFINE t == Accept(s, u, f)
<1>1. /\ u \in Universes /\ u = Order[position] /\ phase = "fragments"
      /\ session.accepted[u] = Nothing
  BY InHandIsOpen DEF InHand
<1>2. /\ t \in Session /\ Backed(t) /\ t.manifest = s.manifest
      /\ t.accepted[u] = f /\ t.status[u] = "accepted"
      /\ \A v \in Universes : v # u => t.accepted[v] = s.accepted[v] /\ t.status[v] = s.status[v]
  BY <1>1, AcceptedSession
<1>3. t.manifest => ~Duplicated(required)
  BY <1>2, ReadyIsSingle
<1>4. Save(t) /\ UNCHANGED inputs /\ UNCHANGED patch
  OBVIOUS
<1> HIDE DEF t
<1>5. /\ sessions' \in [ Hashes -> Session ] /\ sessions'[Current] = t /\ session' = t
      /\ AcceptedIsBacked' /\ ManifestInv'
  BY <1>2, <1>3, <1>4, SaveStep
<1>6. PatchQualifies'
  BY <1>4, PatchStays
<1>7. /\ position' \in 1 .. (Len(Order') + 1) /\ attempt' \in 0 .. MaxFragmentAttempts
      /\ \A i \in 1 .. (position' - 1) : i \in 1 .. (position - 1) \/ i = position
      /\ Passed(u)' /\ \A v : Passed(v) => Passed(v)'
  BY <1>4, AdvanceStep
<1>8. TypeOK'
  BY <1>4, <1>5, <1>7 DEF TypeOK, inputs
<1>9. PassInv'
  <2>1. Duplicated(required)' <=> Duplicated(required)
    BY <1>4, InputsDecide DEF Duplicated
  <2>2. \A v \in Universes : t.accepted[v] # Nothing => Qualifies(t.accepted[v], ItemOf(v))
    BY <1>1, <1>2 DEF PassInv
  <2>3. \A i \in 1 .. (position' - 1) : i \in DOMAIN Order => t.accepted[Order[i]] # Nothing
    <3> SUFFICES ASSUME NEW i \in 1 .. (position' - 1), i \in DOMAIN Order
                 PROVE  t.accepted[Order[i]] # Nothing
      OBVIOUS
    <3>1. Order[i] \in Universes
      BY OrderFacts DEF TypeOK
    <3>2. CASE Order[i] = u
      BY <1>2, <3>2, FragmentAssumption
    <3>3. CASE Order[i] # u
      BY <1>1, <1>2, <1>7, <3>1, <3>3 DEF PassInv
    <3>4. QED
      BY <3>2, <3>3
  <2>4. \A v \in Universes : t.status[v] = "accepted" => v \in verified' \/ Passed(v)'
    BY <1>1, <1>2, <1>7 DEF PassInv
  <2>5. QED
    BY <1>1, <1>4, <1>5, <2>1, <2>2, <2>3, <2>4, InputsDecide DEF PassInv
<1>10. KeptStep
  BY <1>1, <1>2, <1>5 DEF KeptStep
<1>11. QED
  BY <1>1, <1>5, <1>6, <1>8, <1>9, <1>10

LEMMA AcceptAnswerKeeps ==
  ASSUME PipelineInv, NEW u, NEW f \in Fragments, AcceptAnswer(u, f)
  PROVE  PipelineInv' /\ KeptStep
PROOF
<1> DEFINE s == [ session EXCEPT !.calls = @ + 1 ]
<1>1. session \in Session /\ Backed(session)
  BY SessionFacts DEF PipelineInv
<1>2. session.calls < MaxTotalCalls
  BY DEF AcceptAnswer, CallModel, MayCall
<1>3. /\ s \in Session /\ Backed(s) /\ s.manifest = session.manifest
      /\ s.accepted = session.accepted /\ s.status = session.status
  BY <1>1, <1>2, CalledSession
<1>4. /\ InHand(u) /\ ~Done(u) /\ Qualifies(f, ItemOf(u)) /\ Save(Accept(s, u, f)) /\ Advance
      /\ UNCHANGED << inputs, patch, phase, verified >> /\ asked' \in BOOLEAN
  BY DEF AcceptAnswer, CallModel
<1> HIDE DEF s
<1>5. QED
  BY <1>3, <1>4, AcceptStep

LEMMA ConstructKeeps ==
  ASSUME PipelineInv, NEW u, Construct(u)
  PROVE  PipelineInv' /\ KeptStep
PROOF
<1> DEFINE f == Proposal(ItemOf(u), materials)
<1>1. session \in Session /\ Backed(session)
  BY SessionFacts DEF PipelineInv
<1>2. InHand(u) /\ ~Done(u) /\ f # Nothing /\ Qualifies(f, ItemOf(u))
  BY DEF Construct, Exhausted, Constructed
<1>3. f \in Fragments
  <2>1. PICK i \in DOMAIN required.items : ItemOf(u) = required.items[i]
    BY <1>2, InHandIsOpen
  <2>2. QED
    BY <1>2, <2>1, FragmentAssumption DEF PipelineInv, TypeOK
<1>4. /\ Save(Accept(session, u, f)) /\ Advance
      /\ UNCHANGED << inputs, patch, phase, verified >> /\ asked' \in BOOLEAN
  BY DEF Construct, history, PipelineInv, TypeOK
<1> HIDE DEF f
<1>5. QED
  BY <1>1, <1>2, <1>3, <1>4, AcceptStep

LEMMA RejectAnswerKeeps ==
  ASSUME PipelineInv, NEW u, RejectAnswer(u)
  PROVE  PipelineInv' /\ KeptStep
PROOF
<1> USE DEF PipelineInv
<1> DEFINE c == [ session EXCEPT !.calls = @ + 1 ]
           s == [ c EXCEPT !.status[u] = "pending" ]
<1>1. session \in Session /\ Backed(session)
  BY SessionFacts
<1>2. /\ InHand(u) /\ ~Done(u) /\ attempt < MaxFragmentAttempts /\ session.calls < MaxTotalCalls
      /\ UNCHANGED inputs /\ UNCHANGED patch /\ phase' = phase /\ verified' = verified
      /\ position' = position /\ attempt' = attempt + 1 /\ asked' = TRUE
      /\ phase = "fragments"
  BY DEF RejectAnswer, CallModel, MayCall, InHand
<1>3. u \in Universes /\ session.status[u] # "accepted"
  BY <1>2, InHandIsOpen
<1>4. /\ c \in Session /\ Backed(c) /\ c.manifest = session.manifest
      /\ c.accepted = session.accepted /\ c.status = session.status
  BY <1>1, <1>2, CalledSession
<1>5. /\ s \in Session /\ Backed(s) /\ s.manifest = session.manifest
      /\ s.accepted = session.accepted
      /\ \A v \in Universes : s.status[v] = "accepted" => session.status[v] = "accepted"
  <2> HIDE DEF c
  <2>1. c.status[u] # "accepted"
    BY <1>3, <1>4
  <2>2. /\ s \in Session /\ Backed(s) /\ s.manifest = c.manifest
        /\ s.accepted = c.accepted
        /\ \A v \in Universes : s.status[v] = "accepted" => c.status[v] = "accepted"
    BY <1>3, <1>4, <2>1, RefusedSession
  <2> HIDE DEF s
  <2>3. QED
    BY <1>4, <2>2
<1>6. Save(s)
  <2>1. s = [ session EXCEPT !.calls = @ + 1, !.status[u] = "pending" ]
    BY <1>1 DEF Session
  <2>2. QED
    BY <2>1 DEF RejectAnswer
<1> HIDE DEF s, c
<1>7. /\ sessions' \in [ Hashes -> Session ] /\ sessions'[Current] = s /\ session' = s
      /\ AcceptedIsBacked' /\ ManifestInv'
  BY <1>2, <1>5, <1>6, ReadyIsSingle, SaveStep
<1>8. PatchQualifies'
  BY <1>2, PatchStays
<1>9. TypeOK'
  <2>1. attempt' \in 0 .. MaxFragmentAttempts
    BY <1>2, BudgetAssumption DEF TypeOK
  <2>2. QED
    BY <1>2, <1>7, <2>1, InputsDecide DEF TypeOK, inputs
<1>10. PassInv'
  <2>1. Duplicated(required)' <=> Duplicated(required)
    BY <1>2, InputsDecide DEF Duplicated
  <2>2. \A v : Passed(v)' <=> Passed(v)
    BY <1>2, InputsDecide DEF Passed
  <2>3. QED
    BY <1>2, <1>5, <1>7, <2>1, <2>2, InputsDecide DEF PassInv
<1>11. KeptStep
  BY <1>5, <1>7 DEF KeptStep
<1>12. QED
  BY <1>2, <1>7, <1>8, <1>9, <1>10, <1>11

LEMMA FailFragmentKeeps ==
  ASSUME PipelineInv, NEW u, FailFragment(u)
  PROVE  PipelineInv' /\ KeptStep
PROOF
<1> DEFINE s == [ session EXCEPT !.status[u] = "failed" ]
<1>1. session \in Session /\ Backed(session)
  BY SessionFacts DEF PipelineInv
<1>2. InHand(u) /\ ~Done(u) /\ Fail(s)
  BY DEF FailFragment, Exhausted
<1>3. u \in Universes /\ session.status[u] # "accepted"
  BY <1>2, InHandIsOpen
<1>4. /\ s \in Session /\ Backed(s) /\ s.manifest = session.manifest
      /\ s.accepted = session.accepted
  BY <1>1, <1>3, RefusedSession
<1> HIDE DEF s
<1>5. QED
  BY <1>2, <1>4, ReadyIsSingle, FailStep

-----------------------------------------------------------------------------
(* What a patch has to be before its aliases, and stays while it is        *)
(* normalised: its required universes do what their items ask, and no cell *)
(* cites a material that is not accepted.                                  *)
Usable(p) ==
  /\ \A u \in UniversesOf(required) \ Satellites :
       ~Spurious(u) => u \in DOMAIN p /\ Fulfils(p[u], ItemOf(u))
  /\ \A u \in DOMAIN p : Cites(p[u]) \subseteq DOMAIN materials

LEMMA QualifiedFulfils ==
  ASSUME NEW f, NEW item, Qualifies(f, item)
  PROVE  Fulfils(f, item)
PROOF
  BY DEF Qualifies, Fulfils, Covers

(* More cells do no harm unless they are fuel.                             *)
LEMMA MoreFulfils ==
  ASSUME NEW f, NEW item, Fulfils(f, item), NEW cells,
         Satellites = {} => \A cell \in cells : cell.role # "fuel"
  PROVE  Fulfils(WithCells(f, f.cells \cup cells), item)
PROOF
<1> DEFINE g == WithCells(f, f.cells \cup cells)
<1>1. g.cells = f.cells \cup cells
  BY DEF WithCells
<1>2. RolesIn(f) \subseteq RolesIn(g) /\ Cites(f) \subseteq Cites(g)
  BY <1>1 DEF RolesIn, Cites
<1>3. Roles(Cites(f)) \subseteq Roles(Cites(g))
  BY <1>2 DEF Roles
<1> HIDE DEF g
<1>4. item.cells \subseteq RolesIn(g)
  BY <1>2 DEF Fulfils
<1>5. \A role \in item.roles \ {"coolant", "moderator"} :
        \E actual \in Roles(Cites(g)) : Satisfies(actual, role)
  BY <1>3 DEF Fulfils
<1>6. Satellites = {} => \A cell \in g.cells : cell.role = "fuel" => cell \in f.cells
  BY <1>1
<1>7. Fulfils(g, item)
  BY <1>4, <1>5, <1>6 DEF Fulfils
<1>8. QED
  BY <1>7 DEF g

LEMMA StrippedIsUsable ==
  ASSUME NEW p, Usable(p)
  PROVE  Usable(Stripped(p))
PROOF
  BY DEF Usable, Stripped

LEMMA AnchorsAreCoolants == Anchors \subseteq Coolants
PROOF
  BY DEF Anchors

(* Other water does what was asked of the water.                           *)
LEMMA ModeratedIsUsable ==
  ASSUME NEW p, Usable(p)
  PROVE  Usable(Moderated(p))
PROOF
<1> DEFINE q == Moderated(p)
<1>1. DOMAIN q = DOMAIN p
      /\ \A u \in DOMAIN p : q[u].cells = { Moderate(c) : c \in p[u].cells }
  BY DEF Moderated, WithCells
<1>2. \A c : /\ Moderate(c).role = c.role
             /\ \/ Moderate(c).material = c.material
                \/ c.material \in Coolants /\ Moderate(c).material \in Coolants
  <2>1. Anchors # {} => (CHOOSE id \in Anchors : TRUE) \in Coolants
    BY AnchorsAreCoolants
  <2>2. QED
    BY <2>1 DEF Moderate, CellOf
<1>3. ASSUME NEW u \in DOMAIN p
      PROVE  /\ RolesIn(q[u]) = RolesIn(p[u])
             /\ Cites(p[u]) \subseteq DOMAIN materials => Cites(q[u]) \subseteq DOMAIN materials
             /\ Cites(p[u]) \ Coolants \subseteq Cites(q[u])
  BY <1>1, <1>2 DEF RolesIn, Cites, Coolants
<1>4. ASSUME NEW u \in DOMAIN p, NEW item, Fulfils(p[u], item)
      PROVE  Fulfils(q[u], item)
  <2>1. item.cells \subseteq RolesIn(q[u])
    BY <1>3, <1>4 DEF Fulfils
  <2>2. ASSUME NEW role \in item.roles \ {"coolant", "moderator"}
        PROVE  \E actual \in Roles(Cites(q[u])) : Satisfies(actual, role)
    <3>1. PICK id \in Cites(p[u]) : Satisfies(materials[id].role, role)
      BY <1>4 DEF Fulfils, Roles
    <3>2. materials[id].role \notin {"coolant", "moderator"}
      BY <3>1 DEF Satisfies
    <3>3. id \in Cites(q[u])
      BY <1>3, <3>2 DEF Coolants
    <3>4. QED
      BY <3>1, <3>3 DEF Roles
  <2>3. ASSUME item.variant # Nothing, Satellites = {},
               NEW cell \in q[u].cells, cell.role = "fuel", materials[cell.material].role = "fuel"
        PROVE  materials[cell.material].variant \in {Nothing, item.variant}
    <3>1. PICK c \in p[u].cells : cell = Moderate(c)
      BY <1>1, <2>3
    <3>2. cell.material = c.material /\ c.role = "fuel"
      BY <1>2, <2>3, <3>1 DEF Coolants
    <3>3. QED
      BY <1>4, <2>3, <3>2 DEF Fulfils
  <2>4. QED
    BY <2>1, <2>2, <2>3 DEF Fulfils
<1> HIDE DEF q
<1>5. Usable(q)
  BY <1>1, <1>3, <1>4 DEF Usable
<1>6. QED
  BY <1>5 DEF q

LEMMA CorrectedIsUsable ==
  ASSUME NEW p, Usable(p)
  PROVE  Usable(Corrected(p))
PROOF
<1> DEFINE q == Corrected(p)
<1>1. /\ DOMAIN q = DOMAIN p
      /\ \A u \in DOMAIN p \ Satellites : q[u] = p[u]
      /\ \A u \in DOMAIN p \cap Satellites : q[u].cells = { Correct(c) : c \in p[u].cells }
  BY DEF Corrected, WithCells
<1>2. \A c : Correct(c).material = c.material
  BY DEF Correct, CellOf
<1>3. \A u \in DOMAIN p : Cites(q[u]) = Cites(p[u])
  BY <1>1, <1>2 DEF Cites
<1> HIDE DEF q
<1>4. Usable(q)
  BY <1>1, <1>3 DEF Usable
<1>5. QED
  BY <1>4 DEF q

(* The satellite goes, its host keeps what it had.                         *)
LEMMA AbsorbedIsUsable ==
  ASSUME NEW p, Usable(p), NEW q \in Absorptions(p)
  PROVE  Usable(q)
PROOF
<1>1. CASE q = p
  BY <1>1
<1>2. CASE q # p
  <2>1. PICK s \in Satellites \cap DOMAIN p :
          \E v \in DOMAIN p \ {s}, cells \in SUBSET p[s].cells : q = Absorbed(p, s, v, cells)
    BY <1>2 DEF Absorptions, Hosts
  <2> PICK v \in DOMAIN p \ {s}, cells \in SUBSET p[s].cells : q = Absorbed(p, s, v, cells)
    BY <2>1
  <2>2. /\ DOMAIN q = DOMAIN p \ {s}
        /\ q[v] = WithCells(p[v], p[v].cells \cup cells)
        /\ \A u \in DOMAIN q : u # v => q[u] = p[u]
    BY <2>1 DEF Absorbed
  <2>3. Cites(q[v]) \subseteq Cites(p[v]) \cup Cites(p[s])
    BY <2>1, <2>2 DEF Cites, WithCells
  <2>4. \A item : Fulfils(p[v], item) => Fulfils(q[v], item)
    BY <2>1, <2>2, MoreFulfils
  <2>5. QED
    BY <2>1, <2>2, <2>3, <2>4 DEF Usable
<1>3. QED
  BY <1>1, <1>2

LEMMA FilledIsUsable ==
  ASSUME NEW p, Usable(p)
  PROVE  Usable(WithBackgrounds(p))
PROOF
<1> DEFINE q == WithBackgrounds(p)
<1>1. DOMAIN q = DOMAIN p /\ \A u \in DOMAIN p : q[u] = Filled(u, p[u])
  BY DEF WithBackgrounds
<1>2. ASSUME NEW u \in DOMAIN p
      PROVE  /\ \A item : Fulfils(p[u], item) => Fulfils(q[u], item)
             /\ Cites(p[u]) \subseteq DOMAIN materials => Cites(q[u]) \subseteq DOMAIN materials
  <2>1. CASE q[u] = p[u]
    BY <2>1
  <2>2. CASE q[u] # p[u]
    <3> DEFINE id == CHOOSE id \in Fillings(p[u]) : TRUE
               cell == CellOf("background", id, TRUE)
    <3>1. Fillings(p[u]) # {} /\ q[u] = WithCells(p[u], p[u].cells \cup {cell})
      BY <1>1, <2>2 DEF Filled
    <3>2. id \in DOMAIN materials
      BY <3>1 DEF Fillings
    <3>3. cell.role = "background" /\ cell.material = id
      BY DEF CellOf
    <3> HIDE DEF id, cell
    <3>4. Cites(q[u]) = Cites(p[u]) \cup {id}
      BY <3>1, <3>3 DEF Cites, WithCells
    <3>5. \A item : Fulfils(p[u], item) => Fulfils(q[u], item)
      BY <3>1, <3>3, MoreFulfils
    <3>6. QED
      BY <3>2, <3>4, <3>5
  <2>3. QED
    BY <2>1, <2>2
<1> HIDE DEF q
<1>3. Usable(q)
  BY <1>1, <1>2 DEF Usable
<1>4. QED
  BY <1>3 DEF q

LEMMA NormalisedIsUsable ==
  ASSUME NEW p, Usable(p), NEW q \in Normalised(p)
  PROVE  Usable(q)
PROOF
<1>1. Usable(Corrected(Moderated(Stripped(p))))
  BY StrippedIsUsable, ModeratedIsUsable, CorrectedIsUsable
<1>2. PICK r \in Absorptions(Corrected(Moderated(Stripped(p)))) : q = WithBackgrounds(r)
  BY DEF Normalised
<1>3. QED
  BY <1>1, <1>2, AbsorbedIsUsable, FilledIsUsable

(* Copies cite what is cited, the gas of a plenum too.                     *)
LEMMA AliasesAreUsable ==
  ASSUME NEW p, Usable(p), ~AliasMissing(p)
  PROVE  Usable(WithAliases(p)) /\ DOMAIN required.expected \subseteq DOMAIN WithAliases(p)
PROOF
<1> DEFINE q == WithAliases(p)
<1>1. /\ DOMAIN q = DOMAIN p \cup DOMAIN required.expected
      /\ \A u \in DOMAIN p : q[u] = p[u]
      /\ \A u \in DOMAIN q \ DOMAIN p : q[u] = Alias(p, u)
  BY DEF WithAliases
<1>2. ASSUME NEW f
      PROVE  Cites(Plenum(f)) \subseteq Cites(f)
  <2>1. CASE Gases(f) = {}
    BY <2>1 DEF Plenum
  <2>2. CASE Gases(f) # {}
    <3> DEFINE gas == CHOOSE id \in Gases(f) : TRUE
               fill(cell) == IF cell.role \in {"poison", "absorber"}
                             THEN CellOf("gas_gap", gas, cell.background) ELSE cell
    <3>1. gas \in Cites(f)
      BY <2>2 DEF Gases, Cites
    <3>2. Plenum(f).cells = { fill(c) : c \in f.cells }
      BY <2>2 DEF Plenum, WithCells
    <3>3. \A c : fill(c).material \in {gas, c.material}
      BY DEF CellOf
    <3> HIDE DEF gas, fill
    <3>4. QED
      BY <3>1, <3>2, <3>3 DEF Cites
  <2>3. QED
    BY <2>1, <2>2
<1>3. ASSUME NEW u \in DOMAIN q \ DOMAIN p
      PROVE  Cites(q[u]) \subseteq DOMAIN materials
  <2> DEFINE v == CHOOSE v \in Sources(p, u) : TRUE
  <2>1. v \in DOMAIN p
    BY <1>1 DEF AliasMissing, Sources
  <2>2. q[u] = IF u \in required.plenums THEN Plenum(p[v]) ELSE p[v]
    BY <1>1 DEF Alias
  <2>3. Cites(q[u]) \subseteq Cites(p[v])
    BY <1>2, <2>2
  <2>4. QED
    BY <2>1, <2>3 DEF Usable
<1> HIDE DEF q
<1>4. Usable(q)
  BY <1>1, <1>3 DEF Usable
<1>5. QED
  BY <1>1, <1>4 DEF q

-----------------------------------------------------------------------------
(* At the merge every required universe has a fragment that qualifies.     *)
LEMMA MergingQualifies ==
  ASSUME PipelineInv, Merging, NEW u \in UniversesOf(required)
  PROVE  session.accepted[u] \in Fragments /\ Qualifies(session.accepted[u], ItemOf(u))
PROOF
<1> USE DEF PipelineInv
<1>1. PICK i \in DOMAIN Order : u = Order[i]
  BY OrderFacts DEF TypeOK
<1>2. u \in Universes
  BY OrderFacts DEF TypeOK
<1>3. i \in 1 .. (position - 1)
  BY <1>1, OrderFacts DEF Merging, TypeOK
<1>4. session.accepted[u] # Nothing
  BY <1>1, <1>3 DEF Merging, PassInv
<1>5. session.accepted[u] \in Fragments
  BY <1>2, <1>4, SessionFacts DEF Session
<1>6. QED
  BY <1>2, <1>4, <1>5 DEF Merging, PassInv

LEMMA MergedIsUsable ==
  ASSUME PipelineInv, Merging
  PROVE  Usable(Merged(session))
PROOF
<1>1. /\ DOMAIN Merged(session) = UniversesOf(required)
      /\ \A u \in UniversesOf(required) : Merged(session)[u] = session.accepted[u]
  BY DEF Merged
<1>2. \A u \in UniversesOf(required) :
        /\ Fulfils(session.accepted[u], ItemOf(u))
        /\ Cites(session.accepted[u]) \subseteq DOMAIN materials
  BY MergingQualifies, QualifiedFulfils DEF Qualifies
<1>3. QED
  BY <1>1, <1>2 DEF Usable

LEMMA MergeFlagsNothing == PipelineInv => MergeIsClean
PROOF
  BY MergingQualifies, FragmentAssumption DEF MergeIsClean, Flagged, Qualifies

LEMMA MergeKeeps ==
  ASSUME PipelineInv, RefuseMerge \/ ReturnMerged
  PROVE  PipelineInv' /\ KeptStep
PROOF
<1> USE DEF PipelineInv
<1>1. session \in Session /\ Backed(session)
  BY SessionFacts
<1>2. CASE RefuseMerge
  BY <1>1, <1>2, FailStep, ReadyIsSingle DEF RefuseMerge
<1>3. CASE ReturnMerged
  <2>1. /\ Merging /\ Save(session) /\ UNCHANGED << inputs, history >>
        /\ phase' = "idle" /\ position' = 1 /\ attempt' = 0 /\ verified' = {}
        /\ \E p \in Normalised(Merged(session)) : ~AliasMissing(p) /\ patch' = WithAliases(p)
    BY <1>3 DEF ReturnMerged, Return, Unusable
  <2>2. /\ sessions' \in [ Hashes -> Session ] /\ sessions'[Current] = session
        /\ AcceptedIsBacked' /\ ManifestInv'
    BY <1>1, <2>1, ReadyIsSingle, SaveStep
  <2>3. Usable(patch') /\ DOMAIN required.expected \subseteq DOMAIN patch'
    BY <2>1, MergedIsUsable, NormalisedIsUsable, AliasesAreUsable
  <2>4. UniversesOf(required)' = UniversesOf(required)
    BY <2>1, InputsDecide DEF UniversesOf
  <2>5. PatchQualifies'
    BY <2>1, <2>3, <2>4, InputsDecide DEF PatchQualifies, Usable
  <2>6. TypeOK'
    <3>1. 1 \in 1 .. (Len(Order) + 1)
      BY OrderFacts DEF TypeOK
    <3>2. position' \in 1 .. (Len(Order') + 1)
      BY <2>1, <3>1, InputsDecide
    <3>3. QED
      BY <2>1, <2>2, <3>2, BudgetAssumption DEF TypeOK, inputs, history
  <2>7. KeptStep
    BY <2>2 DEF KeptStep
  <2>8. QED
    BY <2>1, <2>2, <2>5, <2>6, <2>7
<1>4. QED
  BY <1>2, <1>3

LEMMA RejectKeeps ==
  ASSUME PipelineInv, Reject
  PROVE  PipelineInv' /\ KeptStep
PROOF
<1> USE DEF PipelineInv
<1>1. /\ UNCHANGED << inputs, sessions >> /\ patch' = Nothing /\ asked' = FALSE
      /\ phase' = phase /\ position' = position /\ attempt' = attempt /\ verified' = verified
      /\ phase = "idle"
  BY DEF Reject, pipeline
<1>2. /\ sessions' \in [ Hashes -> Session ] /\ AcceptedIsBacked' /\ ManifestInv'
      /\ PatchQualifies' /\ KeptStep
  BY <1>1, QuietStep
<1>3. TypeOK'
  BY <1>1, <1>2, InputsDecide DEF TypeOK, inputs
<1>4. QED
  BY <1>1, <1>2, <1>3

LEMMA ReviseKeeps ==
  ASSUME PipelineInv, NEW r \in RequirementSets, NEW m \in MaterialPatches, Revise(r, m)
  PROVE  PipelineInv' /\ KeptStep
PROOF
<1> USE DEF PipelineInv
<1>1. /\ required' = r /\ materials' = m /\ patch' = Nothing /\ sessions' = sessions
      /\ revisions' \in 0 .. MaxRevisions /\ asked' = FALSE
      /\ phase' = phase /\ position' = position /\ attempt' = attempt /\ verified' = verified
      /\ phase = "idle"
  BY BudgetAssumption DEF Revise, pipeline, TypeOK
<1>2. AcceptedIsBacked' /\ ManifestInv' /\ PatchQualifies'
  BY <1>1 DEF AcceptedIsBacked, ManifestInv, Duplicated, PatchQualifies
<1>3. position' \in 1 .. (Len(Order') + 1)
  <2>1. Len([ i \in DOMAIN r.items |-> r.items[i].universe ]) \in Nat
    <3>1. r.items \in Seq({ r.items[i] : i \in DOMAIN r.items })
      BY RequirementAssumption
    <3>2. DOMAIN r.items = 1 .. Len(r.items) /\ Len(r.items) \in Nat
      BY <3>1
    <3>3. QED
      BY <3>2
  <2>2. Order' = [ i \in DOMAIN r.items |-> r.items[i].universe ]
    BY <1>1 DEF Order
  <2>3. QED
    BY <1>1, <2>1, <2>2
<1>4. TypeOK'
  BY <1>1, <1>3 DEF TypeOK
<1>5. KeptStep
  BY <1>1 DEF KeptStep, session
<1>6. QED
  BY <1>1, <1>2, <1>4, <1>5

LEMMA NextKeeps ==
  ASSUME PipelineInv, [Next]_vars
  PROVE  PipelineInv' /\ KeptStep
PROOF
<1>1. CASE Step
  <2>1. CASE RefuseManifest \/ RefuseCoverage
    BY <2>1, RefusalsKeep
  <2>2. CASE Resume
    BY <2>2, ResumeKeeps
  <2>3. ASSUME NEW u \in Universes, Keep(u)
        PROVE  PipelineInv' /\ KeptStep
    BY <2>3, KeepKeeps
  <2>4. ASSUME NEW u \in Universes, RejectAnswer(u)
        PROVE  PipelineInv' /\ KeptStep
    BY <2>4, RejectAnswerKeeps
  <2>5. ASSUME NEW u \in Universes, Construct(u)
        PROVE  PipelineInv' /\ KeptStep
    BY <2>5, ConstructKeeps
  <2>6. ASSUME NEW u \in Universes, FailFragment(u)
        PROVE  PipelineInv' /\ KeptStep
    BY <2>6, FailFragmentKeeps
  <2>7. ASSUME NEW u \in Universes, NEW f \in Fragments, AcceptAnswer(u, f)
        PROVE  PipelineInv' /\ KeptStep
    BY <2>7, AcceptAnswerKeeps
  <2>8. CASE RefuseMerge \/ ReturnMerged
    BY <2>8, MergeKeeps
  <2>9. QED
    BY <1>1, <2>1, <2>2, <2>3, <2>4, <2>5, <2>6, <2>7, <2>8 DEF Step
<1>2. CASE UNCHANGED vars
  <2>1. /\ UNCHANGED << inputs, sessions >> /\ patch' = patch /\ asked' = asked
        /\ phase' = phase /\ position' = position /\ attempt' = attempt /\ verified' = verified
    BY <1>2 DEF vars, pipeline, history
  <2>2. /\ session' = session /\ AcceptedIsBacked' /\ ManifestInv' /\ PatchQualifies' /\ KeptStep
    BY <2>1, QuietStep
  <2>3. TypeOK'
    BY <2>1, InputsDecide DEF PipelineInv, TypeOK, inputs
  <2>4. PassInv => PassInv'
    <3>1. Duplicated(required)' <=> Duplicated(required)
      BY <2>1, InputsDecide DEF Duplicated
    <3>2. \A v : Passed(v)' <=> Passed(v)
      BY <2>1, InputsDecide DEF Passed
    <3>3. QED
      BY <2>1, <2>2, <3>1, <3>2, InputsDecide DEF PassInv
  <2>5. QED
    BY <2>1, <2>2, <2>3, <2>4 DEF PipelineInv
<1>3. QED
  BY <1>1, <1>2, GenerateKeeps, RejectKeeps, ReviseKeeps DEF Next

-----------------------------------------------------------------------------
(* The inductive invariant: sessions that are backed and single, what was  *)
(* accepted in a pass, and the patch made of it.                           *)
THEOREM PipelineInvariant == Spec => []PipelineInv
PROOF
<1>1. PipelineInv /\ [Next]_vars => PipelineInv'
  BY NextKeeps
<1>2. QED
  BY <1>1, InitPipeline, PTL DEF Spec

(* Types, and no session is charged more calls than its budget.            *)
THEOREM PipelineTypeCorrect == Spec => []TypeOK
PROOF
<1>1. PipelineInv => TypeOK
  BY DEF PipelineInv
<1>2. QED
  BY <1>1, PipelineInvariant, PTL

(* A session has a record and a hash for exactly what it calls accepted.   *)
THEOREM SessionsBacked == Spec => []AcceptedIsBacked
PROOF
<1>1. PipelineInv => AcceptedIsBacked
  BY DEF PipelineInv
<1>2. QED
  BY <1>1, PipelineInvariant, PTL

(* Whatever was dropped, merged, rewritten and copied after the merge, a   *)
(* valid patch has its required universes, but for satellites and poisons  *)
(* Facts do not declare, and they do what their items ask under the        *)
(* present inputs; it has the universes expected of inserts, and cites     *)
(* accepted materials only.                                                *)
THEOREM ValidPatchQualifies == Spec => []PatchQualifies
PROOF
<1>1. PipelineInv => PatchQualifies
  BY DEF PipelineInv
<1>2. QED
  BY <1>1, PipelineInvariant, PTL

(* The merge never flags a fragment: its replay is never reached.          *)
THEOREM MergeNeverFlags == Spec => []MergeIsClean
PROOF
  BY MergeFlagsNothing, PipelineInvariant, PTL

(* A fragment that qualifies is neither dropped nor generated again.       *)
THEOREM SoundFragmentsStay == Spec => SoundFragmentsKept
PROOF
<1>1. PipelineInv /\ [Next]_vars => [KeptStep]_vars
  BY NextKeeps
<1>2. [KeptStep]_vars =>
        [\A u \in Universes :
           session.accepted[u] # Nothing /\ Qualifies(session.accepted[u], ItemOf(u))
             => sessions'[Current].accepted[u] = session.accepted[u]]_vars
  BY DEF KeptStep
<1>3. QED
  BY <1>1, <1>2, PipelineInvariant, PTL DEF Spec, SoundFragmentsKept

-----------------------------------------------------------------------------
(* Every pass comes back: what it has left to do, in steps.  Each universe *)
(* of the manifest has its attempts and a fragment to keep, construct or   *)
(* fail with; the last step merges.                                        *)
StepsLeft ==
  CASE phase = "manifest"  -> (Len(Order) + 1) * (MaxFragmentAttempts + 1) + 1
    [] phase = "fragments" -> (Len(Order) + 1 - position) * (MaxFragmentAttempts + 1)
                              + (MaxFragmentAttempts - attempt) + 1
    [] OTHER               -> 0

LEMMA Products ==
  \A n, k \in Nat : /\ n * k \in Nat
                    /\ (n + 1) * k = n * k + k
                    /\ \A m \in Nat : m <= n => m * k <= n * k
PROOF OBVIOUS

LEMMA StepsLeftType ==
  ASSUME TypeOK
  PROVE  /\ StepsLeft \in 0 .. (Len(Order) + 1) * (MaxFragmentAttempts + 1) + 1
         /\ phase # "idle" => StepsLeft > 0
PROOF
<1> DEFINE n == Len(Order)
           k == MaxFragmentAttempts + 1
<1>1. n \in Nat /\ k \in Nat /\ position \in 1 .. (n + 1) /\ attempt \in 0 .. MaxFragmentAttempts
  BY OrderFacts, BudgetAssumption DEF TypeOK
<1>2. (n + 1 - position) \in Nat /\ (n + 1 - position) <= n
  BY <1>1
<1>3. /\ (n + 1 - position) * k \in Nat /\ (n + 1 - position) * k <= n * k
      /\ n * k \in Nat /\ (n + 1) * k = n * k + k
  BY <1>1, <1>2, Products
<1>4. CASE phase = "manifest"
  <2>1. StepsLeft = (n + 1) * k + 1
    BY <1>4 DEF StepsLeft
  <2>2. (n + 1) * k \in Nat
    BY <1>1, Products
  <2>3. QED
    BY <2>1, <2>2
<1>5. CASE phase = "fragments"
  <2>1. PICK a \in Nat : a = (n + 1 - position) * k
    BY <1>3
  <2>2. PICK b \in Nat : b = n * k
    BY <1>3
  <2>3. StepsLeft = a + (MaxFragmentAttempts - attempt) + 1 /\ (n + 1) * k + 1 = b + k + 1
    BY <1>3, <1>5, <2>1, <2>2 DEF StepsLeft
  <2>4. a <= b
    BY <1>3, <2>1, <2>2
  <2>5. a + (MaxFragmentAttempts - attempt) + 1 \in 0 .. b + k + 1
        /\ a + (MaxFragmentAttempts - attempt) + 1 > 0
    BY <1>1, <2>4, BudgetAssumption
  <2>6. QED
    BY <2>3, <2>5
<1>6. CASE phase = "idle"
  <2>1. (n + 1) * k \in Nat
    BY <1>1, Products
  <2>2. StepsLeft = 0
    BY <1>6 DEF StepsLeft
  <2>3. QED
    BY <1>6, <2>1, <2>2
<1>7. QED
  BY <1>4, <1>5, <1>6 DEF TypeOK

LEMMA StepsFall ==
  ASSUME PipelineInv, Next, phase # "idle"
  PROVE  StepsLeft' < StepsLeft
PROOF
<1> DEFINE n == Len(Order)
           k == MaxFragmentAttempts + 1
<1>1. n \in Nat /\ k \in Nat /\ position \in 1 .. (n + 1) /\ attempt \in 0 .. MaxFragmentAttempts
  BY OrderFacts, BudgetAssumption DEF PipelineInv, TypeOK
<1>2. Step
  BY DEF Next, Generate, ReturnWhole, Truncated, Fragment, Reject, Revise
<1>3. ASSUME phase' = "idle"
      PROVE  StepsLeft' < StepsLeft
  <2>1. StepsLeft' = 0
    BY <1>3 DEF StepsLeft
  <2>2. QED
    BY <2>1, StepsLeftType DEF PipelineInv
<1>4. CASE RefuseManifest \/ RefuseCoverage \/ RefuseMerge \/ ReturnMerged
  BY <1>3, <1>4 DEF RefuseManifest, RefuseCoverage, RefuseMerge, ReturnMerged, Fail, Return
<1>5. CASE Resume
  <2>1. /\ phase = "manifest" /\ phase' = "fragments" /\ Order' = Order
        /\ position' = position /\ attempt' = attempt /\ position = 1
    BY <1>5 DEF Resume, ManifestReady, inputs, Order, PipelineInv
  <2>2. n + 1 - position = n /\ n * k \in Nat /\ (n + 1) * k = n * k + k
    BY <1>1, <2>1, Products
  <2>3. StepsLeft = n * k + k + 1 /\ StepsLeft' = n * k + (MaxFragmentAttempts - attempt) + 1
    BY <2>1, <2>2 DEF StepsLeft
  <2>4. \A a \in Nat : a + (MaxFragmentAttempts - attempt) + 1 < a + k + 1
    BY <1>1, BudgetAssumption
  <2>5. QED
    BY <2>2, <2>3, <2>4
<1>6. ASSUME NEW u \in Universes,
             \/ Keep(u) \/ RejectAnswer(u) \/ Construct(u) \/ FailFragment(u)
             \/ \E f \in Fragments : AcceptAnswer(u, f)
      PROVE  StepsLeft' < StepsLeft
  <2>1. CASE FailFragment(u)
    BY <1>3, <2>1 DEF FailFragment, Fail, Return
  <2>2. CASE RejectAnswer(u)
    <3>1. /\ phase = "fragments" /\ phase' = "fragments" /\ Order' = Order
          /\ position' = position /\ attempt' = attempt + 1
      BY <2>2 DEF RejectAnswer, CallModel, InHand, inputs, Order
    <3>2. (n + 1 - position) \in Nat
      BY <1>1
    <3>3. (n + 1 - position) * k \in Nat
      BY <1>1, <3>2, Products
    <3>4. /\ StepsLeft = (n + 1 - position) * k + (MaxFragmentAttempts - attempt) + 1
          /\ StepsLeft' = (n + 1 - position) * k + (MaxFragmentAttempts - (attempt + 1)) + 1
      BY <3>1 DEF StepsLeft
    <3>5. \A a \in Nat : a + (MaxFragmentAttempts - (attempt + 1)) + 1
                           < a + (MaxFragmentAttempts - attempt) + 1
      BY <1>1, BudgetAssumption
    <3>6. QED
      BY <3>3, <3>4, <3>5
  <2>3. CASE Keep(u) \/ Construct(u) \/ \E f \in Fragments : AcceptAnswer(u, f)
    <3>1. /\ phase = "fragments" /\ phase' = "fragments" /\ Order' = Order
          /\ position' = position + 1 /\ attempt' = 0 /\ position <= n
      BY <2>3 DEF Keep, Construct, AcceptAnswer, CallModel, Exhausted, InHand, Advance, inputs, Order
    <3>2. PICK m \in Nat : m = n - position
      BY <1>1, <3>1
    <3>3. n + 1 - position = m + 1 /\ n + 1 - (position + 1) = m
      BY <1>1, <3>2
    <3>4. (m + 1) * k = m * k + k /\ m * k \in Nat
      BY <1>1, Products
    <3>5. /\ StepsLeft = m * k + k + (MaxFragmentAttempts - attempt) + 1
          /\ StepsLeft' = m * k + MaxFragmentAttempts + 1
      <4>1. StepsLeft = (n + 1 - position) * k + (MaxFragmentAttempts - attempt) + 1
        BY <3>1 DEF StepsLeft
      <4>2. StepsLeft' = (n + 1 - (position + 1)) * k + (MaxFragmentAttempts - 0) + 1
        BY <3>1 DEF StepsLeft
      <4>3. MaxFragmentAttempts - 0 = MaxFragmentAttempts
        BY BudgetAssumption
      <4>4. QED
        BY <3>3, <3>4, <4>1, <4>2, <4>3
    <3>6. \A a \in Nat : a + MaxFragmentAttempts + 1
                           < a + k + (MaxFragmentAttempts - attempt) + 1
      BY <1>1, BudgetAssumption
    <3>7. QED
      BY <3>4, <3>5, <3>6
  <2>4. QED
    BY <1>6, <2>1, <2>2, <2>3
<1>7. QED
  BY <1>2, <1>4, <1>5, <1>6 DEF Step

(* A pass returns after at most MaxFragmentAttempts + 1 steps per universe *)
(* and those of one more universe, whatever the model answers              *)
(* (generate_universes_patch): each of its steps lowers what is left,      *)
(* which never exceeds that.                                               *)
THEOREM PassesAreBounded ==
  Spec => /\ [](StepsLeft \in 0 .. (Len(Order) + 1) * (MaxFragmentAttempts + 1) + 1)
          /\ [][ phase # "idle" => StepsLeft' < StepsLeft ]_vars
PROOF
<1>1. PipelineInv => StepsLeft \in 0 .. (Len(Order) + 1) * (MaxFragmentAttempts + 1) + 1
  BY StepsLeftType DEF PipelineInv
<1>2. PipelineInv /\ [Next]_vars => [ phase # "idle" => StepsLeft' < StepsLeft ]_vars
  BY StepsFall
<1>3. QED
  BY <1>1, <1>2, PipelineInvariant, PTL DEF Spec

=============================================================================
