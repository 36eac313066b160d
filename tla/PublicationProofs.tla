--------------------------- MODULE PublicationProofs ---------------------------
(***************************************************************************)
(* Safety of the journaled publisher for any hosts, plans and bound on the *)
(* append loop.  The argument is that the store only grows: a record once  *)
(* written stays, and a transition stream is only ever extended by a legal *)
(* edge, so that an intervention once authorized, disabled or rolled back  *)
(* stays so.  What a call learned before an await (CallInv) therefore      *)
(* still holds after it, whatever the other hosts did meanwhile, and each  *)
(* write is justified by what its own call knows.                          *)
(***************************************************************************)
EXTENDS Publication, SequenceTheorems, WellFoundedInduction, TLAPS

-------------------------------------------------------------------------------
(***************************************************************************)
(* What the legal-transition table guarantees edge by edge, as in          *)
(* InterventionProofs: a module that uses the lemmas there would bring in  *)
(* the variable of the lifecycle.                                          *)
(***************************************************************************)

(* What one edge preserves of one intervention's state.                    *)
Sound(s) ==
  /\ s.authorization \in {"pending", "authorized"}
  /\ s.authorization = "pending" => s = InitialState
  /\ ValidState(s)
  /\ s.publication = "failed" => s.activation # "active"
  /\ s.activation = "disabled" =>
       s.publication \in {"published", "failed", "rolled_back"}

(* The state every intervention starts in is sound.                        *)
LEMMA InitialSound == InitialState \in InterventionState /\ Sound(InitialState)
BY DEF InterventionState, InitialState, Sound, ValidState

(* No edge leads back to pending, and every edge out of a sound state is   *)
(* sound.                                                                  *)
LEMMA EdgeKeepsSound ==
  ASSUME NEW s \in InterventionState, NEW t \in InterventionState,
         Sound(s), LegalEdge(s, t)
  PROVE  Sound(t)
<1>1. CASE Authorizes(s, t)
  BY <1>1 DEF Authorizes, Sound, ValidState, InterventionState
<1>2. CASE Publishes(s, t)
  BY <1>2 DEF Publishes, SameStanding, Permits, Sound, ValidState, LegalEdge,
              InterventionState
<1>3. CASE Fails(s, t)
  BY <1>3 DEF Fails, SameStanding, Permits, Sound, ValidState, LegalEdge,
              InterventionState
<1>4. CASE Disables(s, t)
  BY <1>4 DEF Disables, Applied, SameStanding, Permits, Sound, ValidState,
              LegalEdge, InterventionState
<1>5. CASE RollsBack(s, t)
  BY <1>5 DEF RollsBack, Applied, SameStanding, Permits, Sound, ValidState,
              LegalEdge, InterventionState
<1>6. CASE Validates(s, t)
  BY <1>6 DEF Validates, Sound, ValidState, LegalEdge, InterventionState
<1> QED
  BY <1>1, <1>2, <1>3, <1>4, <1>5, <1>6 DEF LegalEdge

(* What one edge may never do to a sound state.                            *)
LEMMA EdgeIsForward ==
  ASSUME NEW s \in InterventionState, NEW t \in InterventionState,
         Sound(s), LegalEdge(s, t)
  PROVE  /\ s.authorization = "authorized" => t.authorization = "authorized"
         /\ s.activation = "disabled" => t.activation = "disabled"
         /\ s.publication = "rolled_back" => t.publication = "rolled_back"
         /\ s.publication = "published" =>
              t.publication \in {"published", "rolled_back"}
         /\ s.validation # "untested" => t.validation # "untested"
<1>1. CASE Authorizes(s, t)
  BY <1>1 DEF Authorizes, InterventionState
<1>2. CASE Publishes(s, t)
  BY <1>2 DEF Publishes, SameStanding, InterventionState
<1>3. CASE Fails(s, t)
  BY <1>3 DEF Fails, SameStanding, InterventionState
<1>4. CASE Disables(s, t)
  BY <1>4 DEF Disables, SameStanding, InterventionState
<1>5. CASE RollsBack(s, t)
  BY <1>5 DEF RollsBack, SameStanding, Applied, InterventionState
<1>6. CASE Validates(s, t)
  BY <1>6 DEF Validates, Verdicts, InterventionState
<1> QED
  BY <1>1, <1>2, <1>3, <1>4, <1>5, <1>6 DEF LegalEdge

-------------------------------------------------------------------------------

(* A non-empty set of indexes has a least element.                         *)
LEMMA Minimum ==
  ASSUME NEW S \in SUBSET Nat, S # {}
  PROVE  \E i \in S : \A j \in S : i <= j
<1> DEFINE R == {ss \in Nat \X Nat : ss[1] < ss[2]}
<1>1. IsWellFoundedOn(R, Nat)
  BY NatLessThanWellFounded DEF OpToRel
<1>2. \E i \in S : \A j \in S : ~(<<j, i>> \in R)
  <2> HIDE DEF R
  <2> QED
    BY <1>1, WFMin
<1>3. PICK i \in S : \A j \in S : ~(<<j, i>> \in R)
  BY <1>2
<1>4. \A j \in S : ~(j < i)
  BY <1>3, Zenon
<1> QED
  BY <1>4

(* What every plan is: it has effects, and the parent of any plan is a     *)
(* publish plan.                                                           *)
LEMMA PlanFacts ==
  /\ \A f \in Forward : PublishPlan(f) \in Plans
  /\ AnyPlan \in Plans
  /\ \A x \in Plans :
       /\ x.of \in Forward
       /\ x.effects \subseteq Nat /\ x.effects # {}
       /\ x.action \in ReversalActions \cup {"publish"}
       /\ Parent(x) \in Plans
       /\ ~IsReversal(Parent(x))
       /\ Parent(x).of = x.of
<1>1. \A f \in Forward : PublishPlan(f) \in Plans
  BY DEF Plans
<1>2. AnyPlan \in Plans
  <2>1. Plans # {}
    BY <1>1, ForwardAssumption
  <2> QED
    BY <2>1 DEF AnyPlan
<1>3. ASSUME NEW f \in Forward
      PROVE  DOMAIN AfterEffect[f] \subseteq Nat /\ DOMAIN AfterEffect[f] # {}
  <2>1. AfterEffect[f] \in Seq(ReversalActions \cup {"irreversible"})
        /\ AfterEffect[f] # << >>
    BY PlansAssumption
  <2>2. Len(AfterEffect[f]) \in Nat /\ Len(AfterEffect[f]) # 0
    BY <2>1, LenProperties, EmptySeq
  <2>3. DOMAIN AfterEffect[f] = 1..Len(AfterEffect[f])
    BY <2>1, LenProperties
  <2>4. 1 \in DOMAIN AfterEffect[f]
    BY <2>2, <2>3
  <2> QED
    BY <2>3, <2>4
<1>4. ASSUME NEW x \in Plans
      PROVE  (\E f \in Forward : x = PublishPlan(f)) \/ x \in ReversalPlans
  BY DEF Plans
<1>5. ASSUME NEW x \in Plans
      PROVE  /\ x.of \in Forward
             /\ x.effects \subseteq Nat /\ x.effects # {}
             /\ x.action \in ReversalActions \cup {"publish"}
  <2>1. CASE \E f \in Forward : x = PublishPlan(f)
    BY <1>3, <2>1 DEF PublishPlan
  <2>2. CASE x \in ReversalPlans
    <3>1. x.of \in Forward /\ x.action \in ReversalActions
          /\ x.effects # {} /\ x.effects \subseteq Reversible(x.of, x.action)
      BY <2>2 DEF ReversalPlans
    <3> QED
      BY <1>3, <3>1 DEF Reversible
  <2> QED
    BY <1>4, <2>1, <2>2
<1> QED
  BY <1>1, <1>2, <1>5 DEF Parent, PublishPlan, IsReversal

(* A reversal derived now is a plan.                                       *)
LEMMA DerivedIsPlan ==
  ASSUME NEW f \in Forward, NEW a \in ReversalActions, DerivedEffects(a, f) # {}
  PROVE  ReversalPlan(a, f, DerivedEffects(a, f)) \in Plans
<1>1. DerivedEffects(a, f) \in SUBSET EffectIndexes
  BY DEF DerivedEffects, Reversible, EffectIndexes
<1> QED
  BY <1>1 DEF Plans, ReversalPlans, ReversalPlan, DerivedEffects

(* While effects remain, NextEffect is the least of them.                  *)
LEMMA NextEffectIsLeast ==
  ASSUME NEW x \in Plans, NEW d, d \subseteq x.effects, d # x.effects
  PROVE  /\ NextEffect(x, d) \in x.effects \ d
         /\ \A j \in x.effects \ d : NextEffect(x, d) <= j
<1>1. x.effects \ d \in SUBSET Nat /\ x.effects \ d # {}
  BY PlanFacts
<1>2. \E i \in x.effects \ d : \A j \in x.effects \ d : i <= j
  BY <1>1, Minimum
<1> QED
  BY <1>2 DEF NextEffect

-------------------------------------------------------------------------------
(***************************************************************************)
(* The inductive invariant                                                 *)
(***************************************************************************)

Entry   == {"idle", "resume", "check", "authority", "header", "membership"}
Loop    == {"read", "append", "verify"}
Effects == {"effect", "apply", "receipt"}
Journal == Loop \cup Effects \cup {"before", "final"}
Owned   == Journal \cup {"resume", "header", "membership"}

(* The journal of the plan of h is authorized, as far as h knows.          *)
KnowsAuthorized(h) ==
  \/ pc[h] \in Effects \cup {"before", "final"}
  \/ pc[h] \in Loop /\ stage[h] # "authorize"

(* h has the receipts of every effect in hand.                             *)
KnowsComplete(h) ==
  \/ pc[h] \in {"before", "final"}
  \/ pc[h] \in Loop /\ stage[h] \in {"parent", "publish"}

(* The parent of the reversal h publishes has reached its state.           *)
KnowsParent(h) ==
  \/ pc[h] \in {"before", "final"}
  \/ pc[h] \in Loop /\ stage[h] = "publish"

ParentReached(x) ==
  /\ CurrentState(Parent(x)).activation = "disabled"
  /\ x.action = "rollback" =>
       CurrentState(Parent(x)).publication = "rolled_back"

(* What a running call relies on: what it learned from the store before an *)
(* await still holds after it, because the store only grows.               *)
Knows(h, x) ==
  /\ pc[h] # "idle" => x \in plans
  /\ pc[h] \in Owned => x \in consumed
  /\ pc[h] \in Journal \cup {"membership"} => x \in headers
  /\ pc[h] \in Journal => x \in members
  /\ done[h] \subseteq receipts[x]
  /\ pc[h] \in Entry => done[h] = {}
  /\ pc[h] = "receipt" => NextEffect(x, done[h]) \in applied[x]
  /\ KnowsAuthorized(h) => CurrentState(x).authorization = "authorized"
  /\ KnowsComplete(h) <=> done[h] = x.effects
  /\ pc[h] \in Loop /\ stage[h] = "parent" => IsReversal(x)
  /\ KnowsParent(h) /\ IsReversal(x) => ParentReached(x)

CallInv(h) == \A x \in {job[h]} : Knows(h, x)

(* The edge h is about to append was legal at the revision n it read.      *)
Aim(st, y) == IF st = "parent" THEN Parent(y) ELSE y

ReadAt(h, st, y, n) ==
  /\ pc[h] \in {"append", "verify"} => n <= Len(stream[Aim(st, y)])
  /\ pc[h] = "append" =>
       /\ ~Satisfied(st, y, StateAt(Aim(st, y), n))
       /\ Appendable(st, y, StateAt(Aim(st, y), n))

LoopInv(h) ==
  \A st \in {stage[h]}, y \in {job[h]}, n \in {rev[h]} : ReadAt(h, st, y, n)

(* A fresh owner is told apart by its consumption alone.                   *)
ModeInv ==
  \A h \in Hosts :
    pc[h] \in {"idle", "resume", "check", "authority"} => mode[h] = "resumed"

(* Receipts and effects belong to their plan, and every folded state is    *)
(* sound.                                                                  *)
JournalInv ==
  \A x \in Plans :
    /\ applied[x] \subseteq x.effects
    /\ \A n \in 0..Len(stream[x]) : Sound(StateAt(x, n))
    /\ CurrentState(x).publication = "published" =>
         \E k \in DOMAIN stream[x] :
           Publishes(stream[x][k].from, stream[x][k].to)

Safe ==
  /\ WriteOrder /\ PlanOrder /\ StreamsReadable /\ PublishedIsComplete
  /\ ReversalEffectsFirst /\ ReversalReachesParent /\ OneFreshOwner

IInv ==
  /\ TypeOK
  /\ Safe /\ JournalInv /\ ModeInv
  /\ \A h \in Hosts : CallInv(h) /\ LoopInv(h)

-------------------------------------------------------------------------------
(***************************************************************************)
(* Types                                                                   *)
(***************************************************************************)

(* A stream is a finite sequence of transitions.                           *)
LEMMA StreamTyped ==
  ASSUME TypeOK, NEW x \in Plans
  PROVE  /\ stream[x] \in Seq(Transition)
         /\ Len(stream[x]) \in Nat
         /\ DOMAIN stream[x] = 1..Len(stream[x])
         /\ \A k \in DOMAIN stream[x] : stream[x][k] \in Transition
<1>1. stream[x] \in Seq(Transition)
  BY DEF TypeOK
<1> QED
  BY <1>1, LenProperties

(* The fold of any prefix of a stream is an intervention state.            *)
LEMMA StateTyped ==
  ASSUME TypeOK, NEW x \in Plans
  PROVE  /\ \A n \in 0..Len(stream[x]) : StateAt(x, n) \in InterventionState
         /\ CurrentState(x) \in InterventionState
<1>1. ASSUME NEW n \in 0..Len(stream[x])
      PROVE  StateAt(x, n) \in InterventionState
  <2>1. CASE n = 0
    BY <2>1, InitialSound DEF StateAt
  <2>2. CASE n # 0
    <3>1. n \in DOMAIN stream[x]
      BY <2>2, StreamTyped
    <3>2. stream[x][n] \in Transition
      BY <3>1, StreamTyped
    <3> QED
      BY <2>2, <3>2 DEF StateAt, Transition
  <2> QED
    BY <2>1, <2>2
<1>2. Len(stream[x]) \in 0..Len(stream[x])
  BY StreamTyped
<1> QED
  BY <1>1, <1>2 DEF CurrentState

(* An append loop asks for an intervention state.                          *)
LEMMA WantedTyped ==
  ASSUME NEW st \in Stages, NEW x, NEW s \in InterventionState
  PROVE  Wanted(st, x, s) \in InterventionState
BY DEF Stages, Wanted, ReversedState, ActivationOf, InterventionState

(* The stream a loop writes belongs to a plan.                             *)
LEMMA TargetTyped ==
  ASSUME TypeOK, NEW h \in Hosts
  PROVE  Target(h) \in Plans
BY PlanFacts DEF TypeOK, Target

(* The edge a loop builds is a transition, with the fields it was built    *)
(* from.                                                                   *)
LEMMA EdgeTyped ==
  ASSUME TypeOK, NEW h \in Hosts, rev[h] <= Len(stream[Target(h)])
  PROVE  /\ Edge(h) \in Transition
         /\ Edge(h).from = StateAt(Target(h), rev[h])
         /\ Edge(h).to = Wanted(stage[h], job[h], Edge(h).from)
         /\ Edge(h).by = job[h]
         /\ Edge(h).cites =
              IF stage[h] \in {"fail", "publish"} THEN done[h] ELSE {}
<1>1. rev[h] \in 0..Len(stream[Target(h)])
  BY TargetTyped, StreamTyped DEF TypeOK
<1>2. StateAt(Target(h), rev[h]) \in InterventionState
  BY <1>1, TargetTyped, StateTyped
<1>3. Wanted(stage[h], job[h], StateAt(Target(h), rev[h])) \in InterventionState
  BY <1>2, WantedTyped DEF TypeOK
<1>4. job[h] \in Plans /\ done[h] \in SUBSET Nat
  BY DEF TypeOK
<1> QED
  BY <1>2, <1>3, <1>4 DEF Edge, Transition

(* The call-local half of TypeOK, and what the control operators do to it. *)
LocalTyped ==
  /\ pc       \in [Hosts -> Steps]
  /\ job      \in [Hosts -> Plans]
  /\ stage    \in [Hosts -> Stages]
  /\ tries    \in [Hosts -> 0..(MaxAppendAttempts - 1)]
  /\ rev      \in [Hosts -> Nat]
  /\ done     \in [Hosts -> SUBSET Nat]
  /\ mode     \in [Hosts -> {"published", "resumed"}]
  /\ active   \in [Hosts -> BOOLEAN]
  /\ outcome  \in [Hosts -> Outcomes]

StoreTyped ==
  /\ plans \subseteq Plans /\ consumed \subseteq Plans
  /\ headers \subseteq Plans /\ members \subseteq Plans
  /\ stream   \in [Plans -> Seq(Transition)]
  /\ receipts \in [Plans -> SUBSET Nat]
  /\ applied  \in [Plans -> SUBSET Nat]

(* The type invariant is its local and its store half.                     *)
LEMMA TypeParts == TypeOK <=> LocalTyped /\ StoreTyped
BY DEF TypeOK, LocalTyped, StoreTyped

(* A return resets the locals to well-typed values.                        *)
LEMMA FinishTyped ==
  ASSUME LocalTyped, NEW h \in Hosts, NEW o \in Outcomes, Finish(h, o)
  PROVE  LocalTyped'
<1>1. "idle" \in Steps /\ "authorize" \in Stages /\ AnyPlan \in Plans
      /\ 0 \in 0..(MaxAppendAttempts - 1)
  BY PlanFacts, AttemptsAssumption DEF Steps, Stages
<1> QED
  BY <1>1 DEF Finish, Goto, LocalTyped

(* Entering the append loop keeps the types.                               *)
LEMMA StartAppendTyped ==
  ASSUME LocalTyped, NEW h \in Hosts, NEW st \in Stages, StartAppend(h, st)
  PROVE  /\ pc' \in [Hosts -> Steps]
         /\ stage' \in [Hosts -> Stages]
         /\ tries' \in [Hosts -> 0..(MaxAppendAttempts - 1)]
<1>1. "read" \in Steps /\ 0 \in 0..(MaxAppendAttempts - 1)
  BY AttemptsAssumption DEF Steps
<1> QED
  BY <1>1 DEF StartAppend, Goto, LocalTyped

(* Moving control keeps the types.                                         *)
LEMMA GotoTyped ==
  ASSUME LocalTyped, NEW h \in Hosts, NEW step \in Steps, Goto(h, step)
  PROVE  pc' \in [Hosts -> Steps]
BY DEF Goto, LocalTyped

(* Collecting a receipt keeps the types.                                   *)
LEMMA AfterReceiptTyped ==
  ASSUME LocalTyped, NEW h \in Hosts, NEW d \in SUBSET Nat, AfterReceipt(h, d)
  PROVE  /\ pc' \in [Hosts -> Steps]
         /\ stage' \in [Hosts -> Stages]
         /\ tries' \in [Hosts -> 0..(MaxAppendAttempts - 1)]
         /\ done' \in [Hosts -> SUBSET Nat]
<1>1. done' \in [Hosts -> SUBSET Nat]
  BY DEF AfterReceipt, LocalTyped
<1>2. CASE StartAppend(h, "parent")
  <2>1. "parent" \in Stages
    BY DEF Stages
  <2> QED
    BY <1>1, <1>2, <2>1, StartAppendTyped
<1>3. CASE ~StartAppend(h, "parent")
  <2>1. "effect" \in Steps /\ "before" \in Steps
    BY DEF Steps
  <2>2. (Goto(h, "effect") \/ Goto(h, "before")) /\ UNCHANGED <<stage, tries>>
    BY <1>3 DEF AfterReceipt
  <2> QED
    BY <1>1, <2>1, <2>2 DEF Goto, LocalTyped
<1> QED
  BY <1>2, <1>3

(* Leaving the append loop keeps the types.                                *)
LEMMA AfterAppendTyped ==
  ASSUME LocalTyped, NEW h \in Hosts, AfterAppend(h)
  PROVE  LocalTyped'
<1>1. CASE Finish(h, "failed")
  <2>1. "failed" \in Outcomes
    BY DEF Outcomes
  <2> QED
    BY <1>1, <2>1, FinishTyped
<1>2. CASE ~Finish(h, "failed")
  <2>1. PICK step \in {"effect", "before", "final"} : Goto(h, step)
    BY <1>2 DEF AfterAppend, LocalTyped, Stages
  <2>2. step \in Steps /\ 0 \in 0..(MaxAppendAttempts - 1)
    BY AttemptsAssumption DEF Steps
  <2>3. /\ tries' = [tries EXCEPT ![h] = 0]
        /\ rev' = [rev EXCEPT ![h] = 0]
        /\ UNCHANGED <<job, stage, done, mode, active, outcome>>
    BY <1>2 DEF AfterAppend
  <2> QED
    BY <2>1, <2>2, <2>3 DEF Goto, LocalTyped
<1> QED
  BY <1>1, <1>2

(* The next effect is the least one not yet receipted.                     *)
LEMMA EffectIndex ==
  ASSUME TypeOK, NEW h \in Hosts,
         done[h] \subseteq job[h].effects, done[h] # job[h].effects
  PROVE  /\ NextEffect(job[h], done[h]) \in job[h].effects \ done[h]
         /\ \A j \in job[h].effects \ done[h] : NextEffect(job[h], done[h]) <= j
         /\ NextEffect(job[h], done[h]) \in Nat
<1>1. job[h] \in Plans
  BY DEF TypeOK
<1> QED
  BY <1>1, NextEffectIsLeast, PlanFacts

(* In the effect loop NextEffect is well defined.                          *)
LEMMA EffectPending ==
  ASSUME IInv, NEW h \in Hosts, pc[h] \in Effects
  PROVE  /\ NextEffect(job[h], done[h]) \in job[h].effects \ done[h]
         /\ \A j \in job[h].effects \ done[h] : NextEffect(job[h], done[h]) <= j
         /\ NextEffect(job[h], done[h]) \in Nat
<1>1. job[h] \in Plans
  BY DEF IInv, TypeOK
<1>2. done[h] \subseteq job[h].effects
  BY <1>1 DEF IInv, CallInv, Knows, Safe, WriteOrder, JournalInv
<1>3. done[h] # job[h].effects
  BY DEF IInv, CallInv, Knows, KnowsComplete, Effects, Loop
<1> QED
  BY <1>2, <1>3, EffectIndex DEF IInv

(* Every step keeps the types; the invariant is needed for the index of    *)
(* the effect in hand.                                                     *)
LEMMA TypeNext ==
  ASSUME IInv, Next
  PROVE  TypeOK'
<1>0. TypeOK /\ LocalTyped /\ StoreTyped
  BY TypeParts DEF IInv
<1>1. ASSUME NEW f \in Forward, Prepare(f) PROVE TypeOK'
  BY <1>0, <1>1, PlanFacts DEF Prepare, local, TypeOK
<1>2. ASSUME NEW f \in Forward, NEW a \in ReversalActions, PrepareReversal(f, a)
      PROVE  TypeOK'
  <2>1. ReversalPlan(a, f, DerivedEffects(a, f)) \in Plans
    BY <1>2, DerivedIsPlan DEF PrepareReversal
  <2> QED
    BY <1>0, <1>2, <2>1 DEF PrepareReversal, local, TypeOK
<1>3. ASSUME NEW h \in Hosts, NEW x \in Plans, Begin(h, x) PROVE TypeOK'
  <2>1. {"resume", "check"} \subseteq Steps /\ "none" \in Outcomes
    BY DEF Steps, Outcomes
  <2> QED
    BY <1>0, <1>3, <2>1 DEF Begin, Goto, store, TypeOK
<1>4. ASSUME NEW h \in Hosts, Resume(h) PROVE TypeOK'
  <2>1. CASE \E o \in {"refused", "no_op"} : Finish(h, o)
    <3>1. PICK o \in {"refused", "no_op"} : Finish(h, o)
      BY <2>1
    <3>2. LocalTyped'
      BY <1>0, <3>1, FinishTyped DEF Outcomes
    <3> QED
      BY <1>0, <1>4, <3>2 DEF Resume, store, TypeOK, LocalTyped
  <2>2. CASE Goto(h, "header") /\ UNCHANGED local
    <3>1. "header" \in Steps
      BY DEF Steps
    <3> QED
      BY <1>0, <1>4, <2>2, <3>1 DEF Resume, Goto, store, local, TypeOK
  <2> QED
    BY <1>4, <2>1, <2>2 DEF Resume
<1>5. ASSUME NEW h \in Hosts, Check(h) PROVE TypeOK'
  <2>1. CASE Finish(h, "refused")
    <3>1. LocalTyped'
      BY <1>0, <2>1, FinishTyped DEF Outcomes
    <3> QED
      BY <1>0, <1>5, <3>1 DEF Check, store, TypeOK, LocalTyped
  <2>2. CASE Goto(h, "authority") /\ UNCHANGED local
    <3>1. "authority" \in Steps
      BY DEF Steps
    <3> QED
      BY <1>0, <1>5, <2>2, <3>1 DEF Check, Goto, store, local, TypeOK
  <2> QED
    BY <1>5, <2>1, <2>2 DEF Check
<1>6. ASSUME NEW h \in Hosts, Authority(h) PROVE TypeOK'
  <2>1. CASE Finish(h, "refused") /\ UNCHANGED <<store, applied>>
    <3>1. LocalTyped'
      BY <1>0, <2>1, FinishTyped DEF Outcomes
    <3> QED
      BY <1>0, <2>1, <3>1 DEF store, TypeOK, LocalTyped
  <2>2. CASE ~(Finish(h, "refused") /\ UNCHANGED <<store, applied>>)
    <3>1. "header" \in Steps
      BY DEF Steps
    <3>2. mode' \in [Hosts -> {"published", "resumed"}]
      BY <1>0, <1>6, <2>2 DEF Authority, TypeOK
    <3>3. active' \in [Hosts -> BOOLEAN]
      <4>1. active' = [active EXCEPT ![h] = job[h] \notin consumed]
        BY <1>6, <2>2 DEF Authority
      <4>2. (job[h] \notin consumed) \in BOOLEAN
        OBVIOUS
      <4> QED
        BY <1>0, <4>1, <4>2, Zenon DEF TypeOK
    <3>4. /\ consumed' = consumed \cup {job[h]}
          /\ Goto(h, "header")
          /\ UNCHANGED <<plans, headers, members, stream, receipts, applied,
                         job, stage, tries, rev, done, outcome>>
      BY <1>6, <2>2 DEF Authority
    <3> QED
      BY <1>0, <3>1, <3>2, <3>3, <3>4 DEF Goto, TypeOK
  <2> QED
    BY <2>1, <2>2
<1>7. ASSUME NEW h \in Hosts, EnsureHeader(h) PROVE TypeOK'
  <2>1. "membership" \in Steps
    BY DEF Steps
  <2> QED
    BY <1>0, <1>7, <2>1 DEF EnsureHeader, Goto, TypeOK
<1>8. ASSUME NEW h \in Hosts, EnsureMembership(h) PROVE TypeOK'
  <2>1. /\ pc' \in [Hosts -> Steps] /\ stage' \in [Hosts -> Stages]
        /\ tries' \in [Hosts -> 0..(MaxAppendAttempts - 1)]
    BY <1>0, <1>8, StartAppendTyped DEF EnsureMembership, Stages
  <2> QED
    BY <1>0, <1>8, <2>1 DEF EnsureMembership, TypeOK
<1>9. ASSUME NEW h \in Hosts, ReadStream(h) PROVE TypeOK'
  <2>1. CASE AfterAppend(h)
    <3>1. LocalTyped'
      BY <1>0, <2>1, AfterAppendTyped
    <3> QED
      BY <1>0, <1>9, <3>1 DEF ReadStream, store, TypeOK, LocalTyped
  <2>2. CASE Finish(h, "store.corrupt")
    <3>1. LocalTyped'
      BY <1>0, <2>2, FinishTyped DEF Outcomes
    <3> QED
      BY <1>0, <1>9, <3>1 DEF ReadStream, store, TypeOK, LocalTyped
  <2>3. CASE /\ rev' = [rev EXCEPT ![h] = Len(stream[Target(h)])]
             /\ Goto(h, "append")
             /\ UNCHANGED <<job, stage, tries, done, mode, active, outcome>>
    <3>1. "append" \in Steps /\ Len(stream[Target(h)]) \in Nat
      BY <1>0, TargetTyped, StreamTyped DEF Steps
    <3> QED
      BY <1>0, <1>9, <2>3, <3>1 DEF ReadStream, store, Goto, TypeOK
  <2> QED
    BY <1>9, <2>1, <2>2, <2>3 DEF ReadStream
<1>10. ASSUME NEW h \in Hosts, AppendEdge(h) PROVE TypeOK'
  <2>1. CASE Len(stream[Target(h)]) = rev[h]
    <3>1. Edge(h) \in Transition
      BY <1>0, <2>1, EdgeTyped, TargetTyped, StreamTyped
    <3>2. stream[Target(h)] \in Seq(Transition) /\ Target(h) \in Plans
      BY <1>0, TargetTyped, StreamTyped
    <3>3. Append(stream[Target(h)], Edge(h)) \in Seq(Transition)
      BY <3>1, <3>2
    <3>4. stream' \in [Plans -> Seq(Transition)]
      BY <1>0, <1>10, <2>1, <3>2, <3>3 DEF AppendEdge, TypeOK
    <3>5. "verify" \in Steps
      BY DEF Steps
    <3> QED
      BY <1>0, <1>10, <2>1, <3>4, <3>5 DEF AppendEdge, Goto, TypeOK
  <2>2. CASE /\ tries' = [tries EXCEPT ![h] = @ + 1]
             /\ tries[h] + 1 < MaxAppendAttempts
             /\ Goto(h, "read")
             /\ UNCHANGED <<job, stage, rev, done, mode, active, outcome>>
             /\ UNCHANGED stream
    <3>1. "read" \in Steps
      BY DEF Steps
    <3>2. tries[h] + 1 \in 0..(MaxAppendAttempts - 1)
      BY <1>0, <2>2, AttemptsAssumption DEF TypeOK
    <3> QED
      BY <1>0, <1>10, <2>2, <3>1, <3>2 DEF AppendEdge, Goto, TypeOK
  <2>3. CASE Finish(h, "store.conflict") /\ UNCHANGED stream
    <3>1. LocalTyped'
      BY <1>0, <2>3, FinishTyped DEF Outcomes
    <3> QED
      BY <1>0, <1>10, <2>3, <3>1 DEF AppendEdge, TypeOK, LocalTyped
  <2>4. CASE /\ Goto(h, "verify") /\ UNCHANGED stream
             /\ UNCHANGED <<job, stage, tries, rev, done, mode, active, outcome>>
    <3>1. "verify" \in Steps
      BY DEF Steps
    <3> QED
      BY <1>0, <1>10, <2>4, <3>1 DEF AppendEdge, Goto, TypeOK
  <2> QED
    BY <1>10, <2>1, <2>2, <2>3, <2>4 DEF AppendEdge
<1>11. ASSUME NEW h \in Hosts, VerifyHead(h) PROVE TypeOK'
  <2>1. LocalTyped'
    BY <1>0, <1>11, AfterAppendTyped, FinishTyped DEF VerifyHead, Outcomes
  <2> QED
    BY <1>0, <1>11, <2>1 DEF VerifyHead, store, TypeOK, LocalTyped
<1>12. ASSUME NEW h \in Hosts, LoadReceipt(h) PROVE TypeOK'
  <2> DEFINE i == NextEffect(job[h], done[h])
  <2>1. i \in Nat
    BY <1>12, EffectPending DEF LoadReceipt, Effects
  <2>2. CASE i \in receipts[job[h]]
    <3>1. done[h] \cup {i} \in SUBSET Nat
      BY <1>0, <2>1 DEF TypeOK
    <3>2. AfterReceipt(h, done[h] \cup {i})
      BY <1>12, <2>2 DEF LoadReceipt
    <3>3. /\ pc' \in [Hosts -> Steps] /\ stage' \in [Hosts -> Stages]
          /\ tries' \in [Hosts -> 0..(MaxAppendAttempts - 1)]
          /\ done' \in [Hosts -> SUBSET Nat]
      BY <1>0, <3>1, <3>2, AfterReceiptTyped
    <3> QED
      BY <1>0, <1>12, <2>2, <3>3 DEF LoadReceipt, store, TypeOK
  <2>3. CASE i \notin receipts[job[h]]
    <3>1. "apply" \in Steps
      BY DEF Steps
    <3> QED
      BY <1>0, <1>12, <2>3, <3>1 DEF LoadReceipt, Goto, store, local, TypeOK
  <2> QED
    BY <2>2, <2>3
<1>13. ASSUME NEW h \in Hosts, ApplyEffect(h) PROVE TypeOK'
  <2>1. NextEffect(job[h], done[h]) \in Nat
    BY <1>13, EffectPending DEF ApplyEffect, Effects
  <2>2. "receipt" \in Steps
    BY DEF Steps
  <2> QED
    BY <1>0, <1>13, <2>1, <2>2 DEF ApplyEffect, Goto, store, TypeOK
<1>14. ASSUME NEW h \in Hosts, FailEffect(h) PROVE TypeOK'
  <2>1. NextEffect(job[h], done[h]) \in Nat
    BY <1>14, EffectPending DEF FailEffect, Effects
  <2>2. /\ pc' \in [Hosts -> Steps] /\ stage' \in [Hosts -> Stages]
        /\ tries' \in [Hosts -> 0..(MaxAppendAttempts - 1)]
    BY <1>0, <1>14, StartAppendTyped DEF FailEffect, Stages
  <2>3. applied' \in [Plans -> SUBSET Nat]
    <3>1. CASE UNCHANGED applied
      BY <1>0, <3>1 DEF TypeOK
    <3>2. CASE applied' = [applied EXCEPT ![job[h]] =
                             @ \cup {NextEffect(job[h], done[h])}]
      BY <1>0, <2>1, <3>2 DEF TypeOK
    <3> QED
      BY <1>14, <3>1, <3>2 DEF FailEffect
  <2> QED
    BY <1>0, <1>14, <2>2, <2>3 DEF FailEffect, store, TypeOK
<1>15. ASSUME NEW h \in Hosts, StoreReceipt(h) PROVE TypeOK'
  <2>1. NextEffect(job[h], done[h]) \in Nat
    BY <1>15, EffectPending DEF StoreReceipt, Effects
  <2>2. done[h] \cup {NextEffect(job[h], done[h])} \in SUBSET Nat
    BY <1>0, <2>1 DEF TypeOK
  <2>3. /\ pc' \in [Hosts -> Steps] /\ stage' \in [Hosts -> Stages]
        /\ tries' \in [Hosts -> 0..(MaxAppendAttempts - 1)]
        /\ done' \in [Hosts -> SUBSET Nat]
    BY <1>0, <1>15, <2>2, AfterReceiptTyped DEF StoreReceipt
  <2> QED
    BY <1>0, <1>15, <2>1, <2>3 DEF StoreReceipt, TypeOK
<1>16. ASSUME NEW h \in Hosts, ReadBefore(h) PROVE TypeOK'
  <2>1. /\ pc' \in [Hosts -> Steps] /\ stage' \in [Hosts -> Stages]
        /\ tries' \in [Hosts -> 0..(MaxAppendAttempts - 1)]
    BY <1>0, <1>16, StartAppendTyped DEF ReadBefore, Stages
  <2>2. active' \in [Hosts -> BOOLEAN]
    BY <1>0, <1>16 DEF ReadBefore, TypeOK
  <2> QED
    BY <1>0, <1>16, <2>1, <2>2 DEF ReadBefore, store, TypeOK
<1>17. ASSUME NEW h \in Hosts, ReadFinal(h) PROVE TypeOK'
  <2>1. PICK o \in {"published", "resumed", "no_op", "store.corrupt"} : Finish(h, o)
    BY <1>0, <1>17 DEF ReadFinal, TypeOK
  <2>2. LocalTyped'
    BY <1>0, <2>1, FinishTyped DEF Outcomes
  <2> QED
    BY <1>0, <1>17, <2>2 DEF ReadFinal, store, TypeOK, LocalTyped
<1>18. ASSUME NEW h \in Hosts, Crash(h) PROVE TypeOK'
  <2>1. LocalTyped'
    BY <1>0, <1>18, FinishTyped DEF Crash, Outcomes
  <2> QED
    BY <1>0, <1>18, <2>1 DEF Crash, store, TypeOK, LocalTyped
<1> QED
  BY <1>1, <1>2, <1>3, <1>4, <1>5, <1>6, <1>7, <1>8, <1>9, <1>10, <1>11,
     <1>12, <1>13, <1>14, <1>15, <1>16, <1>17, <1>18 DEF Next, Step

(* The initial states satisfy the invariant.                               *)
LEMMA InitIInv ==
  ASSUME Init
  PROVE  IInv
<1>1. TypeOK
  <2>1. 0 \in 0..(MaxAppendAttempts - 1)
    BY AttemptsAssumption
  <2> QED
    BY <2>1, PlanFacts DEF Init, TypeOK, Steps, Stages, Outcomes
<1>2. \A x \in Plans : stream[x] = << >> /\ receipts[x] = {} /\ applied[x] = {}
  BY DEF Init
<1>3. \A x \in Plans : Len(stream[x]) = 0 /\ DOMAIN stream[x] = {}
  BY <1>2
<1>4. \A x \in Plans : CurrentState(x) = InitialState
  BY <1>3 DEF CurrentState, StateAt
<1>5. WriteOrder /\ PlanOrder
  BY <1>2, <1>3 DEF Init, WriteOrder, PlanOrder
<1>6. StreamsReadable /\ PublishedIsComplete /\ ReversalEffectsFirst
  BY <1>3 DEF StreamsReadable, PublishedIsComplete, ReversalEffectsFirst
<1>7. ReversalReachesParent
  BY <1>4 DEF ReversalReachesParent, InitialState
<1>8. OneFreshOwner /\ ModeInv
  BY DEF Init, OneFreshOwner, ModeInv
<1>9. JournalInv
  <2>1. ASSUME NEW x \in Plans
        PROVE  /\ applied[x] \subseteq x.effects
               /\ \A n \in 0..Len(stream[x]) : Sound(StateAt(x, n))
               /\ CurrentState(x).publication # "published"
    <3>1. \A n \in 0..Len(stream[x]) : StateAt(x, n) = InitialState
      BY <1>3 DEF StateAt
    <3> QED
      BY <1>2, <1>4, <3>1, InitialSound DEF InitialState
  <2> QED
    BY <2>1 DEF JournalInv
<1>10. ASSUME NEW h \in Hosts PROVE CallInv(h) /\ LoopInv(h)
  <2>1. /\ pc[h] = "idle" /\ stage[h] = "authorize" /\ done[h] = {}
        /\ job[h] \in Plans
    BY PlanFacts DEF Init
  <2>2. done[h] # job[h].effects
    BY <2>1, PlanFacts
  <2>3. CallInv(h)
    BY <2>1, <2>2 DEF CallInv, Knows, KnowsAuthorized, KnowsComplete, KnowsParent,
                      Owned, Journal, Loop, Effects, Entry
  <2> QED
    BY <2>1, <2>3 DEF LoopInv, ReadAt
<1> QED
  BY <1>1, <1>5, <1>6, <1>7, <1>8, <1>9, <1>10 DEF IInv, Safe

-------------------------------------------------------------------------------
(***************************************************************************)
(* The store only grows                                                    *)
(***************************************************************************)

Extended(x, e) ==
  /\ stream'[x] = Append(stream[x], e)
  /\ e.from = CurrentState(x)
  /\ LegalEdge(e.from, e.to)

Grows ==
  /\ plans \subseteq plans' /\ consumed \subseteq consumed'
  /\ headers \subseteq headers' /\ members \subseteq members'
  /\ \A x \in Plans :
       /\ receipts[x] \subseteq receipts'[x]
       /\ applied[x] \subseteq applied'[x]
       /\ stream'[x] = stream[x] \/ \E e \in Transition : Extended(x, e)

(* What a later state of an intervention keeps.                            *)
Later(s, t) ==
  /\ s.authorization = "authorized" => t.authorization = "authorized"
  /\ s.activation = "disabled" => t.activation = "disabled"
  /\ s.publication = "rolled_back" => t.publication = "rolled_back"

(* Appending an entry leaves every earlier fold alone and makes its target *)
(* the head.                                                               *)
LEMMA AppendStates ==
  ASSUME TypeOK, TypeOK', NEW x \in Plans, NEW e \in Transition,
         stream'[x] = Append(stream[x], e)
  PROVE  /\ Len(stream'[x]) = Len(stream[x]) + 1
         /\ DOMAIN stream'[x] = DOMAIN stream[x] \cup {Len(stream[x]) + 1}
         /\ \A k \in DOMAIN stream[x] : stream'[x][k] = stream[x][k]
         /\ stream'[x][Len(stream[x]) + 1] = e
         /\ \A n \in 0..Len(stream[x]) : StateAt(x, n)' = StateAt(x, n)
         /\ CurrentState(x)' = e.to
<1>1. stream[x] \in Seq(Transition) /\ stream'[x] \in Seq(Transition)
      /\ Len(stream[x]) \in Nat
  BY StreamTyped DEF TypeOK
<1>2. /\ Len(stream'[x]) = Len(stream[x]) + 1
      /\ \A k \in 1..Len(stream[x]) : stream'[x][k] = stream[x][k]
      /\ stream'[x][Len(stream[x]) + 1] = e
  BY <1>1, AppendProperties
<1>3. DOMAIN stream[x] = 1..Len(stream[x]) /\ DOMAIN stream'[x] = 1..Len(stream'[x])
  BY <1>1, LenProperties
<1>4. \A n \in 0..Len(stream[x]) : StateAt(x, n)' = StateAt(x, n)
  BY <1>1, <1>2 DEF StateAt
<1>5. CurrentState(x)' = e.to
  BY <1>1, <1>2 DEF CurrentState, StateAt
<1> QED
  BY <1>1, <1>2, <1>3, <1>4, <1>5

(* The folded state of an intervention is sound.                           *)
LEMMA StateIsSound ==
  ASSUME TypeOK, JournalInv, NEW x \in Plans
  PROVE  CurrentState(x) \in InterventionState /\ Sound(CurrentState(x))
<1>1. Len(stream[x]) \in 0..Len(stream[x])
  BY StreamTyped
<1> QED
  BY <1>1, StateTyped DEF JournalInv, CurrentState

(* Under growth no folded prefix changes, and the current state only moves *)
(* forward.                                                                *)
LEMMA GrowthIsLater ==
  ASSUME TypeOK, TypeOK', JournalInv, Grows, NEW x \in Plans
  PROVE  /\ Len(stream[x]) <= Len(stream'[x])
         /\ \A n \in 0..Len(stream[x]) : StateAt(x, n)' = StateAt(x, n)
         /\ Later(CurrentState(x), CurrentState(x)')
<1>0. Len(stream[x]) \in Nat
  BY StreamTyped
<1>1. CASE stream'[x] = stream[x]
  BY <1>0, <1>1 DEF StateAt, CurrentState, Later
<1>2. ASSUME NEW e \in Transition, Extended(x, e)
      PROVE  /\ Len(stream[x]) <= Len(stream'[x])
             /\ \A n \in 0..Len(stream[x]) : StateAt(x, n)' = StateAt(x, n)
             /\ Later(CurrentState(x), CurrentState(x)')
  <2>1. stream'[x] = Append(stream[x], e)
    BY <1>2 DEF Extended
  <2>2. e.to \in InterventionState /\ e.from = CurrentState(x)
        /\ LegalEdge(e.from, e.to)
    BY <1>2 DEF Extended, Transition
  <2>3. Later(CurrentState(x), e.to)
    BY <2>2, StateIsSound, EdgeIsForward DEF Later
  <2> QED
    BY <1>0, <2>1, <2>3, AppendStates
<1> QED
  BY <1>1, <1>2 DEF Grows

(* The call-local variables of g that the invariant speaks of.             *)
Still(g) ==
  /\ pc'[g] = pc[g] /\ job'[g] = job[g] /\ stage'[g] = stage[g]
  /\ rev'[g] = rev[g] /\ done'[g] = done[g] /\ mode'[g] = mode[g]

(* What a call knows survives the steps of the others.                     *)
LEMMA StillKeepsCall ==
  ASSUME IInv, TypeOK', Grows, NEW g \in Hosts, Still(g)
  PROVE  CallInv(g)'
<1>1. TypeOK /\ JournalInv /\ CallInv(g)
  BY DEF IInv
<1>2. /\ KnowsAuthorized(g)' <=> KnowsAuthorized(g)
      /\ KnowsComplete(g)' <=> KnowsComplete(g)
      /\ KnowsParent(g)' <=> KnowsParent(g)
  BY DEF Still, KnowsAuthorized, KnowsComplete, KnowsParent
<1>3. SUFFICES ASSUME NEW x \in Plans, x = job'[g]
               PROVE  Knows(g, x)'
  BY DEF CallInv, TypeOK
<1>4. Knows(g, x)
  BY <1>1, <1>3 DEF CallInv, Still
<1>5. Parent(x) \in Plans
  BY PlanFacts
<1>6. Later(CurrentState(x), CurrentState(x)')
  BY <1>1, GrowthIsLater
<1>7. Later(CurrentState(Parent(x)), CurrentState(Parent(x))')
  BY <1>1, <1>5, GrowthIsLater
<1>8. ParentReached(x) => ParentReached(x)'
  BY <1>7 DEF ParentReached, Later
<1>9. KnowsAuthorized(g)' => CurrentState(x)'.authorization = "authorized"
  BY <1>2, <1>4, <1>6 DEF Knows, Later
<1> QED
  BY <1>2, <1>4, <1>8, <1>9 DEF Knows, Still, Grows

(* What an append loop has read survives the steps of the others.          *)
LEMMA StillKeepsLoop ==
  ASSUME IInv, TypeOK', Grows, NEW g \in Hosts, Still(g)
  PROVE  LoopInv(g)'
<1>1. TypeOK /\ JournalInv /\ LoopInv(g)
  BY DEF IInv
<1>2. SUFFICES ASSUME NEW st \in Stages, NEW y \in Plans, NEW n \in Nat,
                      st = stage'[g], y = job'[g], n = rev'[g]
               PROVE  ReadAt(g, st, y, n)'
  BY DEF LoopInv, TypeOK
<1>3. ReadAt(g, st, y, n)
  BY <1>1, <1>2 DEF LoopInv, Still
<1> DEFINE x == Aim(st, y)
<1>4. x \in Plans
  BY PlanFacts DEF Aim
<1> HIDE DEF x
<1>5. /\ Len(stream[x]) \in Nat /\ Len(stream'[x]) \in Nat
      /\ Len(stream[x]) <= Len(stream'[x])
      /\ \A m \in 0..Len(stream[x]) : StateAt(x, m)' = StateAt(x, m)
  BY <1>1, <1>4, GrowthIsLater, StreamTyped
<1>6. CASE pc[g] \in {"append", "verify"}
  <2>1. n <= Len(stream[x])
    BY <1>3, <1>6 DEF ReadAt, x
  <2>2. StateAt(x, n)' = StateAt(x, n)
    BY <1>5, <2>1
  <2>3. n <= Len(stream'[x])
    BY <1>5, <2>1
  <2> QED
    BY <1>3, <2>2, <2>3 DEF ReadAt, Still, x
<1>7. CASE pc[g] \notin {"append", "verify"}
  BY <1>7 DEF ReadAt, Still
<1> QED
  BY <1>6, <1>7

-------------------------------------------------------------------------------
(***************************************************************************)
(* The one append                                                          *)
(***************************************************************************)

(* h extends the stream of x by e, knowing what its loop established.      *)
Appends(h, x, e) ==
  /\ x = Aim(stage[h], job[h]) /\ x \in members
  /\ stream' = [stream EXCEPT ![x] = Append(@, e)]
  /\ e.from = CurrentState(x)
  /\ LegalEdge(e.from, e.to)
  /\ e.to = Wanted(stage[h], job[h], e.from)
  /\ ~Satisfied(stage[h], job[h], e.from)
  /\ e.by = job[h]
  /\ e.cites = IF stage[h] \in {"fail", "publish"} THEN done[h] ELSE {}

(* An append at the expected revision extends the stream by the edge the   *)
(* loop checked.                                                           *)
LEMMA AppendIsLegal ==
  ASSUME IInv, NEW h \in Hosts, AppendEdge(h), Len(stream[Target(h)]) = rev[h]
  PROVE  \E x \in Plans, e \in Transition : Appends(h, x, e)
<1> DEFINE x == Target(h)
<1>1. TypeOK /\ JournalInv /\ CallInv(h) /\ LoopInv(h) /\ WriteOrder
  BY DEF IInv, Safe
<1>2. /\ x \in Plans /\ x = Aim(stage[h], job[h])
      /\ job[h] \in Plans /\ stage[h] \in Stages
  BY <1>1, TargetTyped DEF TypeOK, Target, Aim
<1>3. pc[h] = "append" /\ Knows(h, job[h]) /\ ReadAt(h, stage[h], job[h], rev[h])
  BY <1>1 DEF AppendEdge, CallInv, LoopInv
<1>4. StateAt(x, rev[h]) = CurrentState(x)
  BY DEF CurrentState
<1>5. /\ ~Satisfied(stage[h], job[h], CurrentState(x))
      /\ Appendable(stage[h], job[h], CurrentState(x))
  BY <1>2, <1>3, <1>4 DEF ReadAt
<1>6. Len(stream[x]) \in Nat
  BY <1>1, <1>2, StreamTyped
<1>7. /\ Edge(h) \in Transition
      /\ Edge(h).from = CurrentState(x)
      /\ Edge(h).to = Wanted(stage[h], job[h], Edge(h).from)
      /\ Edge(h).by = job[h]
      /\ Edge(h).cites = IF stage[h] \in {"fail", "publish"} THEN done[h] ELSE {}
  BY <1>1, <1>4, <1>6, EdgeTyped
<1>8. stream' = [stream EXCEPT ![x] = Append(@, Edge(h))]
  BY DEF AppendEdge
<1>9. x \in members
  <2>1. CASE stage[h] # "parent"
    <3>1. x = job[h]
      BY <1>2, <2>1 DEF Aim
    <3> QED
      BY <1>3, <3>1 DEF Knows, Journal, Loop
  <2>2. CASE stage[h] = "parent"
    <3>1. ~ReversalIllegal(CurrentState(x))
      BY <1>5, <2>2 DEF Appendable
    <3>2. CurrentState(x) # InitialState
      BY <3>1 DEF ReversalIllegal, Applied, InitialState
    <3>3. stream[x] # << >>
      BY <3>2 DEF CurrentState, StateAt
    <3> QED
      BY <1>1, <1>2, <3>3 DEF WriteOrder
  <2> QED
    BY <2>1, <2>2
<1>10. LegalEdge(Edge(h).from, Edge(h).to)
  BY <1>5, <1>7 DEF Appendable
<1>11. Appends(h, x, Edge(h))
  BY <1>2, <1>5, <1>7, <1>8, <1>9, <1>10 DEF Appends
<1> QED
  BY <1>2, <1>7, <1>11

(* Which stage can have asked for which kind of edge.                      *)
LEMMA WantedKind ==
  ASSUME NEW st \in Stages, NEW y \in Plans, NEW s \in InterventionState,
         NEW t \in InterventionState, t = Wanted(st, y, s),
         LegalEdge(s, t), ~Satisfied(st, y, s)
  PROVE  /\ Publishes(s, t) => st = "publish"
         /\ Disables(s, t) \/ RollsBack(s, t) =>
              /\ st = "parent"
              /\ t.publication = "rolled_back" <=> y.action = "rollback"
         /\ t.publication = "published" =>
              s.publication = "published" \/ st = "publish"
<1>1. y.action \in ReversalActions \cup {"publish"}
  BY PlanFacts
<1>2. CASE st = "authorize"
  BY <1>2 DEF Wanted, Publishes, Disables, RollsBack, SameStanding, Applied,
              InterventionState
<1>3. CASE st = "fail"
  BY <1>3 DEF Wanted, Publishes, Disables, RollsBack, SameStanding, Applied,
              InterventionState
<1>4. CASE st = "publish"
  BY <1>4 DEF Wanted, ActivationOf, Publishes, Disables, RollsBack,
              SameStanding, Applied, InterventionState
<1>5. CASE st = "parent"
  <2>1. s.publication # "rolled_back"
    BY <1>5 DEF Satisfied, ReversalAlready
  <2> QED
    BY <1>1, <1>5, <2>1 DEF Wanted, ReversedState, Publishes, Disables,
       RollsBack, SameStanding, Applied, InterventionState
<1> QED
  BY <1>2, <1>3, <1>4, <1>5 DEF Stages

(* Every step lets the store only grow.                                    *)
LEMMA GrowsNext ==
  ASSUME IInv, TypeOK', Next
  PROVE  Grows
<1>0. TypeOK
  BY DEF IInv
<1>1. ASSUME NEW h \in Hosts, AppendEdge(h), Len(stream[Target(h)]) = rev[h]
      PROVE  Grows
  <2>1. PICK x \in Plans, e \in Transition : Appends(h, x, e)
    BY <1>1, AppendIsLegal
  <2>2. \A z \in Plans \ {x} : stream'[z] = stream[z]
    BY <2>1 DEF Appends
  <2>3. Extended(x, e)
    BY <1>0, <2>1 DEF Appends, Extended, TypeOK
  <2> QED
    BY <1>1, <2>2, <2>3 DEF AppendEdge, Grows
<1>2. ASSUME NEW h \in Hosts, AppendEdge(h), Len(stream[Target(h)]) # rev[h]
      PROVE  Grows
  BY <1>2 DEF AppendEdge, Grows
<1>3. ASSUME NEW h \in Hosts, ApplyEffect(h) \/ FailEffect(h) PROVE Grows
  BY <1>0, <1>3 DEF ApplyEffect, FailEffect, Grows, store, TypeOK
<1>4. ASSUME NEW h \in Hosts, StoreReceipt(h) PROVE Grows
  BY <1>0, <1>4 DEF StoreReceipt, Grows, TypeOK
<1>5. ASSUME NEW h \in Hosts,
             Authority(h) \/ EnsureHeader(h) \/ EnsureMembership(h)
      PROVE  Grows
  BY <1>5 DEF Authority, EnsureHeader, EnsureMembership, Grows, store
<1>6. ASSUME NEW h \in Hosts,
             \/ Resume(h) \/ Check(h) \/ ReadStream(h) \/ VerifyHead(h)
             \/ LoadReceipt(h) \/ ReadBefore(h) \/ ReadFinal(h) \/ Crash(h)
             \/ \E x \in Plans : Begin(h, x)
      PROVE  Grows
  <2>1. UNCHANGED <<store, applied>>
    BY <1>6 DEF Resume, Check, ReadStream, VerifyHead, LoadReceipt, ReadBefore,
                ReadFinal, Crash, Begin
  <2> QED
    BY <2>1 DEF Grows, store
<1>7. ASSUME \/ \E f \in Forward : Prepare(f)
             \/ \E f \in Forward, a \in ReversalActions : PrepareReversal(f, a)
      PROVE  Grows
  BY <1>7 DEF Prepare, PrepareReversal, Grows
<1> QED
  BY <1>1, <1>2, <1>3, <1>4, <1>5, <1>6, <1>7 DEF Next, Step

-------------------------------------------------------------------------------
(***************************************************************************)
(* What each write does to the store's invariants                          *)
(***************************************************************************)

(* The part of the invariant that speaks of streams, receipts and effects. *)
StoreInv ==
  /\ WriteOrder /\ PlanOrder /\ StreamsReadable /\ PublishedIsComplete
  /\ ReversalEffectsFirst /\ ReversalReachesParent /\ JournalInv

(* The invariant, with its store part named.                               *)
LEMMA IInvParts ==
  IInv <=> /\ TypeOK /\ StoreInv /\ OneFreshOwner /\ ModeInv
           /\ \A h \in Hosts : CallInv(h) /\ LoopInv(h)
BY DEF IInv, Safe, StoreInv

(* Writes that touch neither streams, nor receipts, nor effects.           *)
LEMMA RecordsKeepStore ==
  ASSUME IInv, UNCHANGED <<stream, receipts, applied>>, consumed \subseteq consumed',
         consumed' \subseteq plans', headers' \subseteq consumed',
         members' \subseteq headers', members \subseteq members'
  PROVE  StoreInv'
<1>1. StoreInv
  BY IInvParts
<1>2. \A x : CurrentState(x)' = CurrentState(x)
  BY DEF CurrentState, StateAt
<1>3. \A x, n : StateAt(x, n)' = StateAt(x, n)
  BY DEF StateAt
<1>4. WriteOrder'
  BY <1>1, <1>2 DEF StoreInv, WriteOrder
<1>5. PlanOrder' /\ PublishedIsComplete'
  BY <1>1 DEF StoreInv, PlanOrder, PublishedIsComplete
<1>6. StreamsReadable'
  BY <1>1, <1>3 DEF StoreInv, StreamsReadable
<1>7. ReversalEffectsFirst'
  BY <1>1 DEF StoreInv, ReversalEffectsFirst
<1>8. ReversalReachesParent'
  BY <1>1, <1>2 DEF StoreInv, ReversalReachesParent
<1>9. JournalInv'
  BY <1>1, <1>2, <1>3 DEF StoreInv, JournalInv
<1> QED
  BY <1>4, <1>5, <1>6, <1>7, <1>8, <1>9 DEF StoreInv

(* An effect reaches the destination: it is next in plan order, under a    *)
(* durable authorization.                                                  *)
LEMMA EffectKeepsStore ==
  ASSUME IInv, NEW h \in Hosts, NEW y \in Plans, y = job[h], pc[h] \in Effects,
         UNCHANGED store,
         applied' = [applied EXCEPT ![y] = @ \cup {NextEffect(y, done[h])}]
  PROVE  StoreInv'
<1> DEFINE i == NextEffect(y, done[h])
<1>1. StoreInv /\ TypeOK
  BY IInvParts
<1>2. /\ i \in y.effects \ done[h]
      /\ \A j \in y.effects \ done[h] : i <= j
      /\ i \in Nat
  BY EffectPending
<1>3. Knows(h, y)
  BY DEF IInv, CallInv
<1>4. done[h] \subseteq receipts[y] /\ CurrentState(y).authorization = "authorized"
  BY <1>3 DEF Knows, KnowsAuthorized
<1>5. \A x \in Plans : CurrentState(x)' = CurrentState(x)
  BY DEF CurrentState, StateAt, store
<1>6. \A x \in Plans, n \in Nat : StateAt(x, n)' = StateAt(x, n)
  BY DEF StateAt, store
<1>7. /\ applied'[y] = applied[y] \cup {i}
      /\ \A x \in Plans \ {y} : applied'[x] = applied[x]
  BY <1>1 DEF TypeOK
<1> HIDE DEF i
<1>8. WriteOrder'
  <2>1. ASSUME NEW x \in Plans
        PROVE  /\ applied'[x] # {} => CurrentState(x).authorization = "authorized"
               /\ receipts[x] \subseteq applied'[x]
    BY <1>1, <1>4, <1>7 DEF StoreInv, WriteOrder
  <2> QED
    BY <1>1, <1>5, <2>1 DEF StoreInv, WriteOrder, store
<1>9. PlanOrder'
  <2>1. ASSUME NEW j \in y.effects, j < i PROVE j \in receipts[y]
    <3>1. j \in Nat
      BY PlanFacts
    <3> QED
      BY <1>2, <1>4, <2>1, <3>1
  <2>2. ASSUME NEW x \in Plans, NEW k \in applied'[x], NEW j \in x.effects, j < k
        PROVE  j \in receipts[x]
    <3>1. CASE x = y /\ k = i
      BY <2>1, <2>2, <3>1
    <3>2. CASE ~(x = y /\ k = i)
      BY <1>1, <1>7, <2>2, <3>2 DEF StoreInv, PlanOrder
    <3> QED
      BY <3>1, <3>2
  <2> QED
    BY <2>2 DEF PlanOrder, store
<1>10. StreamsReadable' /\ PublishedIsComplete' /\ ReversalEffectsFirst'
  <2>1. ASSUME NEW x \in Plans, NEW k \in DOMAIN stream[x]
        PROVE  StateAt(x, k - 1)' = StateAt(x, k - 1)
    BY DEF StateAt, store
  <2>2. StreamsReadable'
    BY <1>1, <2>1 DEF StoreInv, StreamsReadable, store
  <2> QED
    BY <1>1, <2>2 DEF StoreInv, PublishedIsComplete, ReversalEffectsFirst, store
<1>11. ReversalReachesParent'
  BY <1>1, <1>5, PlanFacts DEF StoreInv, ReversalReachesParent
<1>12. JournalInv'
  <2>1. ASSUME NEW x \in Plans
        PROVE  applied'[x] \subseteq x.effects
    BY <1>1, <1>2, <1>7 DEF StoreInv, JournalInv
  <2>2. \A x \in Plans : \A n \in 0..Len(stream'[x]) : Sound(StateAt(x, n)')
    BY <1>1, <1>6 DEF StoreInv, JournalInv, store
  <2> QED
    BY <1>1, <1>5, <2>1, <2>2 DEF StoreInv, JournalInv, store
<1> QED
  BY <1>8, <1>9, <1>10, <1>11, <1>12 DEF StoreInv

(* A receipt becomes durable.                                               *)
Receives(y, i) == receipts' = [receipts EXCEPT ![y] = @ \cup {i}]

(* A receipt of an effect in force keeps the store's invariants: it only   *)
(* adds to what edges may cite and to what reversals rely on               *)
(* (ensureStoredPublicationReceipt).                                        *)
LEMMA ReceiptKeepsStore ==
  ASSUME IInv, NEW y \in Plans, NEW i \in applied[y], Receives(y, i),
         UNCHANGED <<plans, consumed, headers, members, stream, applied>>
  PROVE  StoreInv'
<1>1. StoreInv /\ TypeOK
  BY IInvParts
<1>2. /\ receipts'[y] = receipts[y] \cup {i}
      /\ \A x \in Plans \ {y} : receipts'[x] = receipts[x]
  BY <1>1 DEF TypeOK, Receives
<1>3. \A x \in Plans : /\ receipts[x] \subseteq receipts'[x]
                       /\ receipts'[x] \subseteq applied[x]
                       /\ receipts[x] = x.effects => receipts'[x] = x.effects
  BY <1>1, <1>2 DEF StoreInv, WriteOrder, JournalInv
<1>4. \A x : CurrentState(x)' = CurrentState(x)
  BY DEF CurrentState, StateAt
<1>5. \A x, n : StateAt(x, n)' = StateAt(x, n)
  BY DEF StateAt
<1>6. WriteOrder'
  BY <1>1, <1>3, <1>4 DEF StoreInv, WriteOrder
<1>7. PlanOrder'
  BY <1>1, <1>3 DEF StoreInv, PlanOrder
<1>8. StreamsReadable'
  <2>1. ASSUME NEW x \in Plans, NEW k \in DOMAIN stream[x]
        PROVE  stream[x][k].cites \subseteq receipts'[x]
    BY <1>1, <1>3 DEF StoreInv, StreamsReadable
  <2> QED
    BY <1>1, <1>5, <2>1 DEF StoreInv, StreamsReadable
<1>9. PublishedIsComplete'
  BY <1>1, <1>3 DEF StoreInv, PublishedIsComplete
<1>10. ReversalEffectsFirst'
  <2>1. SUFFICES ASSUME NEW x \in Plans, NEW k \in DOMAIN stream'[x],
                        NEW e, e = stream'[x][k],
                        Disables(e.from, e.to) \/ RollsBack(e.from, e.to)
                 PROVE  /\ IsReversal(e.by) /\ Parent(e.by) = x
                        /\ e.by \in consumed'
                        /\ receipts'[e.by] = e.by.effects
                        /\ e.to.publication = "rolled_back"
                             <=> e.by.action = "rollback"
    BY DEF ReversalEffectsFirst
  <2>2. e.by \in Plans
    BY <1>1, <2>1, StreamTyped DEF Transition
  <2>3. /\ IsReversal(e.by) /\ Parent(e.by) = x
        /\ e.by \in consumed
        /\ receipts[e.by] = e.by.effects
        /\ e.to.publication = "rolled_back" <=> e.by.action = "rollback"
    BY <1>1, <2>1 DEF StoreInv, ReversalEffectsFirst
  <2>4. receipts'[e.by] = e.by.effects
    BY <1>3, <2>2, <2>3
  <2> QED
    BY <2>3, <2>4
<1>11. ReversalReachesParent'
  BY <1>1, <1>4 DEF StoreInv, ReversalReachesParent
<1>12. JournalInv'
  BY <1>1, <1>4, <1>5 DEF StoreInv, JournalInv
<1> QED
  BY <1>6, <1>7, <1>8, <1>9, <1>10, <1>11, <1>12 DEF StoreInv

(* A stream grows by the edge its writer's loop asked for.                 *)
LEMMA AppendKeepsStore ==
  ASSUME IInv, TypeOK', NEW h \in Hosts, NEW x \in Plans, NEW e \in Transition,
         pc[h] = "append", Appends(h, x, e),
         UNCHANGED <<plans, consumed, headers, members, receipts, applied>>
  PROVE  StoreInv'
<1> DEFINE s == e.from
           t == e.to
<1>1. StoreInv /\ TypeOK /\ JournalInv
  BY IInvParts DEF StoreInv
<1>2. PICK y \in Plans, st \in Stages : y = job[h] /\ st = stage[h]
  BY <1>1 DEF TypeOK
<1>3. Knows(h, y)
  BY <1>2 DEF IInv, CallInv
<1>4. stream'[x] = Append(stream[x], e)
  BY <1>1 DEF Appends, TypeOK
<1>14. Len(stream[x]) \in Nat /\ DOMAIN stream[x] = 1..Len(stream[x])
  BY <1>1, StreamTyped
<1>0. PICK n \in Nat : n = Len(stream[x]) + 1
  BY <1>14
<1>5. \A z \in Plans \ {x} : stream'[z] = stream[z]
  BY DEF Appends
<1>6. /\ DOMAIN stream'[x] = DOMAIN stream[x] \cup {n}
      /\ \A k \in DOMAIN stream[x] : stream'[x][k] = stream[x][k]
      /\ stream'[x][n] = e
      /\ \A m \in 0..Len(stream[x]) : StateAt(x, m)' = StateAt(x, m)
      /\ CurrentState(x)' = t
      /\ Len(stream'[x]) = n
  BY <1>0, <1>1, <1>4, AppendStates
<1>7. /\ s = CurrentState(x) /\ LegalEdge(s, t)
      /\ t = Wanted(st, y, s) /\ ~Satisfied(st, y, s)
      /\ s \in InterventionState /\ t \in InterventionState
      /\ x = Aim(st, y) /\ x \in members
      /\ e.by = y /\ e.cites = IF st \in {"fail", "publish"} THEN done[h] ELSE {}
  BY <1>2 DEF Appends, Transition
<1>8. Sound(s) /\ Sound(t)
  BY <1>1, <1>7, StateIsSound, EdgeKeepsSound
<1>9. /\ Publishes(s, t) => st = "publish"
      /\ Disables(s, t) \/ RollsBack(s, t) =>
           /\ st = "parent"
           /\ t.publication = "rolled_back" <=> y.action = "rollback"
      /\ t.publication = "published" =>
           s.publication = "published" \/ st = "publish"
  BY <1>7, WantedKind
<1>10. /\ done[h] \subseteq receipts[y]
       /\ st \in {"parent", "publish"} => done[h] = y.effects
       /\ st = "parent" => IsReversal(y)
       /\ st = "publish" /\ IsReversal(y) => ParentReached(y)
       /\ y \in consumed
  BY <1>2, <1>3 DEF Knows, KnowsComplete, KnowsParent, Owned, Journal, Loop
<1>11. receipts[y] \subseteq y.effects /\ y.effects # {}
  BY <1>1, PlanFacts DEF StoreInv, WriteOrder, JournalInv
<1>12. \A z \in Plans \ {x} : /\ CurrentState(z)' = CurrentState(z)
                              /\ \A m : StateAt(z, m)' = StateAt(z, m)
  BY <1>5 DEF CurrentState, StateAt
<1>13. Later(CurrentState(x), CurrentState(x)')
  BY <1>6, <1>7, <1>8, EdgeIsForward DEF Later
<1> HIDE DEF s, t
<1>15. WriteOrder'
  <2>1. ASSUME NEW z \in Plans
        PROVE  /\ stream'[z] # << >> => z \in members
               /\ applied[z] # {} =>
                    CurrentState(z)'.authorization = "authorized"
               /\ receipts[z] \subseteq applied[z]
    <3>1. CASE z = x
      BY <1>1, <1>7, <1>13, <3>1 DEF StoreInv, WriteOrder, Later
    <3>2. CASE z # x
      BY <1>1, <1>5, <1>12, <3>2 DEF StoreInv, WriteOrder
    <3> QED
      BY <3>1, <3>2
  <2> QED
    BY <1>1, <2>1 DEF StoreInv, WriteOrder
<1>16. PlanOrder'
  BY <1>1 DEF StoreInv, PlanOrder
<1>17. StreamsReadable'
  <2>1. s = StateAt(x, n - 1)'
    <3>1. n - 1 \in 0..Len(stream[x]) /\ n - 1 = Len(stream[x])
      BY <1>0, <1>14
    <3>2. StateAt(x, n - 1)' = StateAt(x, n - 1)
      BY <1>6, <3>1
    <3> QED
      BY <1>7, <3>1, <3>2 DEF CurrentState
  <2>2. /\ Publishes(s, t) => e.cites # {}
        /\ e.cites \subseteq receipts[x]
    BY <1>7, <1>9, <1>10, <1>11 DEF Aim
  <2>3. SUFFICES ASSUME NEW z \in Plans, NEW k \in DOMAIN stream'[z],
                        NEW d, d = stream'[z][k]
                 PROVE  /\ d.from = StateAt(z, k - 1)'
                        /\ LegalEdge(d.from, d.to)
                        /\ Publishes(d.from, d.to) => d.cites # {}
                        /\ d.cites \subseteq receipts[z]
    BY DEF StreamsReadable
  <2>4. CASE z = x /\ k = n
    BY <1>6, <1>7, <2>1, <2>2, <2>3, <2>4 DEF s, t
  <2>5. CASE z = x /\ k # n
    <3>1. k \in DOMAIN stream[x] /\ d = stream[x][k]
      BY <1>6, <2>3, <2>5
    <3>2. k - 1 \in 0..Len(stream[x])
      BY <1>14, <3>1
    <3>3. StateAt(x, k - 1)' = StateAt(x, k - 1)
      BY <1>6, <3>2
    <3> QED
      BY <1>1, <2>5, <3>1, <3>3 DEF StoreInv, StreamsReadable
  <2>6. CASE z # x
    BY <1>1, <1>5, <1>12, <2>3, <2>6 DEF StoreInv, StreamsReadable
  <2> QED
    BY <2>4, <2>5, <2>6
<1>18. PublishedIsComplete'
  <2>1. Publishes(s, t) => e.cites = x.effects /\ receipts[x] = x.effects
    BY <1>7, <1>9, <1>10, <1>11 DEF Aim
  <2>2. SUFFICES ASSUME NEW z \in Plans, NEW k \in DOMAIN stream'[z],
                        NEW d, d = stream'[z][k], Publishes(d.from, d.to)
                 PROVE  d.cites = z.effects /\ receipts[z] = z.effects
    BY DEF PublishedIsComplete
  <2>3. CASE z = x /\ k = n
    BY <1>6, <2>1, <2>2, <2>3 DEF s, t
  <2>4. CASE z = x /\ k # n
    BY <1>1, <1>6, <2>2, <2>4 DEF StoreInv, PublishedIsComplete
  <2>5. CASE z # x
    BY <1>1, <1>5, <2>2, <2>5 DEF StoreInv, PublishedIsComplete
  <2> QED
    BY <2>3, <2>4, <2>5
<1>19. ReversalEffectsFirst'
  <2>1. Disables(s, t) \/ RollsBack(s, t) =>
          /\ IsReversal(y) /\ Parent(y) = x
          /\ y \in consumed
          /\ receipts[y] = y.effects
          /\ t.publication = "rolled_back" <=> y.action = "rollback"
    BY <1>7, <1>9, <1>10, <1>11 DEF Aim
  <2>2. SUFFICES ASSUME NEW z \in Plans, NEW k \in DOMAIN stream'[z],
                        NEW d, d = stream'[z][k],
                        Disables(d.from, d.to) \/ RollsBack(d.from, d.to)
                 PROVE  /\ IsReversal(d.by) /\ Parent(d.by) = z
                        /\ d.by \in consumed
                        /\ receipts[d.by] = d.by.effects
                        /\ d.to.publication = "rolled_back"
                             <=> d.by.action = "rollback"
    BY DEF ReversalEffectsFirst
  <2>3. CASE z = x /\ k = n
    BY <1>6, <1>7, <2>1, <2>2, <2>3 DEF s, t
  <2>4. CASE z = x /\ k # n
    BY <1>1, <1>6, <2>2, <2>4 DEF StoreInv, ReversalEffectsFirst
  <2>5. CASE z # x
    BY <1>1, <1>5, <2>2, <2>5 DEF StoreInv, ReversalEffectsFirst
  <2> QED
    BY <2>3, <2>4, <2>5
<1>20. ReversalReachesParent'
  <2>1. SUFFICES ASSUME NEW z \in Plans, IsReversal(z),
                        CurrentState(z)'.publication = "published"
                 PROVE  ParentReached(z)'
    BY DEF ReversalReachesParent, ParentReached
  <2>2. Parent(z) \in Plans /\ Parent(z) # z
    BY <2>1, PlanFacts
  <2>3. Later(CurrentState(Parent(z)), CurrentState(Parent(z))')
    BY <1>12, <1>13, <2>2 DEF Later
  <2>4. ParentReached(z) => ParentReached(z)'
    BY <2>3 DEF ParentReached, Later
  <2>5. CASE CurrentState(z).publication = "published"
    BY <1>1, <2>1, <2>4, <2>5 DEF StoreInv, ReversalReachesParent, ParentReached
  <2>6. CASE CurrentState(z).publication # "published"
    <3>1. z = x
      BY <1>12, <2>1, <2>6
    <3>2. st = "publish"
      BY <1>6, <1>7, <1>9, <2>1, <2>6, <3>1
    <3>3. z = y
      BY <1>7, <3>1, <3>2 DEF Aim
    <3> QED
      BY <1>10, <2>1, <2>4, <3>2, <3>3
  <2> QED
    BY <2>5, <2>6
<1>21. JournalInv'
  <2>1. ASSUME NEW z \in Plans, NEW m \in 0..Len(stream'[z])
        PROVE  Sound(StateAt(z, m)')
    <3>1. CASE z = x /\ m = Len(stream'[x])
      <4>1. StateAt(z, m)' = CurrentState(x)'
        BY <3>1 DEF CurrentState
      <4> QED
        BY <1>6, <1>8, <4>1
    <3>2. CASE z = x /\ m # Len(stream'[x])
      <4>1. m \in 0..Len(stream[x])
        BY <1>0, <1>6, <1>14, <2>1, <3>2
      <4> QED
        BY <1>1, <1>6, <3>2, <4>1 DEF JournalInv
    <3>3. CASE z # x
      BY <1>1, <1>5, <1>12, <2>1, <3>3 DEF JournalInv
    <3> QED
      BY <3>1, <3>2, <3>3
  <2>2. ASSUME NEW z \in Plans, CurrentState(z)'.publication = "published"
        PROVE  \E k \in DOMAIN stream'[z] :
                 Publishes(stream'[z][k].from, stream'[z][k].to)
    <3>1. CASE CurrentState(z).publication = "published"
      <4>1. PICK k \in DOMAIN stream[z] :
              Publishes(stream[z][k].from, stream[z][k].to)
        BY <1>1, <3>1 DEF JournalInv
      <4> QED
        BY <1>5, <1>6, <4>1
    <3>2. CASE CurrentState(z).publication # "published"
      <4>1. z = x
        BY <1>12, <2>2, <3>2
      <4>2. t.publication = "published" /\ s.publication # "published"
        BY <1>6, <1>7, <2>2, <3>2, <4>1
      <4>3. Publishes(s, t)
        BY <1>7, <4>2 DEF LegalEdge, Authorizes, Fails, Disables, RollsBack,
                          Validates, InterventionState
      <4> QED
        BY <1>6, <4>1, <4>3 DEF s, t
    <3> QED
      BY <3>1, <3>2
  <2> QED
    BY <1>1, <2>1, <2>2 DEF JournalInv
<1> QED
  BY <1>15, <1>16, <1>17, <1>18, <1>19, <1>20, <1>21 DEF StoreInv

-------------------------------------------------------------------------------
(***************************************************************************)
(* What each step does to what its own call knows                          *)
(***************************************************************************)

(* What h knows of a plan survives every step.                             *)
Kept(x) ==
  /\ x \in plans => x \in plans'
  /\ x \in consumed => x \in consumed'
  /\ x \in headers => x \in headers'
  /\ x \in members => x \in members'
  /\ receipts[x] \subseteq receipts'[x]
  /\ CurrentState(x).authorization = "authorized" =>
       CurrentState(x)'.authorization = "authorized"
  /\ ParentReached(x) => ParentReached(x)'

(* What a call relies on of a plan is kept when the store grows.           *)
LEMMA GrowsKeeps ==
  ASSUME IInv, TypeOK', Grows, NEW x \in Plans
  PROVE  Kept(x)
<1>1. TypeOK /\ JournalInv /\ Parent(x) \in Plans
  BY PlanFacts DEF IInv
<1>2. Later(CurrentState(x), CurrentState(x)')
  BY <1>1, GrowthIsLater
<1>3. Later(CurrentState(Parent(x)), CurrentState(Parent(x))')
  BY <1>1, GrowthIsLater
<1>4. ParentReached(x) => ParentReached(x)'
  BY <1>3 DEF ParentReached, Later
<1> QED
  BY <1>2, <1>4 DEF Kept, Later, Grows

(* Outside the append loop there is nothing to know of the stream.         *)
LEMMA NoLoop ==
  ASSUME NEW h \in Hosts, pc'[h] \notin {"append", "verify"}
  PROVE  LoopInv(h)'
BY DEF LoopInv, ReadAt

OwnInv(h) == CallInv(h) /\ LoopInv(h)

(* A call that returned relies on nothing.                                 *)
LEMMA FinishOwn ==
  ASSUME TypeOK, TypeOK', NEW h \in Hosts, NEW o, Finish(h, o)
  PROVE  OwnInv(h)' /\ mode'[h] = "resumed"
<1>1. /\ pc'[h] = "idle" /\ stage'[h] = "authorize" /\ done'[h] = {}
      /\ mode'[h] = "resumed"
  BY DEF Finish, Goto, TypeOK
<1>2. ASSUME NEW x \in Plans, x = job'[h] PROVE Knows(h, x)'
  BY <1>1, PlanFacts DEF Knows, KnowsAuthorized, KnowsComplete, KnowsParent,
                         Entry, Loop, Effects, Journal, Owned
<1>3. CallInv(h)'
  BY <1>2 DEF CallInv, TypeOK
<1> QED
  BY <1>1, <1>3, NoLoop DEF OwnInv

(* A step that only moves control between entry steps.                     *)
LEMMA EntryOwn ==
  ASSUME IInv, TypeOK', Grows, NEW h \in Hosts,
         pc[h] \in {"resume", "check", "authority", "header"},
         pc'[h] \in Entry \ {"idle"}, job' = job, done' = done,
         pc'[h] \in {"header", "membership"} => job[h] \in consumed',
         pc'[h] = "resume" => job[h] \in consumed,
         pc'[h] = "membership" => job[h] \in headers'
  PROVE  OwnInv(h)'
<1>1. SUFFICES ASSUME NEW x \in Plans, x = job[h]
               PROVE  Knows(h, x)'
  BY NoLoop DEF CallInv, OwnInv, TypeOK, Entry
<1>2. Knows(h, x) /\ Kept(x)
  BY <1>1, GrowsKeeps DEF IInv, CallInv
<1>3. ~KnowsComplete(h) /\ ~KnowsComplete(h)' /\ ~KnowsAuthorized(h)'
      /\ ~KnowsParent(h)'
  BY DEF KnowsComplete, KnowsAuthorized, KnowsParent, Entry, Loop, Effects
<1> QED
  BY <1>1, <1>2, <1>3 DEF Knows, Kept, Entry, Loop, Effects, Journal, Owned

(* With a further receipt in hand the call knows what its next step relies *)
(* on.                                                                     *)
LEMMA AfterReceiptOwn ==
  ASSUME IInv, TypeOK', Grows, NEW h \in Hosts, NEW d, pc[h] \in Effects,
         job' = job, d \subseteq receipts'[job[h]], AfterReceipt(h, d)
  PROVE  OwnInv(h)'
<1>1. PICK x \in Plans : x = job[h]
  BY DEF IInv, TypeOK
<1>2. Knows(h, x) /\ Kept(x)
  BY <1>1, GrowsKeeps DEF IInv, CallInv
<1>3. done'[h] = d
  BY DEF AfterReceipt, IInv, TypeOK
<1>4. /\ x \in plans' /\ x \in consumed' /\ x \in headers' /\ x \in members'
      /\ CurrentState(x)'.authorization = "authorized"
  BY <1>2 DEF Knows, Kept, KnowsAuthorized, Journal, Owned, Effects
<1>5. \/ pc'[h] = "effect" /\ d # x.effects
      \/ /\ pc'[h] = "read" /\ stage'[h] = "parent"
         /\ d = x.effects /\ IsReversal(x)
      \/ pc'[h] = "before" /\ d = x.effects /\ ~IsReversal(x)
  BY <1>1 DEF AfterReceipt, StartAppend, Goto, IInv, TypeOK
<1>6. Knows(h, x)'
  BY <1>1, <1>3, <1>4, <1>5 DEF Knows, KnowsAuthorized, KnowsComplete,
     KnowsParent, Entry, Loop, Effects, Journal, Owned
<1>7. LoopInv(h)'
  BY <1>5, NoLoop
<1> QED
  BY <1>1, <1>6, <1>7 DEF OwnInv, CallInv

(* The append loop is over: what it was for has been achieved.             *)
LEMMA AfterAppendOwn ==
  ASSUME IInv, TypeOK', Grows, NEW h \in Hosts, NEW x \in Plans, x = job[h],
         pc[h] \in Loop, AfterAppend(h),
         stage[h] = "authorize" => CurrentState(x).authorization = "authorized",
         stage[h] = "parent" => ParentReached(x)
  PROVE  OwnInv(h)'
<1>1. Knows(h, x) /\ Kept(x)
  BY GrowsKeeps DEF IInv, CallInv
<1>2. CASE stage[h] = "fail"
  BY <1>2, FinishOwn DEF AfterAppend, IInv
<1>3. CASE stage[h] # "fail"
  <2>1. /\ job' = job /\ done' = done /\ stage' = stage
        /\ stage[h] = "authorize" => pc'[h] = "effect"
        /\ stage[h] = "parent" => pc'[h] = "before"
        /\ stage[h] = "publish" => pc'[h] = "final"
        /\ stage[h] \in {"authorize", "parent", "publish"}
    BY <1>3 DEF AfterAppend, Goto, IInv, TypeOK, Stages
  <2>2. /\ x \in plans' /\ x \in consumed' /\ x \in headers' /\ x \in members'
        /\ done[h] \subseteq receipts'[x]
    BY <1>1 DEF Knows, Kept, Journal, Owned, Loop
  <2>3. CurrentState(x)'.authorization = "authorized"
    BY <1>1, <2>1 DEF Knows, Kept, KnowsAuthorized, Loop
  <2>4. stage[h] \in {"parent", "publish"} <=> done[h] = x.effects
    BY <1>1, <2>1 DEF Knows, KnowsComplete, Loop
  <2>5. stage[h] \in {"parent", "publish"} /\ IsReversal(x) => ParentReached(x)'
    BY <1>1, <2>1 DEF Knows, Kept, KnowsParent, Loop
  <2>6. Knows(h, x)'
    BY <2>1, <2>2, <2>3, <2>4, <2>5 DEF Knows, KnowsAuthorized, KnowsComplete,
       KnowsParent, Entry, Loop, Effects, Journal, Owned
  <2>7. LoopInv(h)'
    BY <2>1, NoLoop
  <2> QED
    BY <2>1, <2>6, <2>7 DEF OwnInv, CallInv
<1> QED
  BY <1>2, <1>3

(* Every step of a call leaves it knowing what its next step relies on.    *)
LEMMA StepOwn ==
  ASSUME IInv, TypeOK', Grows, NEW h \in Hosts,
         Step(h) \/ Crash(h) \/ \E x \in Plans : Begin(h, x)
  PROVE  OwnInv(h)'
<1>0. TypeOK /\ JournalInv /\ CallInv(h) /\ LoopInv(h)
  BY DEF IInv
<1>1. PICK y \in Plans : y = job[h]
  BY <1>0 DEF TypeOK
<1>2. Knows(h, y) /\ Kept(y)
  BY <1>0, <1>1, GrowsKeeps DEF CallInv
<1>3. ASSUME NEW o, Finish(h, o) PROVE OwnInv(h)'
  BY <1>0, <1>3, FinishOwn
<1>4. ASSUME NEW x \in Plans, Begin(h, x) PROVE OwnInv(h)'
  <2>1. /\ pc[h] = "idle" /\ job'[h] = x /\ done' = done /\ x \in plans'
        /\ \/ pc'[h] = "resume" /\ x \in consumed'
           \/ pc'[h] = "check"
    BY <1>0, <1>4 DEF Begin, Goto, store, TypeOK
  <2>2. done[h] = {}
    BY <1>2, <2>1 DEF Knows, Entry
  <2>3. x.effects # {}
    BY PlanFacts
  <2>4. Knows(h, x)'
    BY <2>1, <2>2, <2>3 DEF Knows, KnowsAuthorized, KnowsComplete, KnowsParent,
                            Entry, Loop, Effects, Journal, Owned
  <2> QED
    BY <2>1, <2>4, NoLoop DEF OwnInv, CallInv
<1>5. CASE Resume(h)
  <2>1. CASE Goto(h, "header") /\ UNCHANGED local
    <3>1. pc'[h] = "header" /\ job[h] \in consumed'
      BY <1>0, <1>1, <1>2, <1>5, <2>1 DEF Resume, Goto, Knows, Kept, Owned, TypeOK
    <3> QED
      BY <1>5, <2>1, <3>1, EntryOwn DEF Resume, local, Entry
  <2> QED
    BY <1>3, <1>5, <2>1 DEF Resume
<1>6. CASE Check(h)
  <2>1. CASE Goto(h, "authority") /\ UNCHANGED local
    <3>1. pc'[h] = "authority"
      BY <1>0, <2>1 DEF Goto, TypeOK
    <3> QED
      BY <1>6, <2>1, <3>1, EntryOwn DEF Check, local, Entry
  <2> QED
    BY <1>3, <1>6, <2>1 DEF Check
<1>7. CASE Authority(h)
  <2>1. CASE ~Finish(h, "refused")
    <3>1. /\ pc[h] = "authority" /\ pc'[h] = "header"
          /\ job' = job /\ done' = done /\ job[h] \in consumed'
      BY <1>0, <1>7, <2>1 DEF Authority, Goto, TypeOK
    <3> QED
      BY <3>1, EntryOwn DEF Entry
  <2> QED
    BY <1>3, <2>1
<1>8. CASE EnsureHeader(h)
  <2>1. /\ pc[h] = "header" /\ pc'[h] = "membership"
        /\ job' = job /\ done' = done /\ job[h] \in headers'
    BY <1>0, <1>8 DEF EnsureHeader, Goto, TypeOK
  <2>2. job[h] \in consumed'
    BY <1>1, <1>2, <2>1 DEF Knows, Kept, Owned
  <2> QED
    BY <2>1, <2>2, EntryOwn DEF Entry
<1>9. CASE EnsureMembership(h)
  <2>1. /\ pc[h] = "membership" /\ pc'[h] = "read" /\ stage'[h] = "authorize"
        /\ job' = job /\ done' = done /\ y \in members'
    BY <1>0, <1>1, <1>9 DEF EnsureMembership, StartAppend, Goto, TypeOK
  <2>2. Knows(h, y)'
    BY <1>2, <2>1, PlanFacts DEF Knows, Kept, KnowsAuthorized, KnowsComplete,
       KnowsParent, Entry, Loop, Effects, Journal, Owned
  <2> QED
    BY <1>1, <2>1, <2>2, NoLoop DEF OwnInv, CallInv
<1>10. CASE ReadStream(h)
  <2> DEFINE s == CurrentState(Target(h))
  <2>1. pc[h] = "read" /\ pc[h] \in Loop
    BY <1>10 DEF ReadStream, Loop
  <2>2. Target(h) \in Plans /\ Sound(s) /\ s \in InterventionState
    BY <1>0, TargetTyped, StateIsSound
  <2>3. CASE Satisfied(stage[h], job[h], s) /\ AfterAppend(h)
    <3>1. ASSUME stage[h] = "authorize"
          PROVE  CurrentState(y).authorization = "authorized"
      BY <1>1, <2>2, <2>3, <3>1 DEF Satisfied, Target, Sound
    <3>2. ASSUME stage[h] = "parent"
          PROVE  ParentReached(y)
      <4>1. Target(h) = Parent(y) /\ ReversalAlready(y.action, s)
        BY <1>1, <2>3, <3>2 DEF Satisfied, Target
      <4> QED
        BY <2>2, <4>1 DEF ReversalAlready, ParentReached, Sound, ValidState
    <3> QED
      BY <1>1, <2>1, <2>3, <3>1, <3>2, AfterAppendOwn
  <2>4. CASE /\ ~Satisfied(stage[h], job[h], s)
             /\ Appendable(stage[h], job[h], s)
             /\ rev' = [rev EXCEPT ![h] = Len(stream[Target(h)])]
             /\ Goto(h, "append")
             /\ UNCHANGED <<job, stage, tries, done, mode, active, outcome>>
    <3>1. PICK st \in Stages, n \in Nat :
            st = stage[h] /\ n = Len(stream[Target(h)])
      BY <1>0, <2>2, StreamTyped DEF TypeOK
    <3>2. /\ pc'[h] = "append" /\ rev'[h] = n /\ stage' = stage /\ job' = job
          /\ done' = done /\ stream' = stream
      BY <1>0, <1>10, <2>4, <3>1 DEF ReadStream, Goto, store, TypeOK
    <3>3. Aim(st, y) = Target(h)
      BY <1>1, <3>1 DEF Aim, Target
    <3>4. StateAt(Aim(st, y), n)' = s
      BY <3>1, <3>2, <3>3 DEF StateAt, CurrentState
    <3>5. ReadAt(h, st, y, n)'
      BY <1>1, <2>4, <3>1, <3>2, <3>3, <3>4 DEF ReadAt
    <3>6. LoopInv(h)'
      BY <1>1, <3>1, <3>2, <3>5 DEF LoopInv
    <3>7. Knows(h, y)'
      BY <1>2, <2>1, <3>2 DEF Knows, Kept, KnowsAuthorized, KnowsComplete,
         KnowsParent, Entry, Loop, Effects, Journal, Owned
    <3> QED
      BY <1>1, <3>2, <3>6, <3>7 DEF OwnInv, CallInv
  <2> QED
    BY <1>3, <1>10, <2>3, <2>4 DEF ReadStream
<1>11. CASE AppendEdge(h)
  <2>1. CASE /\ Goto(h, "verify")
             /\ UNCHANGED <<job, stage, tries, rev, done, mode, active, outcome>>
    <3>1. PICK st \in Stages, n \in Nat : st = stage[h] /\ n = rev[h]
      BY <1>0 DEF TypeOK
    <3>2. /\ pc[h] = "append" /\ pc'[h] = "verify" /\ job' = job
          /\ stage' = stage /\ rev' = rev /\ done' = done
      BY <1>0, <1>11, <2>1 DEF AppendEdge, Goto, TypeOK
    <3>3. n <= Len(stream[Aim(st, y)]) /\ Aim(st, y) \in Plans
      BY <1>0, <1>1, <3>1, <3>2, PlanFacts DEF LoopInv, ReadAt, Aim
    <3>4. n <= Len(stream'[Aim(st, y)])
      <4>1. Len(stream[Aim(st, y)]) <= Len(stream'[Aim(st, y)])
        BY <1>0, <3>3, GrowthIsLater
      <4>2. Len(stream[Aim(st, y)]) \in Nat /\ Len(stream'[Aim(st, y)]) \in Nat
        BY <1>0, <3>3, StreamTyped
      <4> QED
        BY <3>3, <4>1, <4>2
    <3>5. ReadAt(h, st, y, n)'
      BY <3>2, <3>4 DEF ReadAt
    <3>6. LoopInv(h)'
      BY <1>1, <3>1, <3>2, <3>5 DEF LoopInv
    <3>7. Knows(h, y)'
      BY <1>2, <3>2 DEF Knows, Kept, KnowsAuthorized, KnowsComplete,
         KnowsParent, Entry, Loop, Effects, Journal, Owned
    <3> QED
      BY <1>1, <3>2, <3>6, <3>7 DEF OwnInv, CallInv
  <2>2. CASE Goto(h, "read") /\ UNCHANGED <<job, stage, rev, done, mode>>
    <3>1. pc[h] = "append" /\ pc'[h] = "read" /\ job' = job /\ stage' = stage
          /\ done' = done
      BY <1>0, <1>11, <2>2 DEF AppendEdge, Goto, TypeOK
    <3>2. Knows(h, y)'
      BY <1>2, <3>1 DEF Knows, Kept, KnowsAuthorized, KnowsComplete,
         KnowsParent, Entry, Loop, Effects, Journal, Owned
    <3> QED
      BY <1>1, <3>1, <3>2, NoLoop DEF OwnInv, CallInv
  <2> QED
    BY <1>3, <1>11, <2>1, <2>2 DEF AppendEdge
<1>12. CASE VerifyHead(h)
  <2>1. pc[h] = "verify" /\ pc[h] \in Loop
    BY <1>12 DEF VerifyHead, Loop
  <2>2. CASE CurrentState(Target(h)) = Edge(h).to /\ AfterAppend(h)
    <3>1. rev[h] <= Len(stream[Target(h)])
      BY <1>0, <2>1 DEF LoopInv, ReadAt, Target, Aim
    <3>2. PICK s \in InterventionState :
            CurrentState(Target(h)) = Wanted(stage[h], y, s)
      <4>0. Target(h) \in Plans /\ rev[h] \in Nat
        BY <1>0, TargetTyped DEF TypeOK
      <4>1. rev[h] \in 0..Len(stream[Target(h)]) /\ Target(h) \in Plans
        BY <1>0, <3>1, <4>0, StreamTyped
      <4>2. StateAt(Target(h), rev[h]) \in InterventionState
        BY <1>0, <4>1, StateTyped
      <4> QED
        BY <1>0, <1>1, <2>2, <3>1, <4>2, EdgeTyped
    <3>3. ASSUME stage[h] = "authorize"
          PROVE  CurrentState(y).authorization = "authorized"
      BY <1>1, <3>2, <3>3 DEF Wanted, Target, InterventionState
    <3>4. ASSUME stage[h] = "parent"
          PROVE  ParentReached(y)
      BY <1>1, <3>2, <3>4 DEF Wanted, ReversedState, Target, ParentReached,
                              InterventionState
    <3> QED
      BY <1>1, <2>1, <2>2, <3>3, <3>4, AfterAppendOwn
  <2> QED
    BY <1>3, <1>12, <2>2 DEF VerifyHead
<1>13. CASE LoadReceipt(h)
  <2> DEFINE i == NextEffect(job[h], done[h])
  <2>1. CASE i \in receipts[job[h]] /\ AfterReceipt(h, done[h] \cup {i})
    <3>1. done[h] \cup {i} \subseteq receipts'[job[h]] /\ job' = job
          /\ pc[h] \in Effects
      BY <1>1, <1>2, <1>13, <2>1 DEF LoadReceipt, Knows, Kept, Effects, store
    <3> QED
      BY <2>1, <3>1, AfterReceiptOwn
  <2>2. CASE Goto(h, "apply") /\ UNCHANGED local
    <3>1. pc[h] = "effect" /\ pc'[h] = "apply" /\ job' = job /\ done' = done
      BY <1>0, <1>13, <2>2 DEF LoadReceipt, Goto, local, TypeOK
    <3>2. Knows(h, y)'
      BY <1>2, <3>1 DEF Knows, Kept, KnowsAuthorized, KnowsComplete,
         KnowsParent, Entry, Loop, Effects, Journal, Owned
    <3> QED
      BY <1>1, <3>1, <3>2, NoLoop DEF OwnInv, CallInv
  <2> QED
    BY <1>13, <2>1, <2>2 DEF LoadReceipt
<1>14. CASE ApplyEffect(h)
  <2>1. /\ pc[h] = "apply" /\ pc'[h] = "receipt" /\ job' = job /\ done' = done
        /\ NextEffect(y, done[h]) \in applied'[y]
    BY <1>0, <1>1, <1>14 DEF ApplyEffect, Goto, TypeOK
  <2>2. Knows(h, y)'
    BY <1>2, <2>1 DEF Knows, Kept, KnowsAuthorized, KnowsComplete,
       KnowsParent, Entry, Loop, Effects, Journal, Owned
  <2> QED
    BY <1>1, <2>1, <2>2, NoLoop DEF OwnInv, CallInv
<1>15. CASE FailEffect(h)
  <2>1. /\ pc[h] = "apply" /\ pc'[h] = "read" /\ stage'[h] = "fail"
        /\ job' = job /\ done' = done
    BY <1>0, <1>15 DEF FailEffect, StartAppend, Goto, TypeOK
  <2>2. Knows(h, y)'
    BY <1>2, <2>1 DEF Knows, Kept, KnowsAuthorized, KnowsComplete,
       KnowsParent, Entry, Loop, Effects, Journal, Owned
  <2> QED
    BY <1>1, <2>1, <2>2, NoLoop DEF OwnInv, CallInv
<1>16. CASE StoreReceipt(h)
  <2> DEFINE i == NextEffect(job[h], done[h])
  <2>1. done[h] \cup {i} \subseteq receipts'[job[h]]
    BY <1>0, <1>1, <1>2, <1>16 DEF StoreReceipt, Knows, TypeOK
  <2> QED
    BY <1>16, <2>1, AfterReceiptOwn DEF StoreReceipt, Effects
<1>17. CASE ReadBefore(h)
  <2>1. /\ pc[h] = "before" /\ pc'[h] = "read" /\ stage'[h] = "publish"
        /\ job' = job /\ done' = done
    BY <1>0, <1>17 DEF ReadBefore, StartAppend, Goto, TypeOK
  <2>2. Knows(h, y)'
    BY <1>2, <2>1 DEF Knows, Kept, KnowsAuthorized, KnowsComplete,
       KnowsParent, Entry, Loop, Effects, Journal, Owned
  <2> QED
    BY <1>1, <2>1, <2>2, NoLoop DEF OwnInv, CallInv
<1>18. CASE ReadFinal(h) \/ Crash(h)
  BY <1>3, <1>18 DEF ReadFinal, Crash
<1> QED
  BY <1>4, <1>5, <1>6, <1>7, <1>8, <1>9, <1>10, <1>11, <1>12, <1>13, <1>14,
     <1>15, <1>16, <1>17, <1>18 DEF Step

(* Only the host whose step it is moves.                                   *)
LEMMA OthersStill ==
  ASSUME TypeOK, NEW h \in Hosts,
         Step(h) \/ Crash(h) \/ \E x \in Plans : Begin(h, x)
  PROVE  \A g \in Hosts \ {h} : Still(g)
<1>1. ASSUME NEW o, Finish(h, o) PROVE \A g \in Hosts \ {h} : Still(g)
  BY <1>1 DEF Finish, Goto, Still, TypeOK
<1>2. CASE Resume(h) \/ Check(h) \/ ReadFinal(h) \/ Crash(h)
  BY <1>1, <1>2 DEF Resume, Check, ReadFinal, Crash, Goto, local, Still, TypeOK
<1>3. CASE Authority(h)
  BY <1>1, <1>3 DEF Authority, Goto, Still, TypeOK
<1>4. CASE \/ EnsureHeader(h) \/ EnsureMembership(h) \/ ApplyEffect(h)
           \/ FailEffect(h) \/ ReadBefore(h) \/ \E x \in Plans : Begin(h, x)
  BY <1>4 DEF EnsureHeader, EnsureMembership, ApplyEffect, FailEffect,
              ReadBefore, Begin, StartAppend, Goto, Still, TypeOK
<1>5. CASE LoadReceipt(h) \/ StoreReceipt(h)
  BY <1>5 DEF LoadReceipt, StoreReceipt, AfterReceipt, StartAppend, Goto, local,
              Still, TypeOK
<1>6. CASE ReadStream(h) \/ VerifyHead(h)
  BY <1>1, <1>6 DEF ReadStream, VerifyHead, AfterAppend, Goto, Still, TypeOK
<1>7. CASE AppendEdge(h)
  BY <1>1, <1>7 DEF AppendEdge, Goto, Still, TypeOK
<1> QED
  BY <1>2, <1>3, <1>4, <1>5, <1>6, <1>7 DEF Step

(* Only the authority step can make a call the fresh owner of its journal, *)
(* and only by creating the consumption.                                   *)
LEMMA ModeStep ==
  ASSUME IInv, TypeOK', NEW h \in Hosts,
         Step(h) \/ Crash(h) \/ \E x \in Plans : Begin(h, x)
  PROVE  \/ mode'[h] = "resumed"
         \/ /\ mode'[h] = mode[h] /\ job'[h] = job[h]
            /\ pc[h] \notin {"idle", "resume", "check", "authority"}
            /\ pc'[h] \notin {"idle", "resume", "check", "authority"}
         \/ /\ mode'[h] = "published" /\ job'[h] = job[h] /\ pc'[h] = "header"
            /\ job[h] \notin consumed /\ job[h] \in consumed'
<1>0. TypeOK /\ ModeInv
  BY DEF IInv
<1>1. ASSUME NEW o, Finish(h, o) PROVE mode'[h] = "resumed"
  BY <1>0, <1>1 DEF Finish, TypeOK
<1>2. CASE Resume(h) \/ Check(h) \/ ReadFinal(h) \/ Crash(h)
  <2>1. CASE \E o : Finish(h, o)
    BY <1>1, <2>1
  <2>2. CASE mode' = mode /\ pc[h] \in {"resume", "check"}
    BY <1>0, <2>2 DEF ModeInv
  <2> QED
    BY <1>2, <2>1, <2>2 DEF Resume, Check, ReadFinal, Crash, local
<1>3. CASE Authority(h)
  <2>1. CASE ~Finish(h, "refused")
    BY <1>0, <1>3, <2>1 DEF Authority, Goto, TypeOK
  <2> QED
    BY <1>1, <2>1
<1>4. CASE \E x \in Plans : Begin(h, x)
  BY <1>0, <1>4 DEF Begin, ModeInv
<1>5. CASE \/ EnsureHeader(h) \/ EnsureMembership(h) \/ ApplyEffect(h)
           \/ FailEffect(h) \/ ReadBefore(h)
  BY <1>0, <1>5 DEF EnsureHeader, EnsureMembership, ApplyEffect, FailEffect,
                    ReadBefore, StartAppend, Goto, TypeOK
<1>6. CASE LoadReceipt(h) \/ StoreReceipt(h)
  BY <1>0, <1>6 DEF LoadReceipt, StoreReceipt, AfterReceipt, StartAppend, Goto,
                    local, TypeOK
<1>7. CASE ReadStream(h) \/ VerifyHead(h)
  <2>1. CASE AfterAppend(h) /\ stage[h] # "fail"
    BY <1>0, <1>7, <2>1 DEF ReadStream, VerifyHead, AfterAppend, Goto, TypeOK,
                            Stages
  <2>2. CASE \E o : Finish(h, o)
    BY <1>1, <2>2
  <2>3. CASE Goto(h, "append") /\ UNCHANGED <<job, mode>> /\ pc[h] = "read"
    BY <1>0, <2>3 DEF Goto, TypeOK
  <2> QED
    BY <1>7, <2>1, <2>2, <2>3 DEF ReadStream, VerifyHead, AfterAppend
<1>8. CASE AppendEdge(h)
  <2>1. CASE \E o : Finish(h, o)
    BY <1>1, <2>1
  <2>2. CASE /\ Goto(h, "verify") \/ Goto(h, "read")
             /\ UNCHANGED <<job, mode>> /\ pc[h] = "append"
    BY <1>0, <2>2 DEF Goto, TypeOK
  <2> QED
    BY <1>8, <2>1, <2>2 DEF AppendEdge
<1> QED
  BY <1>2, <1>3, <1>4, <1>5, <1>6, <1>7, <1>8 DEF Step

-------------------------------------------------------------------------------
(***************************************************************************)
(* Every step preserves the invariant                                      *)
(***************************************************************************)

(* Every step preserves the invariants of the store.                       *)
LEMMA NextStore ==
  ASSUME IInv, TypeOK', Next
  PROVE  StoreInv'
<1>0. TypeOK /\ WriteOrder
  BY DEF IInv, Safe
<1>1. ASSUME UNCHANGED <<store, applied>> PROVE StoreInv'
  BY <1>0, <1>1, RecordsKeepStore DEF store, WriteOrder
<1>2. ASSUME \/ \E f \in Forward : Prepare(f)
             \/ \E f \in Forward, a \in ReversalActions : PrepareReversal(f, a)
      PROVE  StoreInv'
  BY <1>0, <1>2, RecordsKeepStore DEF Prepare, PrepareReversal, WriteOrder
<1>3. ASSUME NEW h \in Hosts, Authority(h) PROVE StoreInv'
  <2>1. Knows(h, job[h]) /\ pc[h] = "authority"
    BY <1>3 DEF IInv, CallInv, Authority
  <2>2. job[h] \in plans
    BY <2>1 DEF Knows
  <2>3. CASE UNCHANGED <<store, applied>>
    BY <1>1, <2>3
  <2>4. CASE /\ consumed' = consumed \cup {job[h]}
             /\ UNCHANGED <<plans, headers, members, stream, receipts, applied>>
    BY <1>0, <2>2, <2>4, RecordsKeepStore DEF WriteOrder
  <2> QED
    BY <1>3, <2>3, <2>4 DEF Authority
<1>4. ASSUME NEW h \in Hosts, EnsureHeader(h) PROVE StoreInv'
  <2>1. Knows(h, job[h]) /\ pc[h] = "header"
    BY <1>4 DEF IInv, CallInv, EnsureHeader
  <2>2. job[h] \in consumed
    BY <2>1 DEF Knows, Owned
  <2> QED
    BY <1>0, <1>4, <2>2, RecordsKeepStore DEF EnsureHeader, WriteOrder
<1>5. ASSUME NEW h \in Hosts, EnsureMembership(h) PROVE StoreInv'
  <2>1. Knows(h, job[h]) /\ pc[h] = "membership"
    BY <1>5 DEF IInv, CallInv, EnsureMembership
  <2>2. job[h] \in headers
    BY <2>1 DEF Knows
  <2> QED
    BY <1>0, <1>5, <2>2, RecordsKeepStore DEF EnsureMembership, WriteOrder
<1>6. ASSUME NEW h \in Hosts, AppendEdge(h) PROVE StoreInv'
  <2>1. CASE Len(stream[Target(h)]) = rev[h]
    <3>1. PICK x \in Plans, e \in Transition : Appends(h, x, e)
      BY <1>6, <2>1, AppendIsLegal
    <3> QED
      BY <1>6, <3>1, AppendKeepsStore DEF AppendEdge
  <2>2. CASE Len(stream[Target(h)]) # rev[h]
    BY <1>1, <1>6, <2>2 DEF AppendEdge, store
  <2> QED
    BY <2>1, <2>2
<1>7. ASSUME NEW h \in Hosts, ApplyEffect(h) \/ FailEffect(h) PROVE StoreInv'
  <2>1. PICK y \in Plans : y = job[h]
    BY <1>0 DEF TypeOK
  <2>2. pc[h] \in Effects /\ UNCHANGED store
    BY <1>7 DEF ApplyEffect, FailEffect, Effects
  <2>3. CASE UNCHANGED applied
    BY <1>1, <2>2, <2>3
  <2>4. CASE applied' = [applied EXCEPT ![y] = @ \cup {NextEffect(y, done[h])}]
    BY <2>1, <2>2, <2>4, EffectKeepsStore
  <2> QED
    BY <1>7, <2>1, <2>3, <2>4 DEF ApplyEffect, FailEffect
<1>8. ASSUME NEW h \in Hosts, StoreReceipt(h) PROVE StoreInv'
  <2>1. PICK y \in Plans : y = job[h]
    BY <1>0 DEF TypeOK
  <2>2. Knows(h, y) /\ pc[h] = "receipt"
    BY <1>8, <2>1 DEF IInv, CallInv, StoreReceipt
  <2>3. NextEffect(y, done[h]) \in applied[y]
    BY <2>2 DEF Knows
  <2> QED
    BY <1>8, <2>1, <2>3, ReceiptKeepsStore DEF StoreReceipt, Receives
<1>9. ASSUME NEW h \in Hosts,
             \/ Resume(h) \/ Check(h) \/ ReadStream(h) \/ VerifyHead(h)
             \/ LoadReceipt(h) \/ ReadBefore(h) \/ ReadFinal(h) \/ Crash(h)
             \/ \E x \in Plans : Begin(h, x)
      PROVE  StoreInv'
  BY <1>1, <1>9 DEF Resume, Check, ReadStream, VerifyHead, LoadReceipt,
                    ReadBefore, ReadFinal, Crash, Begin
<1> QED
  BY <1>2, <1>3, <1>4, <1>5, <1>6, <1>7, <1>8, <1>9 DEF Next, Step

(* Every step preserves the invariant.                                     *)
LEMMA NextIInv ==
  ASSUME IInv, Next
  PROVE  IInv'
<1>1. TypeOK' /\ TypeOK /\ OneFreshOwner /\ ModeInv
  BY TypeNext DEF IInv, Safe
<1>2. Grows /\ StoreInv'
  BY <1>1, GrowsNext, NextStore
<1>3. ASSUME \A g \in Hosts : Still(g)
      PROVE  IInv'
  <2>1. \A g \in Hosts : CallInv(g)' /\ LoopInv(g)'
    BY <1>1, <1>2, <1>3, StillKeepsCall, StillKeepsLoop
  <2>2. OneFreshOwner' /\ ModeInv'
    BY <1>1, <1>2, <1>3 DEF OneFreshOwner, ModeInv, Still, Grows
  <2> QED
    BY <1>1, <1>2, <2>1, <2>2 DEF IInv, Safe, StoreInv
<1>4. ASSUME NEW h \in Hosts,
             Step(h) \/ Crash(h) \/ \E x \in Plans : Begin(h, x)
      PROVE  IInv'
  <2>1. \A g \in Hosts \ {h} : Still(g)
    BY <1>1, <1>4, OthersStill
  <2>2. \A g \in Hosts \ {h} : CallInv(g)' /\ LoopInv(g)'
    BY <1>1, <1>2, <2>1, StillKeepsCall, StillKeepsLoop
  <2>3. CallInv(h)' /\ LoopInv(h)'
    BY <1>1, <1>2, <1>4, StepOwn DEF OwnInv
  <2>4. \/ mode'[h] = "resumed"
        \/ /\ mode'[h] = mode[h] /\ job'[h] = job[h]
           /\ pc[h] \notin {"idle", "resume", "check", "authority"}
           /\ pc'[h] \notin {"idle", "resume", "check", "authority"}
        \/ /\ mode'[h] = "published" /\ job'[h] = job[h] /\ pc'[h] = "header"
           /\ job[h] \notin consumed /\ job[h] \in consumed'
    BY <1>1, <1>4, ModeStep
  <2>5. ModeInv'
    BY <1>1, <2>1, <2>4 DEF ModeInv, Still
  <2>6. OneFreshOwner'
    BY <1>1, <1>2, <2>1, <2>4 DEF OneFreshOwner, Still, Grows
  <2> QED
    BY <1>1, <1>2, <2>2, <2>3, <2>5, <2>6 DEF IInv, Safe, StoreInv
<1>5. ASSUME \/ \E f \in Forward : Prepare(f)
             \/ \E f \in Forward, a \in ReversalActions : PrepareReversal(f, a)
      PROVE  \A g \in Hosts : Still(g)
  BY <1>5 DEF Prepare, PrepareReversal, local, Still
<1> QED
  BY <1>3, <1>4, <1>5 DEF Next

(* So does a stuttering step.                                              *)
LEMMA StutterIInv ==
  ASSUME IInv, UNCHANGED vars
  PROVE  IInv'
<1>1. TypeOK' /\ Grows
  BY DEF IInv, TypeOK, Grows, vars
<1>2. StoreInv'
  BY RecordsKeepStore DEF IInv, Safe, WriteOrder, vars
<1>3. \A g \in Hosts : Still(g)
  BY DEF Still, vars
<1>4. \A g \in Hosts : CallInv(g)' /\ LoopInv(g)'
  BY <1>1, <1>3, StillKeepsCall, StillKeepsLoop
<1>5. OneFreshOwner' /\ ModeInv'
  BY DEF IInv, Safe, OneFreshOwner, ModeInv, vars
<1> QED
  BY <1>1, <1>2, <1>4, <1>5 DEF IInv, Safe, StoreInv

(* The inductive invariant holds throughout every behaviour.               *)
THEOREM Invariance == Spec => []IInv
<1>1. IInv /\ [Next]_vars => IInv'
  BY NextIInv, StutterIInv
<1> QED
  BY InitIInv, <1>1, PTL DEF Spec

-------------------------------------------------------------------------------
(***************************************************************************)
(* The theorems                                                            *)
(***************************************************************************)

(* The types of the store and of the calls; in particular the append loop  *)
(* never exceeds its bound.                                                *)
THEOREM TypeCorrect == Spec => []TypeOK
<1>1. IInv => TypeOK
  BY DEF IInv
<1> QED
  BY Invariance, <1>1, PTL

(* At every crash point and for any number of contenders the journal has   *)
(* been written in the order of decision 0026, ruling 5.                   *)
THEOREM WritesInOrder == Spec => [](WriteOrder /\ PlanOrder)
<1>1. IInv => WriteOrder /\ PlanOrder
  BY DEF IInv, Safe
<1> QED
  BY Invariance, <1>1, PTL

(* A stream the protocol wrote is never refused when it is read back.      *)
THEOREM StreamsStayReadable == Spec => []StreamsReadable
<1>1. IInv => StreamsReadable
  BY DEF IInv, Safe
<1> QED
  BY Invariance, <1>1, PTL

(* A publish edge proves every effect of its plan.                         *)
THEOREM PublishEdgeIsLast == Spec => []PublishedIsComplete
<1>1. IInv => PublishedIsComplete
  BY DEF IInv, Safe
<1> QED
  BY Invariance, <1>1, PTL

(* A parent is deactivated only by a completely applied reversal of it,    *)
(* and a published reversal has deactivated it (decision 0026, ruling 12). *)
THEOREM ReversalsAreOrdered ==
  Spec => [](ReversalEffectsFirst /\ ReversalReachesParent)
<1>1. IInv => ReversalEffectsFirst /\ ReversalReachesParent
  BY DEF IInv, Safe
<1> QED
  BY Invariance, <1>1, PTL

(* Concurrent publishes of one plan have at most one fresh owner.          *)
THEOREM FreshOwnerIsUnique == Spec => []OneFreshOwner
<1>1. IInv => OneFreshOwner
  BY DEF IInv, Safe
<1> QED
  BY Invariance, <1>1, PTL

(* A call that reports a completed journal tells the truth: the fold it    *)
(* read said published, which a publish edge must have made, and that edge *)
(* was the last write of the journal.                                      *)
LEMMA PublishedTellsTruth ==
  ASSUME IInv, NEW x \in Plans, CurrentState(x).publication = "published"
  PROVE  /\ receipts[x] = x.effects
         /\ \E k \in DOMAIN stream[x] :
              Publishes(stream[x][k].from, stream[x][k].to)
BY DEF IInv, Safe, JournalInv, PublishedIsComplete

(* A call reports completion only after reading a published fold.          *)
LEMMA CompletionStep ==
  ASSUME IInv, Next, NEW h \in Hosts,
         outcome'[h] \in {"published", "resumed", "no_op"}, outcome[h] = "none"
  PROVE  CurrentState(job[h]).publication = "published"
<1>0. TypeOK
  BY DEF IInv
<1>1. ASSUME NEW g \in Hosts, NEW o, Finish(g, o)
      PROVE  g = h /\ o \in {"published", "resumed", "no_op"}
  BY <1>0, <1>1 DEF Finish, TypeOK
<1>2. outcome' # outcome
  OBVIOUS
<1>3. ASSUME NEW g \in Hosts, Resume(g)
      PROVE  CurrentState(job[h]).publication = "published"
  BY <1>1, <1>2, <1>3 DEF Resume, local
<1>4. ASSUME NEW g \in Hosts, ReadFinal(g)
      PROVE  CurrentState(job[h]).publication = "published"
  BY <1>1, <1>4 DEF ReadFinal
<1>5. ASSUME NEW g \in Hosts, NEW x \in Plans, Begin(g, x)
      PROVE  FALSE
  BY <1>0, <1>5 DEF Begin, TypeOK
<1>6. ASSUME NEW g \in Hosts, Check(g) \/ Authority(g) \/ Crash(g)
      PROVE  FALSE
  BY <1>1, <1>2, <1>6 DEF Check, Authority, Crash, local
<1>7. ASSUME NEW g \in Hosts, ReadStream(g) \/ VerifyHead(g) \/ AppendEdge(g)
      PROVE  FALSE
  BY <1>1, <1>2, <1>7 DEF ReadStream, VerifyHead, AppendEdge, AfterAppend
<1>8. ASSUME NEW g \in Hosts,
             \/ EnsureHeader(g) \/ EnsureMembership(g) \/ LoadReceipt(g)
             \/ ApplyEffect(g) \/ FailEffect(g) \/ StoreReceipt(g)
             \/ ReadBefore(g)
      PROVE  FALSE
  BY <1>2, <1>8 DEF EnsureHeader, EnsureMembership, LoadReceipt, ApplyEffect,
                    FailEffect, StoreReceipt, ReadBefore, local
<1>9. ASSUME \/ \E f \in Forward : Prepare(f)
             \/ \E f \in Forward, a \in ReversalActions : PrepareReversal(f, a)
      PROVE  FALSE
  BY <1>2, <1>9 DEF Prepare, PrepareReversal, local
<1> QED
  BY <1>3, <1>4, <1>5, <1>6, <1>7, <1>8, <1>9 DEF Next, Step

(* Whatever the interleaving, no caller is told a journal is complete      *)
(* before every effect is applied and receipted.                           *)
THEOREM CompletionIsTruthful == Spec => CompletionTruthful
<1>1. ASSUME IInv, [Next]_vars
      PROVE  [\A h \in Hosts :
                outcome'[h] \in {"published", "resumed", "no_op"}
                  /\ outcome[h] = "none" =>
                  /\ receipts[job[h]] = job[h].effects
                  /\ \E k \in DOMAIN stream[job[h]] :
                       Publishes(stream[job[h]][k].from,
                                 stream[job[h]][k].to)]_vars
  <2>1. CASE UNCHANGED vars
    BY <2>1
  <2>2. CASE Next
    <3>1. \A h \in Hosts : job[h] \in Plans
      BY <1>1 DEF IInv, TypeOK
    <3> QED
      BY <1>1, <2>2, <3>1, CompletionStep, PublishedTellsTruth
  <2> QED
    BY <1>1, <2>1, <2>2
<1> QED
  BY Invariance, <1>1, PTL DEF Spec, CompletionTruthful

-------------------------------------------------------------------------------
(***************************************************************************)
(* The streams implement the abstract lifecycles                           *)
(***************************************************************************)

Folded == [x \in Plans |-> CurrentState(x)]

(* A step moves at most one intervention, along one legal edge.            *)
LEMMA OneStreamMoves ==
  ASSUME IInv, TypeOK', Next
  PROVE  \/ Folded' = Folded
         \/ \E x \in Plans, t \in InterventionState :
              /\ LegalEdge(CurrentState(x), t)
              /\ Folded' = [Folded EXCEPT ![x] = t]
<1>0. TypeOK
  BY DEF IInv
<1>1. ASSUME UNCHANGED stream PROVE Folded' = Folded
  BY <1>1 DEF Folded, CurrentState, StateAt
<1>2. ASSUME NEW h \in Hosts, AppendEdge(h), Len(stream[Target(h)]) = rev[h]
      PROVE  \E x \in Plans, t \in InterventionState :
               /\ LegalEdge(CurrentState(x), t)
               /\ Folded' = [Folded EXCEPT ![x] = t]
  <2>1. PICK x \in Plans, e \in Transition : Appends(h, x, e)
    BY <1>2, AppendIsLegal
  <2>2. /\ LegalEdge(CurrentState(x), e.to) /\ e.to \in InterventionState
        /\ stream'[x] = Append(stream[x], e)
        /\ \A z \in Plans \ {x} : stream'[z] = stream[z]
    BY <1>0, <2>1 DEF Appends, TypeOK, Transition
  <2>3. CurrentState(x)' = e.to
    BY <1>0, <2>2, AppendStates
  <2>4. \A z \in Plans \ {x} : CurrentState(z)' = CurrentState(z)
    BY <2>2 DEF CurrentState, StateAt
  <2>5. Folded' = [Folded EXCEPT ![x] = e.to]
    BY <2>3, <2>4 DEF Folded
  <2> QED
    BY <2>2, <2>5
<1>3. ASSUME NEW h \in Hosts, AppendEdge(h), Len(stream[Target(h)]) # rev[h]
      PROVE  UNCHANGED stream
  BY <1>3 DEF AppendEdge
<1>4. ASSUME NEW h \in Hosts,
             \/ Authority(h) \/ EnsureHeader(h) \/ EnsureMembership(h)
             \/ ApplyEffect(h) \/ FailEffect(h) \/ StoreReceipt(h)
      PROVE  UNCHANGED stream
  BY <1>4 DEF Authority, EnsureHeader, EnsureMembership, ApplyEffect,
              FailEffect, StoreReceipt, store
<1>5. ASSUME NEW h \in Hosts,
             \/ Resume(h) \/ Check(h) \/ ReadStream(h) \/ VerifyHead(h)
             \/ LoadReceipt(h) \/ ReadBefore(h) \/ ReadFinal(h) \/ Crash(h)
             \/ \E x \in Plans : Begin(h, x)
      PROVE  UNCHANGED stream
  BY <1>5 DEF Resume, Check, ReadStream, VerifyHead, LoadReceipt, ReadBefore,
              ReadFinal, Crash, Begin, store
<1>6. ASSUME \/ \E f \in Forward : Prepare(f)
             \/ \E f \in Forward, a \in ReversalActions : PrepareReversal(f, a)
      PROVE  UNCHANGED stream
  BY <1>6 DEF Prepare, PrepareReversal
<1> QED
  BY <1>1, <1>2, <1>3, <1>4, <1>5, <1>6 DEF Next, Step

(* Both modules speak of the same table.                                   *)
LEMMA SameTable ==
  /\ Lifecycle!InitialState = InitialState /\ Lifecycle!Verdicts = Verdicts
  /\ \A s : Lifecycle!ValidState(s) <=> ValidState(s)
  /\ \A s, t : /\ Lifecycle!Authorizes(s, t) <=> Authorizes(s, t)
               /\ Lifecycle!Publishes(s, t) <=> Publishes(s, t)
               /\ Lifecycle!Fails(s, t) <=> Fails(s, t)
               /\ Lifecycle!Disables(s, t) <=> Disables(s, t)
               /\ Lifecycle!RollsBack(s, t) <=> RollsBack(s, t)
               /\ Lifecycle!Validates(s, t) <=> Validates(s, t)
<1>1. Lifecycle!InitialState = InitialState /\ Lifecycle!Verdicts = Verdicts
  BY DEF Lifecycle!InitialState, InitialState, Lifecycle!Verdicts, Verdicts
<1>2. \A s : /\ Lifecycle!ValidState(s) <=> ValidState(s)
             /\ Lifecycle!Applied(s) <=> Applied(s)
             /\ Lifecycle!Permits(s) <=> Permits(s)
  BY DEF Lifecycle!ValidState, ValidState, Lifecycle!Applied, Applied,
         Lifecycle!Permits, Permits
<1>3. \A s, t : Lifecycle!SameStanding(s, t) <=> SameStanding(s, t)
  BY <1>2 DEF Lifecycle!SameStanding, SameStanding
<1>4. \A s, t : /\ Lifecycle!Authorizes(s, t) <=> Authorizes(s, t)
                /\ Lifecycle!Publishes(s, t) <=> Publishes(s, t)
                /\ Lifecycle!Fails(s, t) <=> Fails(s, t)
  BY <1>3 DEF Lifecycle!Authorizes, Authorizes, Lifecycle!Publishes, Publishes,
              Lifecycle!Fails, Fails
<1>5. \A s, t : /\ Lifecycle!Disables(s, t) <=> Disables(s, t)
                /\ Lifecycle!RollsBack(s, t) <=> RollsBack(s, t)
  BY <1>2, <1>3 DEF Lifecycle!Disables, Disables, Lifecycle!RollsBack, RollsBack
<1>6. \A s, t : Lifecycle!Validates(s, t) <=> Validates(s, t)
  BY <1>1 DEF Lifecycle!Validates, Validates
<1> QED
  BY <1>1, <1>2, <1>4, <1>5, <1>6

(* Each kind of edge is the abstract action of its name.                   *)
LEMMA EdgeIsLifecycleStep ==
  ASSUME NEW x \in Plans, NEW t \in InterventionState,
         CurrentState(x) \in InterventionState,
         LegalEdge(CurrentState(x), t),
         Folded' = [Folded EXCEPT ![x] = t]
  PROVE  Lifecycle!Next
<1> DEFINE s == CurrentState(x)
<1>1. Folded[x] = s
  BY DEF Folded
<1>2. CASE Authorizes(s, t)
  <2>1. t = [s EXCEPT !.authorization = "authorized"]
    BY <1>2 DEF Authorizes
  <2>2. Lifecycle!Authorize(x)
    BY <1>1, <1>2, <2>1, SameTable
       DEF Lifecycle!Authorize, Lifecycle!Take, Folded, LegalEdge
  <2> QED
    BY <2>2 DEF Lifecycle!Next
<1>3. CASE Publishes(s, t)
  <2>1. t.activation \in {"active", "inactive"}
        /\ t = [s EXCEPT !.publication = "published", !.activation = t.activation]
    BY <1>3 DEF Publishes, SameStanding, InterventionState
  <2>2. Lifecycle!Publish(x)
    BY <1>1, <1>3, <2>1, SameTable
       DEF Lifecycle!Publish, Lifecycle!Take, Folded, LegalEdge
  <2> QED
    BY <2>2 DEF Lifecycle!Next
<1>4. CASE Fails(s, t)
  <2>1. t = [s EXCEPT !.publication = "failed"]
    BY <1>4 DEF Fails, SameStanding, InterventionState
  <2>2. Lifecycle!Fail(x)
    BY <1>1, <1>4, <2>1, SameTable
       DEF Lifecycle!Fail, Lifecycle!Take, Folded, LegalEdge
  <2> QED
    BY <2>2 DEF Lifecycle!Next
<1>5. CASE Disables(s, t)
  <2>1. t = [s EXCEPT !.activation = "disabled"]
    BY <1>5 DEF Disables
  <2>2. Lifecycle!Disable(x)
    BY <1>1, <1>5, <2>1, SameTable
       DEF Lifecycle!Disable, Lifecycle!Take, Folded, LegalEdge
  <2> QED
    BY <2>2 DEF Lifecycle!Next
<1>6. CASE RollsBack(s, t)
  <2>1. t = [s EXCEPT !.publication = "rolled_back", !.activation = "disabled"]
    BY <1>6 DEF RollsBack, SameStanding, InterventionState
  <2>2. Lifecycle!Rollback(x)
    BY <1>1, <1>6, <2>1, SameTable
       DEF Lifecycle!Rollback, Lifecycle!Take, Folded, LegalEdge
  <2> QED
    BY <2>2 DEF Lifecycle!Next
<1>7. CASE Validates(s, t)
  <2>1. t.validation \in Verdicts /\ t = [s EXCEPT !.validation = t.validation]
    BY <1>7 DEF Validates
  <2>2. Lifecycle!Validate(x)
    BY <1>1, <1>7, <2>1, SameTable
       DEF Lifecycle!Validate, Lifecycle!Take, Folded, LegalEdge
  <2> QED
    BY <2>2 DEF Lifecycle!Next
<1> QED
  BY <1>2, <1>3, <1>4, <1>5, <1>6, <1>7 DEF LegalEdge

(* The publisher implements the lifecycle specification: read through the  *)
(* fold, its durable streams only ever do what Intervention allows, so     *)
(* every promise of that specification is one of the publisher's.          *)
THEOREM PublisherImplementsLifecycle == Spec => ImplementsLifecycle
<1>1. Init => Lifecycle!Init
  <2>1. ASSUME Init, NEW x \in Plans PROVE CurrentState(x) = InitialState
    <3>1. Len(stream[x]) = 0
      BY <2>1 DEF Init
    <3> QED
      BY <3>1 DEF CurrentState, StateAt
  <2> QED
    BY <2>1, SameTable DEF Lifecycle!Init
<1>2. ASSUME IInv, [Next]_vars
      PROVE  [Lifecycle!Next]_Folded
  <2>1. CASE UNCHANGED vars
    BY <2>1 DEF Folded, CurrentState, StateAt, vars
  <2>2. CASE Next
    <3>1. TypeOK' /\ \A x \in Plans : CurrentState(x) \in InterventionState
      BY <1>2, <2>2, TypeNext, StateTyped DEF IInv
    <3> QED
      BY <1>2, <2>2, <3>1, OneStreamMoves, EdgeIsLifecycleStep
  <2> QED
    BY <1>2, <2>1, <2>2
<1>3. IInv /\ [Next]_vars => [Lifecycle!Next]_Folded
  BY <1>2
<1> QED
  BY Invariance, <1>1, <1>3, PTL DEF Spec, ImplementsLifecycle, Lifecycle!Spec,
                                     Folded

===============================================================================
