-------------------------- MODULE InterventionProofs --------------------------
(***************************************************************************)
(* The lifecycle promises hold for any set of interventions.  The          *)
(* conjunction of the three invariants is inductive: what an authorization *)
(* can become (AuthorizationOnlyConsumed) is needed to know that a pending *)
(* intervention is untouched, and validity of the folded state             *)
(* (ReachableStatesValid) that a failed one never was active.              *)
(***************************************************************************)
EXTENDS Intervention, TLAPS

-------------------------------------------------------------------------------
(***************************************************************************)
(* What the table guarantees edge by edge, of single states.               *)
(***************************************************************************)

(* What one edge preserves of one intervention's state.                    *)
Sound(s) ==
  /\ s.authorization \in {"pending", "authorized"}
  /\ s.authorization = "pending" => s = InitialState
  /\ ValidState(s)
  /\ s.publication = "failed" => s.activation # "active"
  /\ s.activation = "disabled" =>
       s.publication \in {"published", "failed", "rolled_back"}

(* The state every intervention starts in is sound.                        *)
LEMMA InitialSound == InitialState \in InterventionState /\ Sound(InitialState)
BY DEF InterventionState, InitialState, Sound, ValidState

(* No edge leads back to pending, and every edge out of a sound state is   *)
(* sound.                                                                  *)
LEMMA EdgeKeepsSound ==
  ASSUME NEW s \in InterventionState, NEW t \in InterventionState,
         Sound(s), LegalEdge(s, t)
  PROVE  Sound(t)
<1>1. CASE Authorizes(s, t)
  BY <1>1 DEF Authorizes, Sound, ValidState, InterventionState
<1>2. CASE Publishes(s, t)
  BY <1>2 DEF Publishes, SameStanding, Permits, Sound, ValidState, LegalEdge,
              InterventionState
<1>3. CASE Fails(s, t)
  BY <1>3 DEF Fails, SameStanding, Permits, Sound, ValidState, LegalEdge,
              InterventionState
<1>4. CASE Disables(s, t)
  BY <1>4 DEF Disables, Applied, SameStanding, Permits, Sound, ValidState,
              LegalEdge, InterventionState
<1>5. CASE RollsBack(s, t)
  BY <1>5 DEF RollsBack, Applied, SameStanding, Permits, Sound, ValidState,
              LegalEdge, InterventionState
<1>6. CASE Validates(s, t)
  BY <1>6 DEF Validates, Sound, ValidState, LegalEdge, InterventionState
<1> QED
  BY <1>1, <1>2, <1>3, <1>4, <1>5, <1>6 DEF LegalEdge

(* What one edge may never do to a sound state.                            *)
LEMMA EdgeIsForward ==
  ASSUME NEW s \in InterventionState, NEW t \in InterventionState,
         Sound(s), LegalEdge(s, t)
  PROVE  /\ s.authorization = "authorized" => t.authorization = "authorized"
         /\ s.activation = "disabled" => t.activation = "disabled"
         /\ s.publication = "rolled_back" => t.publication = "rolled_back"
         /\ s.publication = "published" =>
              t.publication \in {"published", "rolled_back"}
         /\ s.validation # "untested" => t.validation # "untested"
<1>1. CASE Authorizes(s, t)
  BY <1>1 DEF Authorizes, InterventionState
<1>2. CASE Publishes(s, t)
  BY <1>2 DEF Publishes, SameStanding, InterventionState
<1>3. CASE Fails(s, t)
  BY <1>3 DEF Fails, SameStanding, InterventionState
<1>4. CASE Disables(s, t)
  BY <1>4 DEF Disables, SameStanding, InterventionState
<1>5. CASE RollsBack(s, t)
  BY <1>5 DEF RollsBack, SameStanding, Applied, InterventionState
<1>6. CASE Validates(s, t)
  BY <1>6 DEF Validates, Verdicts, InterventionState
<1> QED
  BY <1>1, <1>2, <1>3, <1>4, <1>5, <1>6 DEF LegalEdge

-------------------------------------------------------------------------------

IInv == TypeOK /\ AuthorizationOnlyConsumed /\ ReachableStatesValid

-------------------------------------------------------------------------------
(* Every action moves one intervention along one edge of the table to a    *)
(* valid state.                                                            *)
LEMMA StepIsEdge ==
  ASSUME TypeOK, Next
  PROVE  \E i \in Interventions, t \in InterventionState :
           /\ state' = [state EXCEPT ![i] = t]
           /\ LegalEdge(state[i], t)
<1>1. PICK i \in Interventions :
        \/ Authorize(i) \/ Publish(i) \/ Fail(i)
        \/ Disable(i) \/ Rollback(i) \/ Validate(i)
  BY DEF Next
<1>2. state[i] \in InterventionState
  BY <1>1 DEF TypeOK
<1>3. CASE Authorize(i)
  <2> DEFINE t == [state[i] EXCEPT !.authorization = "authorized"]
  <2>1. t \in InterventionState
    BY <1>2 DEF InterventionState
  <2> QED
    BY <1>3, <2>1 DEF Authorize, Take, LegalEdge
<1>4. CASE Publish(i)
  <2>1. PICK a \in {"active", "inactive"} :
          Take(i, Publishes,
               [state[i] EXCEPT !.publication = "published", !.activation = a])
    BY <1>4 DEF Publish
  <2> DEFINE t == [state[i] EXCEPT !.publication = "published",
                                   !.activation = a]
  <2>2. t \in InterventionState
    BY <1>2 DEF InterventionState
  <2> QED
    BY <2>1, <2>2 DEF Take, LegalEdge
<1>5. CASE Fail(i)
  <2> DEFINE t == [state[i] EXCEPT !.publication = "failed"]
  <2>1. t \in InterventionState
    BY <1>2 DEF InterventionState
  <2> QED
    BY <1>5, <2>1 DEF Fail, Take, LegalEdge
<1>6. CASE Disable(i)
  <2> DEFINE t == [state[i] EXCEPT !.activation = "disabled"]
  <2>1. t \in InterventionState
    BY <1>2 DEF InterventionState
  <2> QED
    BY <1>6, <2>1 DEF Disable, Take, LegalEdge
<1>7. CASE Rollback(i)
  <2> DEFINE t == [state[i] EXCEPT !.publication = "rolled_back",
                                   !.activation = "disabled"]
  <2>1. t \in InterventionState
    BY <1>2 DEF InterventionState
  <2> QED
    BY <1>7, <2>1 DEF Rollback, Take, LegalEdge
<1>8. CASE Validate(i)
  <2>1. PICK v \in Verdicts :
          Take(i, Validates, [state[i] EXCEPT !.validation = v])
    BY <1>8 DEF Validate
  <2> DEFINE t == [state[i] EXCEPT !.validation = v]
  <2>2. t \in InterventionState
    BY <1>2 DEF InterventionState
  <2> QED
    BY <2>1, <2>2 DEF Take, LegalEdge
<1> QED
  BY <1>1, <1>3, <1>4, <1>5, <1>6, <1>7, <1>8

-------------------------------------------------------------------------------
(* The invariant says that every folded state is sound.                    *)
LEMMA IInvIsSound ==
  IInv <=> TypeOK /\ \A i \in Interventions : Sound(state[i])
BY DEF IInv, AuthorizationOnlyConsumed, ReachableStatesValid, Sound

(* The initial states satisfy the invariant.                               *)
LEMMA InitIInv == Init => IInv
BY InitialSound, IInvIsSound DEF Init, TypeOK

(* Every step preserves the invariant, because it is an edge of the table. *)
LEMMA NextIInv == IInv /\ [Next]_state => IInv'
<1> SUFFICES ASSUME IInv, [Next]_state PROVE IInv'
  OBVIOUS
<1>1. CASE UNCHANGED state
  BY <1>1 DEF IInv, TypeOK, AuthorizationOnlyConsumed, ReachableStatesValid
<1>2. CASE Next
  <2>1. TypeOK /\ \A i \in Interventions : Sound(state[i])
    BY IInvIsSound
  <2>2. PICK i \in Interventions, t \in InterventionState :
          state' = [state EXCEPT ![i] = t] /\ LegalEdge(state[i], t)
    BY <1>2, <2>1, StepIsEdge
  <2>3. Sound(t)
    BY <2>1, <2>2, EdgeKeepsSound DEF TypeOK
  <2>4. TypeOK'
    BY <2>1, <2>2 DEF TypeOK
  <2>5. \A j \in Interventions : Sound(state'[j])
    BY <2>1, <2>2, <2>3 DEF TypeOK
  <2> QED
    BY <2>4, <2>5 DEF IInv, AuthorizationOnlyConsumed, ReachableStatesValid, Sound
<1> QED
  BY <1>1, <1>2

(* In every reachable state authorization is pending or consumed, and an   *)
(* intervention that was not authorized is exactly the initial state.      *)
THEOREM AuthorizationConsumed == Spec => []AuthorizationOnlyConsumed
<1>1. IInv => AuthorizationOnlyConsumed
  BY DEF IInv
<1> QED
  BY InitIInv, NextIInv, <1>1, PTL DEF Spec

(* Every intervention always folds to a structurally valid state, and a    *)
(* failed publication is never in force.                                   *)
THEOREM StatesValid == Spec => [](TypeOK /\ ReachableStatesValid)
<1>1. IInv => TypeOK /\ ReachableStatesValid
  BY DEF IInv
<1> QED
  BY InitIInv, NextIInv, <1>1, PTL DEF Spec

(* Deactivation, rollback and a validation verdict are never undone.       *)
THEOREM DeactivationFinal == Spec => NoResurrection
<1> DEFINE Forward(s, t) ==
      /\ s.activation = "disabled" => t.activation = "disabled"
      /\ s.publication = "rolled_back" => t.publication = "rolled_back"
      /\ s.publication = "published" =>
           t.publication \in {"published", "rolled_back"}
      /\ s.validation # "untested" => t.validation # "untested"
<1>1. IInv /\ Next => \A j \in Interventions : Forward(state[j], state'[j])
  <2> SUFFICES ASSUME IInv, Next, NEW j \in Interventions
               PROVE  Forward(state[j], state'[j])
    OBVIOUS
  <2>1. TypeOK /\ \A i \in Interventions : Sound(state[i])
    BY IInvIsSound
  <2>2. PICK i \in Interventions, t \in InterventionState :
          state' = [state EXCEPT ![i] = t] /\ LegalEdge(state[i], t)
    BY <2>1, StepIsEdge
  <2>3. CASE j = i
    BY <2>1, <2>2, <2>3, EdgeIsForward DEF TypeOK
  <2>4. CASE j # i
    BY <2>1, <2>2, <2>4 DEF TypeOK
  <2> QED
    BY <2>3, <2>4
<1>2. IInv /\ [Next]_state =>
        [\A i \in Interventions :
           /\ state[i].activation = "disabled" => state'[i].activation = "disabled"
           /\ state[i].publication = "rolled_back" =>
                state'[i].publication = "rolled_back"
           /\ state[i].publication = "published" =>
                state'[i].publication \in {"published", "rolled_back"}
           /\ state[i].validation # "untested" =>
                state'[i].validation # "untested"]_state
  BY <1>1
<1> QED
  BY InitIInv, NextIInv, <1>2, PTL DEF Spec, NoResurrection

===============================================================================
