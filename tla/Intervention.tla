----------------------------- MODULE Intervention -----------------------------
(***************************************************************************)
(* What the kernel promises about its interventions, whatever the protocol *)
(* that moves them: each walks the legal-transition table, one edge at a   *)
(* time, independently of the others.  Publication implements this         *)
(* specification with the durable transition streams.                      *)
(***************************************************************************)
EXTENDS InterventionTable

CONSTANT Interventions      \* the identities of interventions

VARIABLE state              \* the folded state of each intervention

TypeOK == state \in [Interventions -> InterventionState]

Init == state = [i \in Interventions |-> InitialState]

(* i moves along an edge of the given kind to t.                           *)
Take(i, Kind(_, _), t) ==
  /\ Kind(state[i], t)
  /\ ValidState(state[i]) /\ ValidState(t)
  /\ state' = [state EXCEPT ![i] = t]

Authorize(i) ==
  Take(i, Authorizes, [state[i] EXCEPT !.authorization = "authorized"])

Publish(i) ==
  \E a \in {"active", "inactive"} :
    Take(i, Publishes,
         [state[i] EXCEPT !.publication = "published", !.activation = a])

Fail(i) == Take(i, Fails, [state[i] EXCEPT !.publication = "failed"])

Disable(i) == Take(i, Disables, [state[i] EXCEPT !.activation = "disabled"])

Rollback(i) ==
  Take(i, RollsBack, [state[i] EXCEPT !.publication = "rolled_back",
                                      !.activation = "disabled"])

Validate(i) ==
  \E v \in Verdicts : Take(i, Validates, [state[i] EXCEPT !.validation = v])

Next ==
  \E i \in Interventions :
    \/ Authorize(i) \/ Publish(i) \/ Fail(i)
    \/ Disable(i) \/ Rollback(i) \/ Validate(i)

Spec == Init /\ [][Next]_state

-------------------------------------------------------------------------------
(***************************************************************************)
(* Properties                                                              *)
(***************************************************************************)

(* Authorization is only ever consumed, never waived, revoked or expired:  *)
(* whatever left the initial state carries "authorized", and a validation  *)
(* verdict is held only by an authorized intervention (decision 0026,      *)
(* rulings 1 and 2: no edge mints revoked or expired).                     *)
AuthorizationOnlyConsumed ==
  \A i \in Interventions :
    /\ state[i].authorization \in {"pending", "authorized"}
    /\ state[i].authorization = "pending" => state[i] = InitialState

(* Every state an intervention can be folded to is structurally valid, and *)
(* a failed publication has never been in force: the only way out of it is *)
(* through publish, disable or rollback.                                   *)
ReachableStatesValid ==
  \A i \in Interventions :
    /\ ValidState(state[i])
    /\ state[i].publication = "failed" => state[i].activation # "active"
    /\ state[i].activation = "disabled" =>
         state[i].publication \in {"published", "failed", "rolled_back"}

(* Deactivation is final: no path of edges re-enables a disabled           *)
(* intervention, leaves rolled_back, unpublishes a published one, or takes *)
(* a validation verdict back to untested.                                  *)
NoResurrection ==
  [][\A i \in Interventions :
       /\ state[i].activation = "disabled" => state'[i].activation = "disabled"
       /\ state[i].publication = "rolled_back" =>
            state'[i].publication = "rolled_back"
       /\ state[i].publication = "published" =>
            state'[i].publication \in {"published", "rolled_back"}
       /\ state[i].validation # "untested" => state'[i].validation # "untested"]_state

===============================================================================
