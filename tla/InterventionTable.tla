-------------------------- MODULE InterventionTable --------------------------
(***************************************************************************)
(* The states of one intervention and its legal-transition table           *)
(* (records/intervention.ts).  Publication, authorization, activation and  *)
(* validation are four independent dimensions; every durable move of an    *)
(* intervention is one edge of this table.                                 *)
(***************************************************************************)

Verdicts == {"invalid", "inconclusive", "improved", "regressed"}

InterventionState ==
  [ publication   : {"unpublished", "published", "failed", "rolled_back"},
    authorization : {"not_required", "pending", "authorized", "revoked",
                     "expired"},
    activation    : {"inactive", "active", "disabled"},
    validation    : {"untested"} \cup Verdicts ]

InitialState ==
  [ publication   |-> "unpublished",
    authorization |-> "pending",
    activation    |-> "inactive",
    validation    |-> "untested" ]

(* interventionStateInvalidReasons is empty.                               *)
ValidState(s) ==
  /\ s.activation = "active" => s.publication = "published"
  /\ s.authorization = "pending" =>
       s.publication = "unpublished" /\ s.activation = "inactive"
  /\ s.publication = "rolled_back" => s.activation = "disabled"

Permits(s) == s.authorization \in {"authorized", "not_required"}
Applied(s) == s.publication \in {"published", "failed"}

(* The part every publication or activation edge leaves alone.             *)
SameStanding(s, t) ==
  /\ s.validation = t.validation
  /\ s.authorization = t.authorization
  /\ Permits(s)

Authorizes(s, t) ==
  /\ s.authorization = "pending"
  /\ s.publication = "unpublished" /\ s.activation = "inactive"
  /\ t = [s EXCEPT !.authorization = "authorized"]

Publishes(s, t) ==
  /\ SameStanding(s, t)
  /\ s.publication \in {"unpublished", "failed"} /\ s.activation = "inactive"
  /\ t.publication = "published" /\ t.activation \in {"active", "inactive"}

Fails(s, t) ==
  /\ SameStanding(s, t)
  /\ s.publication = "unpublished" /\ s.activation = "inactive"
  /\ t.publication = "failed" /\ t.activation = "inactive"

Disables(s, t) ==
  /\ SameStanding(s, t)
  /\ Applied(s) /\ s.activation # "disabled"
  /\ t = [s EXCEPT !.activation = "disabled"]

RollsBack(s, t) ==
  /\ SameStanding(s, t)
  /\ Applied(s)
  /\ t.publication = "rolled_back" /\ t.activation = "disabled"

Validates(s, t) ==
  /\ s.authorization # "pending"
  /\ t.validation \in Verdicts \ {s.validation}
  /\ t = [s EXCEPT !.validation = t.validation]

(* interventionTransitionKind(s, t) is defined; the six kinds are disjoint *)
(* on valid states, so the order in which the code tests them is immaterial *)
LegalEdge(s, t) ==
  /\ ValidState(s) /\ ValidState(t)
  /\ \/ Authorizes(s, t) \/ Publishes(s, t) \/ Fails(s, t)
     \/ Disables(s, t) \/ RollsBack(s, t) \/ Validates(s, t)

=============================================================================
