---------------------------- MODULE MCSemanticTurn ----------------------------
(* Plans, authorizations and answers for SemanticTurn.                     *)
EXTENDS SemanticTurn

CONSTANTS h1, h2, t1, t2

Plan(t, e) == [turn |-> t, expires |-> e]
Window(f, u) == [from |-> f, until |-> u]

(* A generation that discloses, and a review that does not.                *)
BothLanes == {[lane |-> "generation", transport |-> "outbound"],
              [lane |-> "advisory_review", transport |-> "local"]}

(* Two requests for one key, one plan of which expires within the horizon, *)
(* as does what an authority grants to either.                             *)
RivalPlans == {Plan(t1, 1), Plan(t2, 2)}
OneWindow == {Window(0, 1)}

Child == <<"links", "receipt">>

Ceiling == {1}

Paid(o) ==
  [snapshot |-> "ok", large |-> FALSE, envelope |-> "completed",
   result |-> "sound", usage |-> [amount |-> 1, cost |-> [units |-> 1, own |-> o]]]

(* At its ceiling, or paid in another currency.                            *)
TwoAnswers == {Paid(TRUE), Paid(FALSE)}
===============================================================================
