---------------------------- MODULE SemanticAnswer ----------------------------
(***************************************************************************)
(* What a workflow makes of a provider's answer (workflows/generation-run, *)
(* advisory-review-run, run-shared, semantic-turn-outcome): the ladder of  *)
(* checks that turns a resolved answer into one of five result statuses,   *)
(* and, apart from it, the assertions every stored result must pass.       *)
(*                                                                         *)
(* Token counts and the duration are one number, compared with one limit;  *)
(* a currency is the budget's own or another one; the ceilings on nodes,   *)
(* depth and bytes of what is stored are one size.                         *)
(***************************************************************************)
EXTENDS Naturals

CONSTANTS
  None,            \* absent usage, cost, response or ceiling
  UsageLimit,      \* maximumInputTokens, maximumOutputTokens, ...Duration
  CostLimits,      \* maximumCost.minorUnits of a definition, or None
  Amounts          \* the amounts a provider may report

ASSUME AnswerAssumption ==
  /\ None \notin Nat /\ UsageLimit \in Nat
  /\ CostLimits \subseteq Nat \cup {None} /\ Amounts \subseteq Nat

Envelopes == {"completed", "provider_refused", "provider_failed"}
Statuses == Envelopes \cup {"result_invalid", "result_limit"}

(* What a provider reports of its usage: cost and currency come together.  *)
Cost == {None} \cup [units : Amounts, own : BOOLEAN]
Usage == [amount : Amounts, cost : Cost]

(* A resolved answer.  snapshot: whether its bytes could be captured;      *)
(* large: above the definition's response bytes; envelope: None when it    *)
(* does not parse; result: whether it parses, and can be assembled too.    *)
Answer == [snapshot : {"ok", "limit", "invalid"}, large : BOOLEAN,
           envelope : Envelopes \cup {None}, usage : Usage \cup {None},
           result : {"malformed", "unassembled", "sound"}]

(* parseProviderEnvelope refuses a completed answer without usage.         *)
Parses(a) ==
  a.envelope # None /\ ~(a.envelope = "completed" /\ a.usage = None)

(* Mutant: only completed answers are measured against a cost ceiling.     *)
UnmeasuredForeignIgnored(limit, u, completed) ==
  \/ completed /\ u = None
  \/ limit # None /\ u # None /\ u.cost = None

(* usageMeasurementInvalid: a cost ceiling that cannot be verified.        *)
Unmeasured(limit, u, completed) ==
  \/ completed /\ u = None
  \/ limit # None /\ u # None /\ (u.cost = None \/ ~u.cost.own)

(* usageExceedsBudget.                                                     *)
Exceeds(limit, u) ==
  \/ u.amount > UsageLimit
  \/ limit # None /\ u.cost # None /\ u.cost.own /\ u.cost.units > limit

(* The ladder of runGeneration and runAdvisoryReview: the first rung that  *)
(* an answer fails decides; what is kept of the usage depends on the rung. *)
Grade(limit, a) ==
  LET Known(s, u) == [status |-> s, response |-> TRUE, usage |-> u]
      usage == IF Parses(a) THEN a.usage ELSE None
  IN
  IF a.snapshot # "ok"
  THEN [status |-> IF a.snapshot = "limit" THEN "result_limit"
                   ELSE "result_invalid",
        response |-> FALSE, usage |-> None]
  ELSE IF a.large THEN Known("result_limit", usage)
  ELSE IF ~Parses(a) THEN Known("result_invalid", None)
  ELSE IF Unmeasured(limit, a.usage, a.envelope = "completed")
  THEN Known("result_invalid", None)
  ELSE IF a.usage # None /\ Exceeds(limit, a.usage)
  THEN Known("result_limit", a.usage)
  ELSE IF a.envelope # "completed" THEN Known(a.envelope, a.usage)
  ELSE Known(IF a.result = "sound" THEN "completed"
             ELSE "result_invalid", a.usage)

(* assertResultPairing: what a status must come with.                      *)
Paired(r) ==
  /\ r.status = "provider_refused" => r.response
  /\ r.status = "completed" => r.response /\ r.usage # None

(* assertResultBinding and assertReportedUsageWithinBudget.                *)
WithinBudget(limit, u) ==
  /\ u.amount <= UsageLimit
  /\ limit # None => u.cost # None /\ u.cost.own /\ u.cost.units <= limit

(* What an answer comes to when it is kept.  "binding": its binding, or    *)
(* the completion intent around it, exceeds the ceiling it is parsed       *)
(* under, before anything is written.  "record": these fit, but the result *)
(* record, measured whole when it is written after the intent, does not.   *)
Sizes == {"fits", "record", "binding"}

(* The rungs above the last are passed and the result parses: it is bound  *)
(* before it is assembled.                                                 *)
Binds(limit, a) ==
  /\ a.result # "malformed"
  /\ Grade(limit, [a EXCEPT !.result = "sound"]).status = "completed"

(* What a result must satisfy for its binding and intent to be made.       *)
Storable(limit, a, r, size) ==
  /\ Paired(r)
  /\ r.status = "completed" => ~a.large /\ WithinBudget(limit, r.usage)
  /\ Binds(limit, a) => size # "binding"
===============================================================================
