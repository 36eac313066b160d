---------------------------- MODULE ExperimentRule ----------------------------
(***************************************************************************)
(* The reference decision rule of an experiment (engine/experiment.ts      *)
(* analyze, records/experiment.ts referenceVerdict): graded repetitions    *)
(* are reduced per episode and arm, episodes are compared in pairs, and    *)
(* the pairs and guardrails decide the verdict.                            *)
(*                                                                         *)
(* Numbers are integers and every aggregate is scaled by Unit, so that     *)
(* means and medians stay exact; the code's tolerance of 1e-9, there for   *)
(* floating point, is the non-strictness of the comparisons.  A boolean    *)
(* measurement is 1 or 0.                                                  *)
(***************************************************************************)
EXTENDS Integers, Sequences, FiniteSets, Functions

NumberAggregations  == {"mean", "median", "sum"}
BooleanAggregations == {"all", "any", "majority"}
GuardrailRules      == {"must_pass", "must_not_regress", "maximum"}

(* A design: episodes and repetitions count; a guardrail reduces its own   *)
(* repetitions; what an attempt measured is one primary value and one      *)
(* value per guardrail.                                                    *)

SlotCount(d) == 2 * d.episodes * d.repetitions

(* experimentDesignSlots: episode, then repetition, then control first.    *)
DesignSlots(d) ==
  [k \in 1..SlotCount(d) |->
    [episode    |-> ((k - 1) \div (2 * d.repetitions)) + 1,
     repetition |-> (((k - 1) \div 2) % d.repetitions) + 1,
     arm        |-> IF k % 2 = 1 THEN "control" ELSE "treatment"]]

(* The repetitions of one arm of an episode: attempts grouped by episode   *)
(* and arm, in repetition order.                                           *)
ArmAttempts(d, measured, episode, arm) ==
  [r \in 1..d.repetitions |->
     measured[CHOOSE k \in 1..SlotCount(d) :
       DesignSlots(d)[k] = [episode |-> episode, repetition |-> r, arm |-> arm]]]

-------------------------------------------------------------------------------
Unit(n) == 2 * n

(* The k-th smallest value.                                                *)
Ranked(values, k) ==
  CHOOSE v \in Range(values) :
    /\ Cardinality({i \in DOMAIN values : values[i] < v}) < k
    /\ k <= Cardinality({i \in DOMAIN values : values[i] <= v})

(* Scaled by Unit(Len(values)).                                            *)
NumberAggregate(values, how) ==
  LET n == Len(values)
  IN  CASE how = "sum"    -> Unit(n) * SumFunction(values)
        [] how = "mean"   -> 2 * SumFunction(values)
        [] how = "median" -> n * (Ranked(values, (n + 1) \div 2)
                                    + Ranked(values, n \div 2 + 1))

BooleanAggregate(values, how) ==
  LET truthy == Cardinality({i \in DOMAIN values : values[i] = 1})
  IN  CASE how = "all"      -> truthy = Len(values)
        [] how = "any"      -> truthy > 0
        [] how = "majority" -> truthy * 2 > Len(values)

PrimaryAggregate(d, values) ==
  IF d.aggregation \in BooleanAggregations
    THEN IF BooleanAggregate(values, d.aggregation) THEN Unit(Len(values)) ELSE 0
    ELSE NumberAggregate(values, d.aggregation)

Primary(d, measured, e, arm) ==
  LET group == ArmAttempts(d, measured, e, arm)
  IN  PrimaryAggregate(d, [r \in DOMAIN group |-> group[r].primary])

FavorableDelta(d, measured, e) ==
  LET rise == Primary(d, measured, e, "treatment")
                - Primary(d, measured, e, "control")
  IN  IF d.direction = "higher" THEN rise ELSE -rise

GuardrailRegressed(d, measured, g, e) ==
  LET guard == d.guardrails[g]
      values(arm) == LET group == ArmAttempts(d, measured, e, arm)
                     IN  [r \in DOMAIN group |-> group[r].guards[g]]
      passes(arm) == BooleanAggregate(values(arm), guard.aggregation)
  IN  CASE guard.rule = "must_pass"        -> ~passes("treatment")
        [] guard.rule = "must_not_regress" -> passes("control") /\ ~passes("treatment")
        [] guard.rule = "maximum" ->
             NumberAggregate(values("treatment"), guard.aggregation)
               > guard.threshold * Unit(d.repetitions)

Analyze(d, measured) ==
  [deltas    |-> [e \in 1..d.episodes |-> FavorableDelta(d, measured, e)],
   regressed |-> {g \in DOMAIN d.guardrails :
                    \E e \in 1..d.episodes : GuardrailRegressed(d, measured, g, e)}]

(* The declared effect, on the scale of a sum of deltas.                   *)
UsefulEffect(d) == d.minimumUsefulEffect * Unit(d.repetitions) * d.episodes

FavorablePairs(a)   == Cardinality({e \in DOMAIN a.deltas : a.deltas[e] > 0})
UnfavorablePairs(a) == Cardinality({e \in DOMAIN a.deltas : a.deltas[e] < 0})

Improves(d, a) ==
  SumFunction(a.deltas) >= UsefulEffect(d) /\ FavorablePairs(a) > UnfavorablePairs(a)

(* Mutant: a boundary that only one side reaches.                          *)
WorsensStrictly(d, a) ==
  SumFunction(a.deltas) < -UsefulEffect(d) /\ UnfavorablePairs(a) > FavorablePairs(a)

Worsens(d, a) ==
  SumFunction(a.deltas) <= -UsefulEffect(d) /\ UnfavorablePairs(a) > FavorablePairs(a)

(* Mutant: the primary metric is consulted first.                          *)
ReferenceVerdictPrimaryFirst(d, a) ==
  CASE Improves(d, a) -> "improved"
    [] ~Improves(d, a) /\ (a.regressed # {} \/ Worsens(d, a)) -> "regressed"
    [] OTHER -> "inconclusive"

(* The mean of n pairs reaches the effect iff their sum reaches n effects. *)
ReferenceVerdict(d, a) ==
  CASE a.regressed # {} \/ Worsens(d, a)     -> "regressed"
    [] a.regressed = {} /\ Improves(d, a)    -> "improved"
    [] OTHER                                 -> "inconclusive"

===============================================================================
