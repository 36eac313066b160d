----------------------------- MODULE MCExperiment -----------------------------
(* Values for the constants of Experiment.                                 *)
EXTENDS Experiment, TLC

CONSTANTS h1, h2, x1, x2, x3, i1

Answer == [status |-> "completed", fingerprint |-> "own", echoes |-> TRUE,
           graded |-> TRUE, cost |-> 1,
           measured |-> [primary |-> 0, guards |-> << >>]]

PairDesign ==
  [subject |-> i1, ceiling |-> 0, episodes |-> 1, repetitions |-> 1,
   aggregation |-> "mean", direction |-> "higher", minimumUsefulEffect |-> 1,
   guardrails |-> << >>]

(* One pair, no ceiling.                                                   *)
OnePair == {PairDesign}

(* A pair under a ceiling that its first slot alone may reach.             *)
Capped == {[PairDesign EXCEPT !.ceiling = 2]}

(* Inconclusive, or invalid for a slot left in flight.                     *)
Answered == {Answer}

(* Valid at two prices, or not valid.  The kinds of not valid differ in    *)
(* nothing a run does, so one of them stands for all.                      *)
Answers == {Answer, [Answer EXCEPT !.cost = 2], [Answer EXCEPT !.graded = FALSE]}

HostSymmetry == Permutations(Hosts)
===============================================================================
