---------------------------- MODULE MCPublication ----------------------------
(* Values for the constants of Publication.  One forward plan is enough: a *)
(* second would only add interventions no step relates to the first.       *)
EXTENDS Publication, TLC, FiniteSets

CONSTANT f1                     \* the forward plan

(* One effect, which a disable reverses.                                   *)
OneEffect == [f \in Forward |-> <<"disable">>]

(* A failed first attempt leaves a reversible prefix in force.             *)
TwoEffects == [f \in Forward |-> <<"rollback", "irreversible">>]

ContextClass == [f \in Forward |-> "context"]

HostSymmetry == Permutations(Hosts)

LegalPairs == {e \in InterventionState \X InterventionState :
                 LegalEdge(e[1], e[2])}

(* The edge counts the record tests pin: 647 legal edges, 512 of them      *)
(* validate (tests/intervention-records.test.ts).                          *)
ASSUME TableSize ==
  /\ Cardinality(LegalPairs) = 647
  /\ Cardinality({e \in LegalPairs : Validates(e[1], e[2])}) = 512

(* An edge has one kind.                                                    *)
ASSUME KindsDisjoint ==
  \A e \in LegalPairs :
    LET s == e[1] t == e[2]
        kinds == {k \in 1..6 : \/ k = 1 /\ Authorizes(s, t)
                               \/ k = 2 /\ Publishes(s, t)
                               \/ k = 3 /\ Fails(s, t)
                               \/ k = 4 /\ Disables(s, t)
                               \/ k = 5 /\ RollsBack(s, t)
                               \/ k = 6 /\ Validates(s, t)}
    IN  Cardinality(kinds) = 1
===============================================================================
