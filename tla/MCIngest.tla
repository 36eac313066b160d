------------------------------- MODULE MCIngest -------------------------------
(* Pages, configurations and windows for Ingest.                           *)
EXTENDS Ingest, TLC

CONSTANTS h1, h2

Episode(id, status, measures) ==
  [kind |-> "episode", id |-> id, logical |-> "run", scope |-> "s",
   completeness |-> "complete", status |-> status, measures |-> measures]
Observed(id) ==
  [kind |-> "observation", id |-> id, logical |-> "run", body |-> id,
   completeness |-> "complete"]
Measured(id, cites) ==
  [kind |-> "measurement", id |-> id, logical |-> "run", body |-> id, cites |-> cites]

Available(ref, revision, records) ==
  [artifact |-> "a", ref |-> ref, revision |-> revision, status |-> "available",
   completeness |-> "complete", diagnostics |-> "none", records |-> records]

(* The first page, the same page changed, a later page that gives the      *)
(* episode again with its outcome and another observation.                 *)
First == Available("p1", "r1", <<Episode("e", None, <<>>), Observed("o")>>)
Changed == Available("p1", "r2", <<Episode("e", None, <<>>), Observed("o")>>)
Later == Available("p2", "r1", <<Episode("e", "succeeded", <<"m">>),
                                 Observed("o2"), Measured("m", <<"o">>)>>)

(* A page in part, with a body refused, an id used again with another      *)
(* body, twice, and a measurement without an episode; an unreadable page.  *)
Other == [Observed("o") EXCEPT !.body = "other"]
Poor == [Available("p3", "r1",
           <<Observed("x"), Other, Other, Measured("m2", <<"x">>)>>)
         EXCEPT !.completeness = "partial", !.diagnostics = "warning"]
Gone == [artifact |-> "a", ref |-> "p4", revision |-> None, status |-> "unreadable",
         completeness |-> "unknown", diagnostics |-> "error", records |-> <<>>]

FourInputs == {<<First, Later>>, <<Changed>>, <<Later>>, <<Poor, Gone>>}

(* One configuration, and the same source under another loop registry.     *)
Loop1 == [registration |-> "reg", policy |-> "pol", registry |-> "L1"]
Loop2 == [registration |-> "reg", policy |-> "pol", registry |-> "L2"]
BothLoops == {Loop1, Loop2}
Upgraded == (h1 :> Loop1) @@ (h2 :> Loop2)

Input(kind, id) == [kind |-> kind, id |-> id]
Observing == <<Input("observation", "o"), Input("measurement", "m")>>

(* A window both paths take, and one past the candidate path's ceiling.    *)
TwoWindows == {Observing, Append(Observing, Input("observation", "o2"))}
===============================================================================
