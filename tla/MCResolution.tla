----------------------------- MODULE MCResolution -----------------------------
(* A version in force, the one made from it, and what holds in the parent  *)
(* scope; two hosts, one of which has another registration of the          *)
(* destination of the new version.                                         *)
EXTENDS Resolution, TLC

CONSTANTS h1, h2, old, new, up

Member(scope, candidate, supersedes, createdAt) ==
  [scope |-> scope, action |-> "publish", effectClass |-> "context",
   destination |-> "d", registration |-> "r1", candidate |-> candidate,
   supersedes |-> supersedes, characters |-> 1, createdAt |-> createdAt]

(* The successor's header is the older one: its plan was prepared first.   *)
Three ==
  old :> Member("exact", "c1", None, 2)
    @@ new :> [Member("exact", "c2", "c1", 1) EXCEPT !.destination = "d2"]
    @@ up :> Member("parent", "c3", None, 3)

(* The parent's stays as it is.                                            *)
Short == old :> 3 @@ new :> 2 @@ up :> 2

InForce == {old, up}

Improved == [Active EXCEPT !.validation = "improved"]
Disabled == [Active EXCEPT !.activation = "disabled"]
FourStates == {Authorized, Active, Improved, Disabled}

Own == [registration |-> "r1", effectClass |-> "context"]
Drifted == h1 :> ("d" :> Own @@ "d2" :> Own)
             @@ h2 :> ("d" :> Own @@ "d2" :> [Own EXCEPT !.registration = "r2"])

ParentOf == "exact" :> <<"parent">> @@ "parent" :> <<>>

Ask(entries) == [episode |-> "e", scope |-> "exact",
                 budget |-> [entries |-> entries, characters |-> 2]]
TwoRequests == {Ask(1), Ask(3)}

Claim(applied, arm, fingerprint) ==
  [applied |-> applied, arm |-> arm, fingerprint |-> fingerprint,
   experiment |-> IF arm = None THEN None ELSE "x", evidence |-> {"o1"}]
TwoClaims == {Claim({old}, "treatment", "f1"), Claim({}, None, "f1")}

TwoClocks == h1 :> {1} @@ h2 :> {2}
OneExperiment == "x" :> old
OneObservation == {[id |-> "o1", episode |-> "e", trust |-> "observed"]}
===============================================================================
