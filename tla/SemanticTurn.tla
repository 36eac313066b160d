----------------------------- MODULE SemanticTurn -----------------------------
(***************************************************************************)
(* A semantic workflow over provider turns (src/.../workflows): hosts run  *)
(* and recover generation, or advisory review, of one key (a detector      *)
(* execution, or a candidate under a definition) over a shared store.      *)
(* Every record is create-only.  What a call may send outside is decided   *)
(* by the order of five records, what it reports by six more; a host may   *)
(* crash between any two, and whoever recovers completes what is known and *)
(* never calls the provider.                                               *)
(*                                                                         *)
(* The two lanes share their protocol; where they differ the guard names   *)
(* the lane.  Each action is the code between two awaits whose order can   *)
(* be observed.  Reloads of write-once records that the same call has seen *)
(* are not steps of their own.                                             *)
(***************************************************************************)
EXTENDS SemanticAnswer, Sequences, FiniteSets

CONSTANTS
  Hosts,          \* concurrent runs and recoveries
  Plans,          \* prepared plans of the one key: [turn, expires]
  Definitions,    \* [lane, transport] the key's definition may have
  Answers,        \* what the provider may answer
  Windows,        \* [from, until] an authority may grant
  ChildKinds,     \* the child graph's facts, its receipt last
  Horizon         \* bound: last instant of the clock

ASSUME TurnAssumption ==
  /\ Definitions \subseteq [lane : {"generation", "advisory_review"},
                            transport : {"local", "outbound"}]
  /\ \A p \in Plans : DOMAIN p = {"turn", "expires"} /\ p.expires \in Nat
  /\ None \notin Plans /\ None \notin Statuses /\ None \notin Sizes
  /\ Answers \subseteq Answer
  /\ \A w \in Windows : w.from \in Nat /\ w.until \in Nat /\ w.from < w.until
  /\ ChildKinds \in Seq(STRING) /\ Horizon \in Nat

Turns == {p.turn : p \in Plans}

-------------------------------------------------------------------------------
(***************************************************************************)
(* Records, by turn or by key; None where there is none.                   *)
(***************************************************************************)

(* A reservation binds its turn's content and, outside the turn key, the   *)
(* expiry: it is the plan.  So are the plan lock and the attempt, which    *)
(* name the reservation by its digest.                                     *)
Reservations == [Turns -> Plans \cup {None}]
PlanLocks    == Plans \cup {None}
Attempts     == Plans \cup {None}

(* The window an authority granted for the exact reservation.              *)
Grants(p) == {w \in Windows : w.until <= p.expires}

Authorizations == [Turns -> Windows \cup {None}]

(* A dispatch binds the reservation, the authorization and an instant.     *)
DispatchMarker == [plan : Plans, auth : Windows \cup {None}, at : 0..Horizon]

(* A completion intent holds all that completing its turn needs.           *)
CompletionIntents == Turns \cup {None}

(* The sidecar of a completed turn names what it made.                     *)
Executions  == SUBSET Turns
Assessments == SUBSET Turns

ResultBindings == [Turns -> Statuses \cup {None}]
TurnReceipts   == [Turns -> Statuses \cup {None}]

VARIABLES
  lane, transport,   \* of the definition the key belongs to
  now,               \* the clock
  (* the store *)
  reserved,          \* semantic-workflow-reservation, by turn
  locked,            \* the key's plan lock
  granted,           \* semantic-workflow-authorization, by turn
  attempt,           \* the key's attempt index
  dispatched,        \* semantic-workflow-dispatch, by turn
  intent,            \* the key's completion intent: the turn it completes
  results,           \* semantic-workflow-result, by turn
  sidecars,          \* turns with a workflow execution, or an assessment
  child,             \* the key's child facts (generation)
  indexed,           \* turns with a scope index
  terminals,         \* semantic-workflow-turn receipts, by turn
  (* the provider *)
  calls,             \* operations it was handed, by turn
  size,              \* what its one answer comes to when it is kept
  (* each call *)
  pc, mode, ours, plan, grant, marker, seen, doing, outcome

intents == <<reserved, locked, granted, attempt, dispatched>>
facts   == <<intent, results, sidecars, child, indexed, terminals>>
fixed   == <<lane, transport>>
local   == <<mode, ours, plan, grant, marker, seen, doing, outcome>>
vars    == <<lane, transport, now, reserved, locked, granted, attempt,
             dispatched, intent, results, sidecars, child, indexed, terminals,
             calls, size, pc, mode, ours, plan, grant, marker, seen, doing,
             outcome>>

Steps == {"idle", "load", "find", "classify", "answered", "terminal",
          "intent", "revalidate", "reserve", "lock", "authorize", "attempt",
          "again", "claim", "dispatch", "invoke", "await", "put_intent",
          "put_result", "put_sidecar", "put_child", "put_index", "put_turn",
          "existing"}

Known == {"outcome_unknown", "result_recorded", "committed"}

Errors == {"store.conflict", "store.corrupt", "schema.corrupt", "refused",
           "expired", "unstorable", "output_unavailable", "workflow_incomplete"}

(* What is absent is none of these.                                        *)
ASSUME AbsenceAssumption ==
  None \notin Turns \cup Windows \cup DispatchMarker \cup Errors

(* How a call ends: what it says of the turn, and of its persistence.      *)
Report(s, p) == [status |-> s, persistence |-> p]
Failed(e) == Report(e, None)
Silent == Report(None, None)

Outcomes ==
  [status : Statuses \cup Errors \cup
            {"not_dispatched", "outcome_unknown", "execution_existing", None},
   persistence : {"committed", "existing", "dispatch_only", "not_dispatched",
                  None}]

Outbound == transport = "outbound"

(* authorizeGeneration: a turn that discloses nothing is not authorized.   *)
Granted(p) == IF Outbound THEN Grants(p) ELSE {None}

Receipt == ChildKinds[Len(ChildKinds)]

(* Every record is created once; the same content again is no conflict.    *)
Conflicts(stored, new) == stored \notin {None, new}

(* assertCurrentDispatchBinding: a dispatch belongs to one request and one *)
(* authorization.                                                          *)
BoundTo(d, p, w) == d.plan = p /\ d.auth = w

-------------------------------------------------------------------------------
(***************************************************************************)
(* What a committed turn must rest on                                      *)
(***************************************************************************)

(* What a terminal reloads before it writes.                               *)
GenerationWhole(t, s) ==
  results[t] = s /\ (s = "completed" => t \in sidecars /\ Receipt \in child)

AdvisoryWhole(t, s) ==
  results[t] = s /\ (s = "completed" => t \in sidecars)

Whole(t, s) ==
  IF lane = "generation" THEN GenerationWhole(t, s) ELSE AdvisoryWhole(t, s)

(* loadSemanticTurnByScope: the scope index leads to the receipt; an index *)
(* without one stays invisible.                                            *)
Listed(t) == t \in indexed /\ terminals[t] # None

(* The receipt against the records it names.                               *)
TerminalBound(t) ==
  /\ reserved[t] # None /\ dispatched[t] # None
  /\ terminals[t] = results[t]

(* A completed turn is loaded with what it generated, or is corrupt.       *)
GenerationGraph(t) ==
  /\ TerminalBound(t)
  /\ terminals[t] = "completed" =>
       /\ locked # None /\ intent = t
       /\ GenerationWhole(t, "completed")

AdvisoryGraph(t) ==
  /\ TerminalBound(t)
  /\ terminals[t] = "completed" =>
       locked # None /\ intent = t /\ AdvisoryWhole(t, "completed")

Sound(t) == IF lane = "generation" THEN GenerationGraph(t) ELSE AdvisoryGraph(t)

-------------------------------------------------------------------------------
(***************************************************************************)
(* One call                                                                *)
(***************************************************************************)

Goto(h, step) == pc' = [pc EXCEPT ![h] = step]

End(h, r) ==
  /\ Goto(h, "idle")
  /\ outcome' = [outcome EXCEPT ![h] = r]
  /\ mode'   = [mode EXCEPT ![h] = "none"]
  /\ ours'   = [ours EXCEPT ![h] = None]
  /\ plan'   = [plan EXCEPT ![h] = None]
  /\ grant'  = [grant EXCEPT ![h] = None]
  /\ marker' = [marker EXCEPT ![h] = None]
  /\ seen'   = [seen EXCEPT ![h] = None]
  /\ doing'  = [doing EXCEPT ![h] = None]

Throw(h, e) == End(h, Failed(e))

(* A recovery inside a run: the attempt must still be the run's own, and   *)
(* what the recovery committed the run found existing.                     *)
Finish(h, s, p) ==
  IF mode[h] = "inner"
  THEN IF ours[h] # attempt THEN Throw(h, "store.conflict")
       ELSE End(h, Report(s, IF p = "committed" THEN "existing" ELSE p))
  ELSE End(h, Report(s, p))

(* A plan prepared earlier and, when it discloses, an authorization that   *)
(* was granted for it.                                                     *)
Run(h) ==
  /\ pc[h] = "idle"
  /\ \E p \in Plans, w \in Windows \cup {None} :
       /\ w \in Granted(p)
       /\ ours' = [ours EXCEPT ![h] = p]
       /\ grant' = [grant EXCEPT ![h] = w]
  /\ mode' = [mode EXCEPT ![h] = "inner"]
  /\ outcome' = [outcome EXCEPT ![h] = Silent]
  /\ Goto(h, "load")
  /\ UNCHANGED <<fixed, now, intents, facts, calls, size, plan, marker, seen,
                 doing>>

RunGeneration(h) == lane = "generation" /\ Run(h)
RunAdvisory(h) == lane = "advisory_review" /\ Run(h)

(* Recovery starts from the attempt index; the clock plays no part in it.  *)
Recover(h) ==
  /\ pc[h] = "idle"
  /\ mode' = [mode EXCEPT ![h] = "recover"]
  /\ outcome' = [outcome EXCEPT ![h] = Silent]
  /\ Goto(h, "find")
  /\ UNCHANGED <<fixed, now, intents, facts, calls, size, ours, plan, grant,
                 marker, seen, doing>>

(* assertAttemptMatchesPreparedPlan, before the inner recovery.            *)
LoadAttempt(h) ==
  /\ pc[h] = "load"
  /\ IF Conflicts(attempt, ours[h]) THEN Throw(h, "store.conflict")
     ELSE Goto(h, "find") /\ UNCHANGED local
  /\ UNCHANGED <<fixed, now, intents, facts, calls, size>>

NotDispatched(h) ==
  IF mode[h] = "inner"
  THEN /\ Goto(h, "revalidate")
       /\ plan' = [plan EXCEPT ![h] = ours[h]]
       /\ mode' = [mode EXCEPT ![h] = "run"]
       /\ UNCHANGED <<ours, grant, marker, seen, doing, outcome>>
  ELSE End(h, Report("not_dispatched", "not_dispatched"))

(* The recovery's own load of the attempt, its reservation and plan lock.  *)
FindAttempt(h) ==
  /\ pc[h] = "find"
  /\ IF attempt = None THEN NotDispatched(h)
     ELSE IF reserved[attempt.turn] # attempt \/ locked # attempt
     THEN Throw(h, "store.corrupt")
     ELSE /\ plan' = [plan EXCEPT ![h] = attempt]
          /\ Goto(h, "classify")
          /\ UNCHANGED <<mode, ours, grant, marker, seen, doing, outcome>>
  /\ UNCHANGED <<fixed, now, intents, facts, calls, size>>

-------------------------------------------------------------------------------
(***************************************************************************)
(* classifySemanticTurnPersistence: dispatch, result, terminal, each       *)
(* behind an await.                                                        *)
(***************************************************************************)

Saw(h, s, next) ==
  /\ seen' = [seen EXCEPT ![h] = s]
  /\ Goto(h, next)
  /\ UNCHANGED <<mode, ours, plan, grant, marker, doing, outcome>>

ClassifyDispatch(h) ==
  /\ pc[h] = "classify"
  /\ IF dispatched[plan[h].turn] = None THEN Saw(h, "not_dispatched", "intent")
     ELSE Saw(h, "outcome_unknown", "answered")
  /\ UNCHANGED <<fixed, now, intents, facts, calls, size>>

ClassifyResult(h) ==
  LET t == plan[h].turn
  IN
  /\ pc[h] = "answered"
  /\ IF results[t] # None THEN Saw(h, "result_recorded", "terminal")
     ELSE IF mode[h] = "run" THEN End(h, Report("outcome_unknown", "dispatch_only"))
     ELSE Saw(h, "outcome_unknown", "intent")
  /\ UNCHANGED <<fixed, now, intents, facts, calls, size>>

(* Complete, or record, a result of the plan's turn.                       *)
CompleteWith(h, s, step) ==
  /\ doing' = [doing EXCEPT ![h] = s]
  /\ Goto(h, step)
  /\ UNCHANGED <<mode, ours, plan, grant, marker, seen, outcome>>

(* commitNoncompletedTurn refuses a completed result                       *)
(* (assertResultPersistenceAvailable).                                     *)
CommitNoncompleted(h, s) ==
  IF s = "completed" THEN Throw(h, "output_unavailable")
  ELSE CompleteWith(h, s, "put_result")

(* The scope index is read before the turn, and a run acts at once.        *)
ClassifyTerminal(h) ==
  LET t == plan[h].turn
  IN
  /\ pc[h] = "terminal"
  /\ IF Listed(t) /\ ~Sound(t) THEN Throw(h, "store.corrupt")
     ELSE IF mode[h] = "run"
     THEN IF Listed(t) THEN Finish(h, results[t], "existing")
          ELSE CommitNoncompleted(h, results[t])
     ELSE Saw(h, IF Listed(t) THEN "committed" ELSE "result_recorded", "intent")
  /\ UNCHANGED <<fixed, now, intents, facts, calls, size>>

(* Complete what is known of the plan's turn, once the intent is loaded.   *)
Resume(h) ==
  LET t == plan[h].turn
      mine == intent = t
  IN
  /\ pc[h] = "intent"
  /\ CASE seen[h] = "not_dispatched" ->
            IF mine \/ results[t] # None \/ terminals[t] # None
            THEN Throw(h, "store.corrupt") ELSE NotDispatched(h)
       [] seen[h] = "outcome_unknown" ->
            IF mine THEN CompleteWith(h, "completed", "put_result")
            ELSE Finish(h, "outcome_unknown", "dispatch_only")
       [] seen[h] = "result_recorded" ->
            IF results[t] # "completed" THEN CommitNoncompleted(h, results[t])
            ELSE IF mine THEN CompleteWith(h, "completed", "put_result")
            ELSE Throw(h, "store.corrupt")
       [] seen[h] = "committed" ->
            Finish(h, terminals[t], "existing")
  /\ UNCHANGED <<fixed, now, intents, facts, calls, size>>

(* Mutant: a recovery never completes from an intent.                      *)
ResumeGenerationOnlyReads(h) ==
  /\ lane = "generation"
  /\ pc[h] = "intent" /\ seen[h] \in Known
  /\ Finish(h, "outcome_unknown", "dispatch_only")
  /\ UNCHANGED <<fixed, now, intents, facts, calls, size>>

(* recoverGeneration after its classification: the intent is loaded only   *)
(* now, and the outputs an undispatched attempt cannot have.               *)
ResumeGeneration(h) == lane = "generation" /\ Resume(h)

(* recoverAdvisoryReview: the same, and a committed turn's assessment is   *)
(* loaded for the report.                                                  *)
ResumeAdvisory(h) == lane = "advisory_review" /\ Resume(h)

-------------------------------------------------------------------------------
(***************************************************************************)
(* A run that found nothing dispatched: the records that precede egress    *)
(***************************************************************************)

Proceed(h, step) == Goto(h, step) /\ UNCHANGED local

(* Before the records and again after them, an unexpired plan is held      *)
(* against what the store and the registrations hold now.                  *)
Revalidate(h) ==
  /\ pc[h] \in {"revalidate", "again"}
  /\ IF now >= ours[h].expires THEN Throw(h, "expired")
     ELSE \/ Throw(h, "refused")
          \/ Proceed(h, IF pc[h] = "again" THEN "claim" ELSE "reserve")
  /\ UNCHANGED <<fixed, now, intents, facts, calls, size>>

(* revalidatePreparedPlan: the window is materialized again, until two     *)
(* readings agree, and must be the plan's.                                 *)
RevalidateGeneration(h) == lane = "generation" /\ Revalidate(h)

(* revalidateAdvisoryPlan: the subject, its admission, and the reviewer's  *)
(* independence.                                                           *)
RevalidateAdvisory(h) == lane = "advisory_review" /\ Revalidate(h)

Reserve(h) ==
  LET p == ours[h]
  IN
  /\ pc[h] = "reserve"
  /\ IF Conflicts(reserved[p.turn], p)
     THEN Throw(h, "store.conflict") /\ UNCHANGED reserved
     ELSE /\ reserved' = [reserved EXCEPT ![p.turn] = p]
          /\ Proceed(h, "lock")
  /\ UNCHANGED <<fixed, now, locked, granted, attempt, dispatched, facts,
                 calls, size>>

(* A different request for the same key is refused before anything is      *)
(* authorized.                                                             *)
LockPlan(h) ==
  /\ pc[h] = "lock"
  /\ IF Conflicts(locked, ours[h])
     THEN Throw(h, "store.conflict") /\ UNCHANGED locked
     ELSE /\ locked' = ours[h]
          /\ Proceed(h, IF Outbound THEN "authorize" ELSE "attempt")
  /\ UNCHANGED <<fixed, now, reserved, granted, attempt, dispatched, facts,
                 calls, size>>

LockExecution(h) == lane = "generation" /\ LockPlan(h)
LockReview(h) == lane = "advisory_review" /\ LockPlan(h)

(* The authorization of an outbound turn, one per turn.                    *)
Authorize(h) ==
  LET t == ours[h].turn
  IN
  /\ pc[h] = "authorize"
  /\ IF Conflicts(granted[t], grant[h])
     THEN Throw(h, "store.conflict") /\ UNCHANGED granted
     ELSE /\ granted' = [granted EXCEPT ![t] = grant[h]]
          /\ Proceed(h, "attempt")
  /\ UNCHANGED <<fixed, now, reserved, locked, attempt, dispatched, facts,
                 calls, size>>

IndexAttempt(h) ==
  /\ pc[h] = "attempt"
  /\ IF Conflicts(attempt, ours[h])
     THEN Throw(h, "store.conflict") /\ UNCHANGED attempt
     ELSE attempt' = ours[h] /\ Proceed(h, "again")
  /\ UNCHANGED <<fixed, now, reserved, locked, granted, dispatched, facts,
                 calls, size>>

AttemptGeneration(h) == lane = "generation" /\ IndexAttempt(h)
AttemptAdvisory(h) == lane = "advisory_review" /\ IndexAttempt(h)

(* assertAuthorizationBinding: when a dispatch may be.                     *)
InWindow(d) ==
  /\ d.at < d.plan.expires
  /\ d.auth # None => d.auth.from <= d.at /\ d.at < d.auth.until

(* Mutant: an expired plan or authorization is not looked at again.        *)
ClaimUnchecked(h) ==
  /\ pc[h] = "claim" /\ dispatched[ours[h].turn] = None
  /\ marker' = [marker EXCEPT ![h] =
       [plan |-> ours[h], auth |-> grant[h], at |-> now]]
  /\ Goto(h, "dispatch")
  /\ UNCHANGED <<mode, ours, plan, grant, seen, doing, outcome>>
  /\ UNCHANGED <<fixed, now, intents, facts, calls, size>>

(* claimSemanticDispatch up to its create: an existing dispatch is never   *)
(* permission to call; a new one is stamped with the clock.                *)
Claim(h) ==
  LET p == ours[h]
      d == dispatched[p.turn]
      new == [plan |-> p, auth |-> grant[h], at |-> now]
  IN
  /\ pc[h] = "claim"
  /\ IF d # None
     THEN IF ~BoundTo(d, p, grant[h]) THEN Throw(h, "schema.corrupt")
          ELSE Saw(h, "outcome_unknown", "existing")
     ELSE IF ~InWindow(new) THEN Throw(h, "schema.corrupt")
     ELSE /\ marker' = [marker EXCEPT ![h] = new]
          /\ Goto(h, "dispatch")
          /\ UNCHANGED <<mode, ours, plan, grant, seen, doing, outcome>>
  /\ UNCHANGED <<fixed, now, intents, facts, calls, size>>

(* Mutant: a store that already holds the same bytes counts as created.    *)
DispatchIdempotent(h) ==
  LET t == ours[h].turn
      same == dispatched[t] = marker[h]
  IN
  /\ pc[h] = "dispatch"
  /\ dispatched' = IF dispatched[t] = None
                   THEN [dispatched EXCEPT ![t] = marker[h]] ELSE dispatched
  /\ marker' = [marker EXCEPT ![h] = None]
  /\ seen' = [seen EXCEPT ![h] =
       IF dispatched[t] = None \/ same THEN None ELSE "outcome_unknown"]
  /\ Goto(h, IF dispatched[t] = None \/ same THEN "invoke" ELSE "existing")
  /\ UNCHANGED <<mode, ours, plan, grant, doing, outcome>>
  /\ UNCHANGED <<fixed, now, reserved, locked, granted, attempt, facts,
                 calls, size>>

(* The create itself.  Another host's marker, or the very same bytes of    *)
(* another host in the same instant, make this dispatch an existing one.   *)
Dispatch(h) ==
  LET t == ours[h].turn
      first == dispatched[t] = None
  IN
  /\ pc[h] = "dispatch"
  /\ IF ~first /\ ~BoundTo(dispatched[t], ours[h], grant[h])
     THEN Throw(h, "schema.corrupt")
     ELSE /\ marker' = [marker EXCEPT ![h] = None]
          /\ seen' = [seen EXCEPT ![h] =
               IF first THEN None ELSE "outcome_unknown"]
          /\ Goto(h, IF first THEN "invoke" ELSE "existing")
          /\ UNCHANGED <<mode, ours, plan, grant, doing, outcome>>
  /\ dispatched' = IF first THEN [dispatched EXCEPT ![t] = marker[h]]
                   ELSE dispatched
  /\ UNCHANGED <<fixed, now, reserved, locked, granted, attempt, facts,
                 calls, size>>

(* A run whose dispatch exists: an intent is completed, otherwise the turn *)
(* is classified.                                                          *)
Existing(h) ==
  /\ pc[h] = "existing"
  /\ IF intent = ours[h].turn THEN CompleteWith(h, "completed", "put_result")
     ELSE Proceed(h, "answered")
  /\ UNCHANGED <<fixed, now, intents, facts, calls, size>>

(* The provider callback: the one thing that leaves the host.              *)
Invoke(h) ==
  /\ pc[h] = "invoke"
  /\ calls' = [calls EXCEPT ![ours[h].turn] = @ + 1]
  /\ Proceed(h, "await")
  /\ UNCHANGED <<fixed, now, intents, facts, size>>

(* The callback throws, rejects, or outlives the duration of its budget;   *)
(* whatever it answers later is dropped.                                   *)
Unknown(h) ==
  /\ pc[h] = "await"
  /\ End(h, Report("outcome_unknown", "dispatch_only"))
  /\ UNCHANGED <<fixed, now, intents, facts, calls, size>>

(* A bound assessment lists at most 100 findings by digest and always      *)
(* fits; what a generation answers may not.                                *)
SizesOf(limit, a) ==
  IF lane = "generation" /\ Binds(limit, a) THEN Sizes ELSE {"fits"}

(* The callback resolves, the answer is graded, and what is made of it is  *)
(* parsed.  A key is answered at most once, so the ceiling of its          *)
(* definition may be chosen here.                                          *)
Settle(h) ==
  /\ pc[h] = "await"
  /\ \E limit \in CostLimits, a \in Answers : \E z \in SizesOf(limit, a) :
       LET r == Grade(limit, a)
       IN  /\ size' = z
           /\ IF ~Storable(limit, a, r, z) THEN Throw(h, "unstorable")
              ELSE CompleteWith(h, r.status,
                     IF r.status = "completed" THEN "put_intent" ELSE "put_result")
  /\ UNCHANGED <<fixed, now, intents, facts, calls>>

SettleGeneration(h) == lane = "generation" /\ Settle(h)
SettleAdvisory(h) == lane = "advisory_review" /\ Settle(h)

-------------------------------------------------------------------------------
(***************************************************************************)
(* What is known of an answer becomes durable                              *)
(***************************************************************************)

(* The completion intent is the first awaited write after the answer.      *)
PutIntent(h) ==
  LET t == plan[h].turn
  IN
  /\ pc[h] = "put_intent"
  /\ IF Conflicts(intent, t)
     THEN Throw(h, "store.conflict") /\ UNCHANGED intent
     ELSE intent' = t /\ Proceed(h, "put_result")
  /\ UNCHANGED <<fixed, now, intents, results, sidecars, child, indexed,
                 terminals, calls, size>>

IntentGeneration(h) == lane = "generation" /\ PutIntent(h)
IntentAdvisory(h) == lane = "advisory_review" /\ PutIntent(h)

(* The result: persistSemanticResultBinding, or the first write of a       *)
(* completion, which has found its exact intent.  The record is measured   *)
(* before it is created (assertCanonicalRecordBound).                      *)
PutResult(h) ==
  LET t == plan[h].turn
  IN
  /\ pc[h] = "put_result"
  /\ IF doing[h] = "completed" /\ size = "record"
     THEN Throw(h, "unstorable") /\ UNCHANGED results
     ELSE IF Conflicts(results[t], doing[h])
     THEN Throw(h, "store.conflict") /\ UNCHANGED results
     ELSE /\ results' = [results EXCEPT ![t] = doing[h]]
          /\ Proceed(h, IF doing[h] = "completed" THEN "put_sidecar"
                        ELSE "put_index")
  /\ UNCHANGED <<fixed, now, intents, intent, sidecars, child, indexed,
                 terminals, calls, size>>

(* persistSemanticCompletedGeneration: the workflow execution binding.     *)
PutExecution(h) ==
  /\ pc[h] = "put_sidecar" /\ lane = "generation"
  /\ sidecars' = sidecars \cup {plan[h].turn}
  /\ Proceed(h, "put_child")
  /\ UNCHANGED <<fixed, now, intents, intent, results, child, indexed,
                 terminals, calls, size>>

(* persistSemanticCompletedAdvisory: the assessment.                       *)
PutAssessment(h) ==
  /\ pc[h] = "put_sidecar" /\ lane = "advisory_review"
  /\ sidecars' = sidecars \cup {plan[h].turn}
  /\ Proceed(h, "put_index")
  /\ UNCHANGED <<fixed, now, intents, intent, results, child, indexed,
                 terminals, calls, size>>

Missing == {k \in DOMAIN ChildKinds : ChildKinds[k] \notin child}

(* persistSemanticWorkflowDetectorExecution: the facts of the detector     *)
(* execution in their order, its receipt last.  A call that finds a fact   *)
(* there, whoever wrote it, goes on to the next.                           *)
PutChild(h) ==
  /\ pc[h] = "put_child"
  /\ IF Missing = {} THEN Proceed(h, "put_index") /\ UNCHANGED child
     ELSE /\ \E k \in Missing :
               /\ \A j \in Missing : k <= j
               /\ child' = child \cup {ChildKinds[k]}
          /\ UNCHANGED <<pc, local>>
  /\ UNCHANGED <<fixed, now, intents, intent, results, sidecars, indexed,
                 terminals, calls, size>>

(* Evidence the child facts rest on was withdrawn or drifted meanwhile.    *)
Drift(h) ==
  /\ pc[h] = "put_child"
  /\ Throw(h, "refused")
  /\ UNCHANGED <<fixed, now, intents, facts, calls, size>>

(* The scope index comes before the receipt, and what a terminal rests on  *)
(* is reloaded before both.                                                *)
PutIndex(h) ==
  LET t == plan[h].turn
  IN
  /\ pc[h] = "put_index"
  /\ IF ~Whole(t, doing[h])
     THEN Throw(h, "workflow_incomplete") /\ UNCHANGED indexed
     ELSE indexed' = indexed \cup {t} /\ Proceed(h, "put_turn")
  /\ UNCHANGED <<fixed, now, intents, intent, results, sidecars, child,
                 terminals, calls, size>>

(* persistSemanticTurnTerminal, and its completed twins.                   *)
IndexNoncompleted(h) == doing[h] # "completed" /\ PutIndex(h)
IndexGeneration(h) ==
  doing[h] = "completed" /\ lane = "generation" /\ PutIndex(h)
IndexAdvisory(h) ==
  doing[h] = "completed" /\ lane = "advisory_review" /\ PutIndex(h)

(* Mutant: the receipt is written before the entry that leads to it.       *)
PutTurnFirst(h) ==
  LET t == plan[h].turn
  IN
  /\ pc[h] = "put_index" /\ Whole(t, doing[h]) /\ terminals[t] = None
  /\ terminals' = [terminals EXCEPT ![t] = doing[h]]
  /\ Finish(h, doing[h], "committed")
  /\ UNCHANGED <<fixed, now, intents, intent, results, sidecars, child,
                 indexed, calls, size>>

PutTurn(h) ==
  LET t == plan[h].turn
  IN
  /\ pc[h] = "put_turn"
  /\ IF Conflicts(terminals[t], doing[h])
     THEN Throw(h, "store.conflict") /\ UNCHANGED terminals
     ELSE /\ terminals' = [terminals EXCEPT ![t] = doing[h]]
          /\ Finish(h, doing[h], IF mode[h] = "run" /\ seen[h] # None
                                 THEN "existing" ELSE "committed")
  /\ UNCHANGED <<fixed, now, intents, intent, results, sidecars, child,
                 indexed, calls, size>>

-------------------------------------------------------------------------------
(***************************************************************************)
(* Preparation, faults, time                                               *)
(***************************************************************************)

(* prepareGeneration when the execution exists: its turn must be there     *)
(* too.  (A preparation that finds nothing is what Run starts from.)       *)
Prepare(h) ==
  /\ pc[h] = "idle" /\ lane = "generation" /\ Receipt \in child
  /\ IF \E t \in sidecars : Listed(t) /\ Sound(t)
     THEN outcome' = [outcome EXCEPT ![h] = Report("execution_existing", None)]
     ELSE outcome' = [outcome EXCEPT ![h] = Failed("workflow_incomplete")]
  /\ UNCHANGED <<fixed, now, intents, facts, calls, size, pc, mode, ours,
                 plan, grant, marker, seen, doing>>

(* getTurn, and each turn of a query: a committed turn with what it made.  *)
ViewTurn(h) ==
  /\ pc[h] = "idle"
  /\ \E t \in Turns :
       /\ Listed(t)
       /\ outcome' = [outcome EXCEPT ![h] =
            IF Sound(t) THEN Report(terminals[t], "existing")
            ELSE Failed("store.corrupt")]
  /\ UNCHANGED <<fixed, now, intents, facts, calls, size, pc, mode, ours,
                 plan, grant, marker, seen, doing>>

(* validateSemanticWorkflowExecutionLineage.                               *)
ExecutionCommitted == \E t \in sidecars : intent = t /\ Listed(t) /\ Sound(t)

(* A read of the detector execution itself follows its workflow: without   *)
(* a committed turn the execution is refused.                              *)
ViewChild(h) ==
  /\ pc[h] = "idle" /\ lane = "generation" /\ Receipt \in child
  /\ outcome' = [outcome EXCEPT ![h] =
       IF ExecutionCommitted
       THEN Report("execution_existing", None) ELSE Failed("store.corrupt")]
  /\ UNCHANGED <<fixed, now, intents, facts, calls, size, pc, mode, ours,
                 plan, grant, marker, seen, doing>>

(* The host dies: its locals are gone, an open callback included.          *)
Crash(h) ==
  /\ pc[h] # "idle"
  /\ End(h, Silent)
  /\ UNCHANGED <<fixed, now, intents, facts, calls, size>>

Tick ==
  /\ now < Horizon /\ now' = now + 1
  /\ UNCHANGED <<fixed, intents, facts, calls, size, pc, local>>

-------------------------------------------------------------------------------
(***************************************************************************)
(* Specification                                                           *)
(***************************************************************************)

Init ==
  /\ \E d \in Definitions : lane = d.lane /\ transport = d.transport
  /\ now = 0
  /\ reserved = [t \in Turns |-> None]
  /\ locked = None
  /\ granted = [t \in Turns |-> None]
  /\ attempt = None
  /\ dispatched = [t \in Turns |-> None]
  /\ intent = None
  /\ results = [t \in Turns |-> None]
  /\ sidecars = {} /\ child = {} /\ indexed = {}
  /\ terminals = [t \in Turns |-> None]
  /\ calls = [t \in Turns |-> 0] /\ size = None
  /\ pc = [h \in Hosts |-> "idle"]
  /\ mode = [h \in Hosts |-> "none"]
  /\ ours = [h \in Hosts |-> None]
  /\ plan = [h \in Hosts |-> None]
  /\ grant = [h \in Hosts |-> None]
  /\ marker = [h \in Hosts |-> None]
  /\ seen = [h \in Hosts |-> None]
  /\ doing = [h \in Hosts |-> None]
  /\ outcome = [h \in Hosts |-> Silent]

Generate(h) ==
  \/ ResumeGeneration(h) \/ RevalidateGeneration(h) \/ LockExecution(h)
  \/ AttemptGeneration(h) \/ SettleGeneration(h) \/ IntentGeneration(h)
  \/ PutExecution(h) \/ PutChild(h) \/ IndexGeneration(h)

Review(h) ==
  \/ ResumeAdvisory(h) \/ RevalidateAdvisory(h) \/ LockReview(h)
  \/ AttemptAdvisory(h) \/ SettleAdvisory(h) \/ IntentAdvisory(h)
  \/ PutAssessment(h) \/ IndexAdvisory(h)

Step(h) ==
  \/ LoadAttempt(h) \/ FindAttempt(h) \/ ClassifyDispatch(h)
  \/ ClassifyResult(h) \/ ClassifyTerminal(h) \/ Reserve(h) \/ Authorize(h)
  \/ Claim(h) \/ Dispatch(h) \/ Existing(h) \/ Invoke(h) \/ Unknown(h)
  \/ PutResult(h) \/ IndexNoncompleted(h) \/ PutTurn(h)
  \/ Generate(h) \/ Review(h)

Next ==
  \/ \E h \in Hosts :
       \/ RunGeneration(h) \/ RunAdvisory(h) \/ Recover(h) \/ Step(h)
       \/ Drift(h) \/ Prepare(h) \/ ViewTurn(h) \/ ViewChild(h) \/ Crash(h)
  \/ Tick

Spec == Init /\ [][Next]_vars

-------------------------------------------------------------------------------
(***************************************************************************)
(* Safety                                                                  *)
(***************************************************************************)

TypeOK ==
  /\ [lane |-> lane, transport |-> transport] \in Definitions
  /\ now \in 0..Horizon
  /\ reserved \in Reservations /\ locked \in PlanLocks
  /\ granted \in Authorizations /\ attempt \in Attempts
  /\ dispatched \in [Turns -> DispatchMarker \cup {None}]
  /\ intent \in CompletionIntents /\ results \in ResultBindings
  /\ sidecars \in IF lane = "generation" THEN Executions ELSE Assessments
  /\ child \subseteq {ChildKinds[k] : k \in DOMAIN ChildKinds}
  /\ indexed \subseteq Turns /\ terminals \in TurnReceipts
  /\ calls \in [Turns -> Nat] /\ size \in Sizes \cup {None}
  /\ pc \in [Hosts -> Steps]
  /\ mode \in [Hosts -> {"none", "inner", "run", "recover"}]
  /\ ours \in [Hosts -> Plans \cup {None}]
  /\ plan \in [Hosts -> Plans \cup {None}]
  /\ grant \in [Hosts -> Windows \cup {None}]
  /\ marker \in [Hosts -> DispatchMarker \cup {None}]
  /\ seen \in [Hosts -> Known \cup {"not_dispatched", None}]
  /\ doing \in [Hosts -> Statuses \cup {None}]
  /\ outcome \in [Hosts -> Outcomes]

(* The provider is handed one operation per key, over every turn, host,    *)
(* crash and retry (decision 0022: at most one provider callback).         *)
AtMostOneCall ==
  \A t, u \in Turns : calls[t] <= 1 /\ (calls[t] > 0 /\ calls[u] > 0 => t = u)

(* Nothing leaves the host before the records that account for it: the     *)
(* reservation, the key's plan lock, the authorization an outbound turn    *)
(* needs, the attempt and a dispatch inside both windows.                  *)
EgressAccounted ==
  \A t \in Turns : calls[t] > 0 =>
    LET d == dispatched[t]
    IN  /\ d # None /\ InWindow(d)
        /\ reserved[t] = d.plan /\ locked = d.plan /\ attempt = d.plan
        /\ granted[t] = d.auth /\ (Outbound <=> d.auth # None)

(* A turn's receipt is last (decision 0021): it has its index, its result  *)
(* and a dispatched call; a completed one also what it generated.          *)
TurnLast ==
  \A t \in Turns : terminals[t] # None =>
    /\ t \in indexed /\ results[t] = terminals[t] /\ calls[t] > 0
    /\ terminals[t] = "completed" =>
         /\ intent = t /\ t \in sidecars
         /\ lane = "generation" => Receipt \in child

(* A timely answer is lost to the checks its own records must pass only    *)
(* when it exceeds the ceilings on what a record may hold: never for its   *)
(* usage, cost or pairing, and never in an advisory review.                *)
AnswersKept ==
  \A h \in Hosts : outcome[h] = Failed("unstorable") =>
    lane = "generation" /\ size \in {"record", "binding"}

(* The durable facts of the key implement the abstract turn.               *)
Answered == intent # None \/ \E t \in Turns : results[t] # None

Stage ==
  IF \E t \in Turns : terminals[t] # None THEN "committed"
  ELSE IF Answered THEN "recorded"
  ELSE IF \E t \in Turns : calls[t] > 0 THEN "called"
  ELSE IF \E t \in Turns : dispatched[t] # None THEN "dispatched"
  ELSE "open"

Status ==
  IF intent # None THEN "completed"
  ELSE IF Answered THEN results[CHOOSE t \in Turns : results[t] # None]
  ELSE None

Lifecycle == INSTANCE TurnLifecycle WITH stage <- Stage, status <- Status

ImplementsTurn == Lifecycle!Spec

-------------------------------------------------------------------------------
(***************************************************************************)
(* Liveness                                                                *)
(***************************************************************************)

Committed == \E t \in Turns : terminals[t] # None

(* Hosts keep executing their calls; crashes and drift cease; and while an *)
(* answer is known and not committed, somebody recovers.                   *)
RecoverySpec ==
  /\ Spec
  /\ \A h \in Hosts : WF_vars(Step(h))
  /\ <>[][\A h \in Hosts : ~Crash(h) /\ ~Drift(h)]_vars
  /\ SF_vars(~Committed /\ \E h \in Hosts : Recover(h))

(* Once an answer is durable, recovery commits it, whoever learned it,     *)
(* unless its result record exceeds the ceiling of a record: then the      *)
(* intent stands and no recovery ever completes it.  (What was answered    *)
(* stays answered, so again and again is the same as leads to.)            *)
AnswersCommit == []<>(Answered => Committed \/ size = "record")

===============================================================================
