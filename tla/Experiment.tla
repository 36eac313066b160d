------------------------------ MODULE Experiment ------------------------------
(***************************************************************************)
(* Experiments (engine/experiment.ts, engine/experiment-attempt.ts and the *)
(* evaluation index of engine/publication-journal.ts): hosts declare a     *)
(* frozen design and run it concurrently over one store.  A run journals   *)
(* every attempt before it invokes the executor, stops at the first slot   *)
(* that is not valid or at the cost ceiling, and binds its one evaluation  *)
(* to the subject intervention: index entry, evaluation record, validate   *)
(* edge, in this order.  Every store or executor call is an await and one  *)
(* action; a host may crash between any two.                               *)
(*                                                                         *)
(* An experiment owns one definition, one attempt per design slot and one  *)
(* evaluation, all named by content; an attempt keeps what its attestation *)
(* says relative to its request.  The subject's other edges come from the  *)
(* publisher (module Publication).                                         *)
(***************************************************************************)
EXTENDS ExperimentRule, InterventionTable

CONSTANTS
  Hosts,              \* concurrent runExperiment calls
  Experiments,        \* experiment ids
  Interventions,      \* the interventions experiments test
  Designs,            \* the designs hosts may declare
  Outcomes,           \* what the executor may answer
  MaxAppendAttempts,  \* MAX_APPEND_ATTEMPTS (8 in the code)
  MaxEvaluations,     \* MAX_EVALUATIONS_PER_INTERVENTION (1000 in the code)
  MaxPublisherEdges   \* bound: edges the publisher appends to a subject

ASSUME ExperimentsAssumption == Experiments # {} /\ "publisher" \notin Experiments
ASSUME DesignsAssumption ==
  \A d \in Designs :
    /\ d.subject \in Interventions
    /\ d.episodes \in Nat \ {0} /\ d.repetitions \in Nat \ {0}
    /\ d.ceiling \in Nat                        \* 0: no ceiling declared
ASSUME OutcomesAssumption ==
  \A o \in Outcomes :
    /\ o.status \in {"failed", "rejected", "completed"}
    /\ o.fingerprint \in {"own", "other", "foreign"}
    /\ o.echoes \in BOOLEAN /\ o.graded \in BOOLEAN
    /\ o.cost \in Nat \cup {-1}                 \* -1: not in the ceiling's currency
ASSUME BoundsAssumption ==
  /\ MaxAppendAttempts \in Nat \ {0} /\ MaxEvaluations \in Nat \ {0}
  /\ MaxPublisherEdges \in Nat

Slots == UNION {1..SlotCount(d) : d \in Designs}

(* What `job` holds while no run is in progress.                           *)
AnyExperiment == CHOOSE x \in Experiments : TRUE

-------------------------------------------------------------------------------
VARIABLES
  (* the store *)
  declared,    \* declared[x]: the frozen design of experiment x
  attempts,    \* attempts[x][k]: the attempt record of slot k
  evaluation,  \* evaluation[x]: the evaluation record
  index,       \* index[i]: the experiments in the evaluation index of i
  stream,      \* stream[i]: the transition stream of intervention i
  (* the executor *)
  executions,  \* executions[x][k]: times slot k was executed
  (* each run *)
  pc,          \* its next step, "idle" when no run is in progress
  job,         \* the experiment it runs
  taken,       \* the attempts it holds, one per slot walked
  answer,      \* what the executor answered it
  eval,        \* the evaluation it binds
  rev,         \* the stream or index revision it read
  bound,       \* alreadyBound
  tries,       \* conflicts its append loop has met
  outcome      \* how its last run ended

store == <<declared, attempts, evaluation, index, stream>>
local == <<job, taken, answer, eval, rev, bound, tries, outcome>>
vars  == <<declared, attempts, evaluation, index, stream, executions,
           pc, job, taken, answer, eval, rev, bound, tries, outcome>>

Undeclared   == [subject |-> "none"]
NoEvaluation == [verdict |-> "none", classes |-> << >>]
NoOutcome    == [status |-> "none"]
Absent       == [status |-> "absent"]

-------------------------------------------------------------------------------
(***************************************************************************)
(* Attempts                                                                *)
(***************************************************************************)

(* Under a ceiling, a missing cost is a mismatch, never zero spend, and so *)
(* is a cost above the budget the attempt was dispatched with.             *)
Mismatched(d, a) ==
  \/ ~a.result.echoes
  \/ d.ceiling # 0 /\ (a.result.cost = -1 \/ a.result.cost > a.budget)

(* Mutant: the budget is not compared with the attested cost.              *)
ClassifyUnbudgeted(d, a) ==
  CASE a.status = "dispatched"                        -> "outcome_unknown"
    [] a.status \in {"failed", "rejected"}            -> a.status
    [] a.status = "completed" /\ a.result.cost = -1   -> "attestation_mismatch"
    [] OTHER                                          -> "valid"

Classify(d, a) ==
  LET attests(fingerprint) ==
        a.status = "completed" /\ a.result.fingerprint = fingerprint
  IN  CASE a.status = "dispatched"             -> "outcome_unknown"
        [] a.status \in {"failed", "rejected"} -> a.status
        [] attests("other")                    -> "contaminated"
        [] attests("foreign")                  -> "fingerprint_drift"
        [] attests("own") /\ Mismatched(d, a)  -> "attestation_mismatch"
        [] attests("own") /\ ~Mismatched(d, a) /\ ~a.result.graded
             -> "metric_missing"
        [] OTHER -> "valid"

Valid(d, a) == Classify(d, a) = "valid"

(* Attested cumulative cost of the slots walked.                           *)
Spent(d, as) ==
  IF d.ceiling = 0 THEN 0
  ELSE SumFunctionOnSet([k \in DOMAIN as |-> IF Valid(d, as[k])
                                               THEN as[k].result.cost ELSE 0],
                        DOMAIN as)

AtCeiling(d, as) == d.ceiling # 0 /\ as # << >> /\ Spent(d, as) >= d.ceiling

(* remainingBudget; 0 where no ceiling is declared.                        *)
Budget(d, as) == IF Spent(d, as) >= d.ceiling THEN 0 ELSE d.ceiling - Spent(d, as)

(* The stopping rule: the design is complete, the last slot was not valid, *)
(* or the ceiling is reached.                                              *)
Halted(d, as) ==
  \/ Len(as) = SlotCount(d)
  \/ as # << >> /\ ~Valid(d, as[Len(as)])
  \/ AtCeiling(d, as)

Classes(d, as) ==
  [k \in 1..SlotCount(d) |-> IF k \in DOMAIN as THEN Classify(d, as[k]) ELSE "not_run"]

Measured(as) == [k \in DOMAIN as |-> as[k].result.measured]

(* Mutant: a slot not run outweighs an invalid one.                        *)
VerdictNotRunFirst(d, as) ==
  LET classes == Range(Classes(d, as))
  IN  CASE "not_run" \in classes -> "inconclusive"
        [] classes = {"valid"} -> ReferenceVerdict(d, Analyze(d, Measured(as)))
        [] OTHER -> "invalid"

Verdict(d, as) ==
  LET classes == Range(Classes(d, as))
  IN  CASE classes \ {"valid", "not_run"} # {}  -> "invalid"
        [] classes = {"valid"} -> ReferenceVerdict(d, Analyze(d, Measured(as)))
        [] OTHER -> "inconclusive"

Evaluate(d, as) == [verdict |-> Verdict(d, as), classes |-> Classes(d, as)]

-------------------------------------------------------------------------------
(***************************************************************************)
(* The subject                                                             *)
(***************************************************************************)

CurrentState(i) ==
  IF stream[i] = << >> THEN InitialState ELSE stream[i][Len(stream[i])].to

Recorded(x) == evaluation[x] # NoEvaluation

(* x is the last entry of fold.record.evaluationIds: entries without a     *)
(* record are crash remnants and do not count.                             *)
Latest(i, x) ==
  \E k \in DOMAIN index[i] :
    /\ index[i][k] = x /\ Recorded(x)
    /\ \A j \in DOMAIN index[i] : j > k => ~Recorded(index[i][j])

(* foldRecord accepts the first n edges: a validate edge cites an indexed, *)
(* durable evaluation that says the verdict the edge lands on.             *)
Readable(i, n) ==
  \A k \in 1..n :
    LET e == stream[i][k]
    IN  Validates(e.from, e.to) =>
          /\ e.by \in Range(index[i])
          /\ evaluation[e.by].verdict = e.to.validation

-------------------------------------------------------------------------------
(***************************************************************************)
(* Control                                                                 *)
(***************************************************************************)

Design(h)  == declared[job[h]]
Subject(h) == Design(h).subject
Slot(h)    == Len(taken[h]) + 1

Goto(h, step) == pc' = [pc EXCEPT ![h] = step]

(* The run of h returns or throws; its locals are gone.                    *)
Finish(h, o) ==
  /\ Goto(h, "idle")
  /\ outcome' = [outcome EXCEPT ![h] = o]
  /\ taken'   = [taken   EXCEPT ![h] = << >>]
  /\ answer'  = [answer  EXCEPT ![h] = NoOutcome]
  /\ eval'    = [eval    EXCEPT ![h] = NoEvaluation]
  /\ rev'     = [rev     EXCEPT ![h] = 0]
  /\ bound'   = [bound   EXCEPT ![h] = FALSE]
  /\ tries'   = [tries   EXCEPT ![h] = 0]
  /\ job'     = [job     EXCEPT ![h] = AnyExperiment]

(* An append met a conflict: reload, unless the attempts are used up.      *)
Conflict(h, reload) ==
  \/ tries[h] + 1 = MaxAppendAttempts /\ Finish(h, "store.conflict")
  \/ /\ tries[h] + 1 < MaxAppendAttempts
     /\ Goto(h, reload)
     /\ tries' = [tries EXCEPT ![h] = @ + 1]
     /\ UNCHANGED <<job, taken, answer, eval, rev, bound, outcome>>

(* Enter finalizeEvaluation with e.                                        *)
Finalize(h, e) ==
  /\ Goto(h, "index_read")
  /\ eval' = [eval EXCEPT ![h] = e]

(* Walk a slot: the next one, or the verdict once the run is halted.       *)
Walk(h, a) ==
  LET as == Append(taken[h], a)
  IN  /\ taken' = [taken EXCEPT ![h] = as]
      /\ \/ /\ Halted(Design(h), as)
            /\ Finalize(h, Evaluate(Design(h), as))
         \/ /\ ~Halted(Design(h), as)
            /\ Goto(h, "load") /\ UNCHANGED eval

-------------------------------------------------------------------------------
(***************************************************************************)
(* declareExperiment                                                       *)
(***************************************************************************)

(* The subject is a journaled publish intervention; declared again with    *)
(* another design, the experiment keeps the design it has.                 *)
Declare(x, d) ==
  /\ declared[x] = Undeclared
  /\ stream[d.subject] # << >>
  /\ declared' = [declared EXCEPT ![x] = d]
  /\ UNCHANGED <<attempts, evaluation, index, stream, executions, pc>>
  /\ UNCHANGED local

-------------------------------------------------------------------------------
(***************************************************************************)
(* runExperiment: the attempts                                             *)
(***************************************************************************)

(* Mutant: a concluded experiment is returned as it is.                    *)
BeginConcludedReturns(h, x) ==
  /\ pc[h] = "idle" /\ declared[x] # Undeclared /\ ~Recorded(x)
  /\ job' = [job EXCEPT ![h] = x]
  /\ outcome' = [outcome EXCEPT ![h] = "none"]
  /\ Goto(h, "load")
  /\ UNCHANGED <<store, executions, taken, answer, eval, rev, bound, tries>>

(* A concluded experiment is finalized again, any other one is run.        *)
Begin(h, x) ==
  /\ pc[h] = "idle" /\ declared[x] # Undeclared
  /\ job' = [job EXCEPT ![h] = x]
  /\ outcome' = [outcome EXCEPT ![h] = "none"]
  /\ \/ Recorded(x) /\ Finalize(h, evaluation[x])
     \/ ~Recorded(x) /\ Goto(h, "load") /\ UNCHANGED eval
  /\ UNCHANGED <<store, executions, taken, answer, rev, bound, tries>>

(* An executor, intervention or episode that cannot be resolved.           *)
Refuse(h) ==
  /\ pc[h] = "load" /\ taken[h] = << >>
  /\ Finish(h, "refused")
  /\ UNCHANGED <<store, executions>>

(* loadExperimentAttempt: what the journal holds is never executed again.  *)
Load(h) ==
  LET a == attempts[job[h]][Slot(h)]
  IN  /\ pc[h] = "load"
      /\ \/ a # Absent /\ Walk(h, a)
         \/ a = Absent /\ Goto(h, "raced") /\ UNCHANGED <<taken, eval>>
      /\ UNCHANGED <<store, executions, job, answer, rev, bound, tries, outcome>>

(* Concluded by a concurrent run: adopt its evaluation.                    *)
Raced(h) ==
  /\ pc[h] = "raced"
  /\ \/ Recorded(job[h]) /\ Finalize(h, evaluation[job[h]])
     \/ ~Recorded(job[h]) /\ Goto(h, "dispatch") /\ UNCHANGED eval
  /\ UNCHANGED <<store, executions, job, taken, answer, rev, bound, tries, outcome>>

Journal(h, a) == attempts' = [attempts EXCEPT ![job[h]][Slot(h)] = a]

Dispatched(h) ==
  [status |-> "dispatched", budget |-> Budget(Design(h), taken[h])]

(* Mutant: the loser of the create executes the slot too.                  *)
DispatchUnowned(h) ==
  /\ pc[h] = "dispatch"
  /\ Journal(h, Dispatched(h)) /\ Goto(h, "execute")
  /\ UNCHANGED <<declared, evaluation, index, stream, executions>>
  /\ UNCHANGED local

(* Create-only: whoever loses reads the attempt of whoever won.            *)
Dispatch(h) ==
  /\ pc[h] = "dispatch"
  /\ \/ /\ attempts[job[h]][Slot(h)] = Absent
        /\ Journal(h, Dispatched(h)) /\ Goto(h, "execute")
     \/ /\ attempts[job[h]][Slot(h)] # Absent
        /\ Goto(h, "load") /\ UNCHANGED attempts
  /\ UNCHANGED <<declared, evaluation, index, stream, executions>>
  /\ UNCHANGED local

(* The executor runs the slot and answers, throws or answers nonsense.     *)
Execute(h) ==
  /\ pc[h] = "execute"
  /\ \E o \in Outcomes : answer' = [answer EXCEPT ![h] = o]
  /\ executions' = [executions EXCEPT ![job[h]][Slot(h)] = @ + 1]
  /\ Goto(h, "complete")
  /\ UNCHANGED <<store, job, taken, eval, rev, bound, tries, outcome>>

(* The compare-and-set under the revision the create returned, and the     *)
(* reload: a terminal attempt is never written again.                      *)
Complete(h) ==
  LET a == [status |-> answer[h].status, result |-> answer[h],
            budget |-> Budget(Design(h), taken[h])]
  IN  /\ pc[h] = "complete"
      /\ attempts[job[h]][Slot(h)] = Dispatched(h)
      /\ Journal(h, a) /\ Walk(h, a)
      /\ answer' = [answer EXCEPT ![h] = NoOutcome]
      /\ UNCHANGED <<declared, evaluation, index, stream, executions, job,
                     rev, bound, tries, outcome>>

-------------------------------------------------------------------------------
(***************************************************************************)
(* finalizeEvaluation                                                      *)
(***************************************************************************)

(* ensureInterventionEvaluationIndexed: read.                              *)
ReadIndex(h) ==
  LET entries == index[Subject(h)]
  IN  /\ pc[h] = "index_read"
      /\ UNCHANGED <<store, executions>>
      /\ \/ /\ job[h] \in Range(entries)
            /\ Goto(h, "record") /\ tries' = [tries EXCEPT ![h] = 0]
            /\ UNCHANGED <<job, taken, answer, eval, rev, bound, outcome>>
         \/ /\ job[h] \notin Range(entries) /\ Len(entries) >= MaxEvaluations
            /\ Finish(h, "limit_exceeded")
         \/ /\ job[h] \notin Range(entries) /\ Len(entries) < MaxEvaluations
            /\ Goto(h, "index_append") /\ rev' = [rev EXCEPT ![h] = Len(entries)]
            /\ UNCHANGED <<job, taken, answer, eval, bound, tries, outcome>>

(* Mutant: the append takes the index as it finds it.                      *)
AppendIndexUnconditional(h) ==
  /\ pc[h] = "index_append"
  /\ index' = [index EXCEPT ![Subject(h)] = Append(@, job[h])]
  /\ Goto(h, "record")
  /\ tries' = [tries EXCEPT ![h] = 0] /\ rev' = [rev EXCEPT ![h] = 0]
  /\ UNCHANGED <<declared, attempts, evaluation, stream, executions,
                 job, taken, answer, eval, bound, outcome>>

(* A repeat of the last append, by its operation id, is acknowledged; any  *)
(* other change of the index is a conflict.                                *)
AppendIndex(h) ==
  LET entries == index[Subject(h)]
      repeated == entries # << >> /\ entries[Len(entries)] = job[h]
  IN  /\ pc[h] = "index_append"
      /\ UNCHANGED <<declared, attempts, evaluation, stream, executions>>
      /\ \/ /\ Len(entries) = rev[h] \/ repeated
            /\ index' = [index EXCEPT ![Subject(h)] =
                           IF repeated THEN @ ELSE Append(@, job[h])]
            /\ Goto(h, "record")
            /\ tries' = [tries EXCEPT ![h] = 0] /\ rev' = [rev EXCEPT ![h] = 0]
            /\ UNCHANGED <<job, taken, answer, eval, bound, outcome>>
         \/ /\ Len(entries) # rev[h] /\ ~repeated
            /\ UNCHANGED index /\ Conflict(h, "index_read")

(* Create-only: the first evaluation is canonical.                         *)
Record(h) ==
  /\ pc[h] = "record"
  /\ evaluation' = [evaluation EXCEPT ![job[h]] =
                      IF Recorded(job[h]) THEN @ ELSE eval[h]]
  /\ eval' = [eval EXCEPT ![h] = evaluation'[job[h]]]
  /\ Goto(h, "fold_stream")
  /\ UNCHANGED <<declared, attempts, index, stream, executions,
                 job, taken, answer, rev, bound, tries, outcome>>

(* loadInterventionFold: the transition stream first,                      *)
FoldStream(h) ==
  LET edges == stream[Subject(h)]
  IN  /\ pc[h] = "fold_stream"
      /\ rev' = [rev EXCEPT ![h] = Len(edges)]
      /\ bound' = [bound EXCEPT ![h] = \E k \in DOMAIN edges : edges[k].by = job[h]]
      /\ Goto(h, "fold_evaluations")
      /\ UNCHANGED <<store, executions, job, taken, answer, eval, tries, outcome>>

(* then the index and the evaluations; only the latest may move validation. *)
FoldEvaluations(h) ==
  LET readable == Readable(Subject(h), rev[h])
      moves == Latest(Subject(h), job[h]) /\ ~bound[h]
  IN  /\ pc[h] = "fold_evaluations"
      /\ UNCHANGED <<store, executions>>
      /\ \/ /\ readable => ~moves
            /\ Finish(h, IF readable THEN "returned" ELSE "store.corrupt")
         \/ readable /\ moves /\ Goto(h, "edge_read") /\ UNCHANGED local

-------------------------------------------------------------------------------
(***************************************************************************)
(* appendInterventionTransition: the validate edge                         *)
(***************************************************************************)

(* `next` answers undefined when the state already says the verdict.       *)
ReadEdge(h) ==
  LET s == CurrentState(Subject(h))
  IN  /\ pc[h] = "edge_read"
      /\ UNCHANGED <<store, executions>>
      /\ \/ s.validation = eval[h].verdict /\ Finish(h, "returned")
         \/ /\ Validates(s, [s EXCEPT !.validation = eval[h].verdict])
            /\ Goto(h, "edge_append")
            /\ rev' = [rev EXCEPT ![h] = Len(stream[Subject(h)])]
            /\ UNCHANGED <<job, taken, answer, eval, bound, tries, outcome>>

Edge(h) ==
  LET s == CurrentState(Subject(h))
  IN  [from |-> s, to |-> [s EXCEPT !.validation = eval[h].verdict], by |-> job[h]]

(* Mutant: the edge starts from the state that was read, not from the head. *)
AppendEdgeUnconditional(h) ==
  LET i == Subject(h)
      s == IF rev[h] = 0 THEN InitialState ELSE stream[i][rev[h]].to
  IN  /\ pc[h] = "edge_append"
      /\ stream' = [stream EXCEPT ![i] = Append(@,
           [from |-> s, to |-> [s EXCEPT !.validation = eval[h].verdict],
            by |-> job[h]])]
      /\ Goto(h, "edge_verify")
      /\ UNCHANGED <<declared, attempts, evaluation, index, executions>>
      /\ UNCHANGED local

(* At the expected revision.  Another run of the same experiment may have  *)
(* appended the same edge in the same instant: the operation ids agree and *)
(* the store acknowledges.                                                 *)
AppendEdge(h) ==
  LET i == Subject(h)
  IN  /\ pc[h] = "edge_append"
      /\ UNCHANGED <<declared, attempts, evaluation, index, executions>>
      /\ \/ /\ Len(stream[i]) = rev[h]
            /\ stream' = [stream EXCEPT ![i] = Append(@, Edge(h))]
            /\ Goto(h, "edge_verify") /\ UNCHANGED local
         \/ /\ Len(stream[i]) = rev[h] + 1 /\ stream[i][rev[h] + 1].by = job[h]
            /\ Goto(h, "edge_verify") /\ UNCHANGED <<stream, local>>
         \/ /\ Len(stream[i]) # rev[h]
            /\ UNCHANGED stream /\ Conflict(h, "edge_read")

(* The reloaded head must be the state this run appended.                  *)
VerifyEdge(h) ==
  LET edges == stream[Subject(h)]
      head == edges[Len(edges)].to = edges[rev[h] + 1].to
  IN  /\ pc[h] = "edge_verify"
      /\ Finish(h, IF head THEN "returned" ELSE "store.corrupt")
      /\ UNCHANGED <<store, executions>>

-------------------------------------------------------------------------------
(***************************************************************************)
(* Environment                                                             *)
(***************************************************************************)

(* A host process dies; nobody hears of the run.                           *)
Crash(h) ==
  /\ pc[h] # "idle"
  /\ Finish(h, "none")
  /\ UNCHANGED <<store, executions>>

(* Where the publisher may take an intervention, as far as the table goes. *)
Moved(s) ==
  {[s EXCEPT !.authorization = "authorized"]} \cup
  {[s EXCEPT !.publication = p, !.activation = a] :
     p \in {"published", "failed", "rolled_back"},
     a \in {"inactive", "active", "disabled"}}

(* The publisher moves an intervention along any other edge of the table.  *)
Publisher(i) ==
  LET s == CurrentState(i)
  IN  \E t \in Moved(s) :
        /\ LegalEdge(s, t)
        /\ Cardinality({k \in DOMAIN stream[i] : stream[i][k].by = "publisher"})
             < MaxPublisherEdges
        /\ stream' = [stream EXCEPT ![i] =
                        Append(@, [from |-> s, to |-> t, by |-> "publisher"])]
        /\ UNCHANGED <<declared, attempts, evaluation, index, executions, pc>>
        /\ UNCHANGED local

-------------------------------------------------------------------------------
Init ==
  /\ declared   = [x \in Experiments |-> Undeclared]
  /\ attempts   = [x \in Experiments |-> [k \in Slots |-> Absent]]
  /\ evaluation = [x \in Experiments |-> NoEvaluation]
  /\ index      = [i \in Interventions |-> << >>]
  /\ stream     = [i \in Interventions |-> << >>]
  /\ executions = [x \in Experiments |-> [k \in Slots |-> 0]]
  /\ pc         = [h \in Hosts |-> "idle"]
  /\ job        = [h \in Hosts |-> AnyExperiment]
  /\ taken      = [h \in Hosts |-> << >>]
  /\ answer     = [h \in Hosts |-> NoOutcome]
  /\ eval       = [h \in Hosts |-> NoEvaluation]
  /\ rev        = [h \in Hosts |-> 0]
  /\ bound      = [h \in Hosts |-> FALSE]
  /\ tries      = [h \in Hosts |-> 0]
  /\ outcome    = [h \in Hosts |-> "none"]

(* The steps of a run in progress.                                         *)
Step(h) ==
  \/ Load(h) \/ Raced(h) \/ Dispatch(h) \/ Execute(h) \/ Complete(h)
  \/ ReadIndex(h) \/ AppendIndex(h) \/ Record(h)
  \/ FoldStream(h) \/ FoldEvaluations(h)
  \/ ReadEdge(h) \/ AppendEdge(h) \/ VerifyEdge(h)

Next ==
  \/ \E x \in Experiments, d \in Designs : Declare(x, d)
  \/ \E h \in Hosts, x \in Experiments : Begin(h, x)
  \/ \E h \in Hosts : Refuse(h) \/ Step(h) \/ Crash(h)
  \/ \E i \in Interventions : Publisher(i)

Spec == Init /\ [][Next]_vars

-------------------------------------------------------------------------------
(***************************************************************************)
(* Properties                                                              *)
(***************************************************************************)

Statuses == {"valid", "not_run", "outcome_unknown", "failed", "rejected",
             "contaminated", "fingerprint_drift", "attestation_mismatch",
             "metric_missing"}

TypeOK ==
  /\ declared \in [Experiments -> Designs \cup {Undeclared}]
  /\ \A x \in Experiments :
       /\ evaluation[x].verdict \in Verdicts \cup {"none"}
       /\ evaluation[x].classes \in Seq(Statuses)
  /\ index \in [Interventions -> Seq(Experiments)]
  /\ \A i \in Interventions : \A k \in DOMAIN stream[i] :
       /\ stream[i][k].from \in InterventionState
       /\ stream[i][k].to \in InterventionState
       /\ stream[i][k].by \in Experiments \cup {"publisher"}
  /\ job \in [Hosts -> Experiments]
  /\ \A h \in Hosts :
       /\ rev[h] \in Nat /\ tries[h] \in 0..MaxAppendAttempts
       /\ pc[h] # "idle" => Design(h) # Undeclared
       /\ pc[h] \in {"load", "raced", "dispatch", "execute", "complete"}
            => Slot(h) \in 1..SlotCount(Design(h))

(* "a dispatched slot ... is never re-executed": whatever hosts race or    *)
(* crash, the executor sees a slot at most once, and only under a durable  *)
(* dispatch record.                                                        *)
ExecutedOnce ==
  \A x \in Experiments, k \in Slots :
    /\ executions[x][k] \in 0..1
    /\ executions[x][k] = 1 => attempts[x][k] # Absent

(* Runs never spend beyond the ceiling together: what the valid attempts   *)
(* cost stays within it, and the budget of an attempt is what the earlier  *)
(* ones left.                                                              *)
SpendBounded ==
  \A x \in Experiments :
    LET d == declared[x]
        n == Cardinality({k \in Slots : attempts[x][k] # Absent})
        upTo(k) == [j \in 1..k |-> attempts[x][j]]
    IN  d # Undeclared /\ d.ceiling # 0 =>
          /\ Spent(d, upTo(n)) <= d.ceiling
          /\ \A k \in 1..n : attempts[x][k].budget + Spent(d, upTo(k - 1)) = d.ceiling

(* An evaluation stands by the journal (parseEvaluationResult, kernel      *)
(* invariant 5): each slot is classified as its durable attempt still      *)
(* reads, unless the run met it in flight; only a fully valid design is    *)
(* judged by the rule; any other slot makes it invalid; only a ceiling     *)
(* stop over a valid prefix is inconclusive with slots not run.            *)
EvaluationFaithful ==
  \A x \in Experiments :
    LET d == declared[x] e == evaluation[x]
        ran == {k \in DOMAIN e.classes : e.classes[k] # "not_run"}
        journal == [k \in DOMAIN e.classes |-> attempts[x][k]]
    IN  Recorded(x) =>
          /\ DOMAIN e.classes = 1..SlotCount(d)
          /\ \A k \in ran : /\ attempts[x][k] # Absent
                            /\ e.classes[k] \in {"outcome_unknown", Classify(d, attempts[x][k])}
                            /\ 1..k \subseteq ran
          /\ e.verdict = "invalid" <=> \E k \in ran : e.classes[k] # "valid"
          /\ e.verdict # "invalid" /\ ran # DOMAIN e.classes =>
               e.verdict = "inconclusive" /\ AtCeiling(d, [k \in ran |-> journal[k]])
          /\ e.verdict # "invalid" /\ ran = DOMAIN e.classes =>
               e.verdict = ReferenceVerdict(d, Analyze(d, Measured(journal)))

(* The index never grows past its bound: loadEvaluationIndex could not     *)
(* read it again, and neither could any fold of the subject.               *)
IndexBounded == \A i \in Interventions : Len(index[i]) <= MaxEvaluations

(* No reader is ever told the store is corrupt by foldRecord: every edge   *)
(* continues the one before it, a validate edge cites a bound evaluation   *)
(* of its verdict, and so did the edges a fold read before it read the     *)
(* evaluations.                                                            *)
FoldsReadable ==
  /\ \A i \in Interventions :
       /\ Readable(i, Len(stream[i]))
       /\ \A k \in DOMAIN stream[i] :
            /\ stream[i][k].from =
                 IF k = 1 THEN InitialState ELSE stream[i][k - 1].to
            /\ LegalEdge(stream[i][k].from, stream[i][k].to)
  /\ \A h \in Hosts :
       pc[h] = "fold_evaluations" => Readable(Subject(h), rev[h])

-------------------------------------------------------------------------------
(***************************************************************************)
(* A statement of the decision records the runs do not meet: "Only the     *)
(* latest indexed evaluation may move the state".  Being the latest is     *)
(* decided from a fold read before the append loop (runRunExperiment), so  *)
(* a run may still append its older verdict after another run of the       *)
(* subject has recorded, and bound, a newer one.                           *)
(***************************************************************************)
LatestMovesValidation ==
  [][\A i \in Interventions, x \in Experiments :
       stream'[i] # stream[i] /\ stream'[i][Len(stream'[i])].by = x => Latest(i, x)]_vars

-------------------------------------------------------------------------------
(***************************************************************************)
(* Liveness                                                                *)
(***************************************************************************)

FairSpec == Spec /\ \A h \in Hosts : WF_vars(Step(h))

(* x has its evaluation, which its subject shows if it is the latest; or   *)
(* it has none, because the index of its subject is full of others.        *)
Settled(x) ==
  LET i == declared[x].subject
  IN  /\ declared[x] # Undeclared
      /\ \/ /\ Recorded(x)
            /\ Latest(i, x) => CurrentState(i).validation = evaluation[x].verdict
         \/ x \notin Range(index[i]) /\ Len(index[i]) >= MaxEvaluations

Retry(h, x) ==
  declared[x] # Undeclared /\ ~Settled(x) /\ Begin(h, x)

(* Faults cease and hosts run again what is not settled.                   *)
RecoverySpec ==
  /\ FairSpec
  /\ <>[][\A h \in Hosts : ~Crash(h) /\ ~Refuse(h)]_vars
  /\ \A h \in Hosts, x \in Experiments : SF_vars(Retry(h, x))

(* Again and again every declared experiment is evaluated and the verdict  *)
(* of the latest evaluation stands on its subject, whatever crashed before. *)
VerdictsBind ==
  []<>(\A x \in Experiments : declared[x] # Undeclared => Settled(x))

===============================================================================
