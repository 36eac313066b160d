--------------------------- MODULE ExperimentProofs ---------------------------
(***************************************************************************)
(* A slot is executed at most once, the index stays within its bound and   *)
(* no fold is ever told that a stream is corrupt, for any designs, hosts   *)
(* and answers of the executor.  The journal, the index, the evaluations   *)
(* and the streams only grow (Grows), so what a run relies on at each of   *)
(* its steps (Standing) survives the steps of the others; what remains is  *)
(* that one run at most is about to execute a slot (OneExecutor) and that  *)
(* each validate edge cites an indexed evaluation (StreamStands).  What    *)
(* the journal holds, what it spent and what was concluded from it follow  *)
(* (JInv); what the decision rule makes of any grading comes last.         *)
(***************************************************************************)
EXTENDS ExperimentGrading, FiniteSetTheorems, WellFoundedInduction, TLAPS

Walking    == {"load", "raced", "dispatch", "execute", "complete"}
Evaluating == {"index_read", "index_append", "record"}
Folding    == {"fold_stream", "fold_evaluations", "edge_read", "edge_append",
               "edge_verify"}

Evaluation == [verdict : Verdicts, classes : Seq(Statuses)]
EdgeRecord == [from : InterventionState, to : InterventionState,
               by : Experiments \cup {"publisher"}]

StoreShape ==
  /\ declared \in [Experiments -> Designs \cup {Undeclared}]
  /\ attempts = [x \in Experiments |-> [k \in Slots |-> attempts[x][k]]]
  /\ evaluation \in [Experiments -> Evaluation \cup {NoEvaluation}]
  /\ index \in [Interventions -> Seq(Experiments)]
  /\ stream \in [Interventions -> Seq(EdgeRecord)]
  /\ executions \in [Experiments -> [Slots -> Nat]]

CallShape ==
  /\ pc \in [Hosts -> {"idle"} \cup Walking \cup Evaluating \cup Folding]
  /\ job \in [Hosts -> Experiments]
  /\ taken = [h \in Hosts |-> taken[h]]
  /\ \A h \in Hosts : taken[h] \in Seq(Range(taken[h]))
  /\ answer = [h \in Hosts |-> answer[h]]
  /\ eval = [h \in Hosts |-> eval[h]]
  /\ rev \in [Hosts -> Nat]
  /\ tries \in [Hosts -> 0..MaxAppendAttempts]

Shape == StoreShape /\ CallShape

StateAt(i, n) == IF n = 0 THEN InitialState ELSE stream[i][n].to

Indexed(i, x) == \E k \in DOMAIN index[i] : index[i][k] = x

(* What a run relies on at each of its steps.                              *)
Standing(h) ==
  LET x == job[h]
      i == Subject(h)
      s == StateAt(i, rev[h])
  IN
  /\ pc[h] = "idle" => taken[h] = << >>
  /\ pc[h] # "idle" => Design(h) # Undeclared
  /\ pc[h] \in Walking => Slot(h) \in 1..SlotCount(Design(h))
  /\ pc[h] = "execute" =>
       attempts[x][Slot(h)] # Absent /\ executions[x][Slot(h)] = 0
  /\ pc[h] = "complete" => answer[h] \in Outcomes
  /\ pc[h] \in Evaluating \cup Folding => eval[h] \in Evaluation
  /\ pc[h] = "index_append" => rev[h] < MaxEvaluations
  /\ pc[h] \in {"record"} \cup Folding => Indexed(i, x)
  /\ pc[h] \in Folding => evaluation[x] = eval[h]
  /\ pc[h] \in {"fold_evaluations", "edge_append"} => rev[h] <= Len(stream[i])
  /\ pc[h] = "edge_append" =>
       Validates(s, [s EXCEPT !.validation = eval[h].verdict])

OneExecutor ==
  \A g, h \in Hosts :
    g # h /\ pc[g] = "execute" /\ pc[h] = "execute" =>
      job[g] # job[h] \/ Slot(g) # Slot(h)

EdgeStands(i, k) ==
  LET e == stream[i][k]
  IN  /\ e.from = StateAt(i, k - 1)
      /\ LegalEdge(e.from, e.to)
      /\ Validates(e.from, e.to) =>
           /\ Indexed(i, e.by)
           /\ evaluation[e.by] \in Evaluation
           /\ evaluation[e.by].verdict = e.to.validation

StreamStands ==
  \A i \in Interventions : \A k \in DOMAIN stream[i] : EdgeStands(i, k)

IInv ==
  /\ Shape /\ \A h \in Hosts : Standing(h)
  /\ OneExecutor /\ ExecutedOnce /\ IndexBounded /\ StreamStands

-------------------------------------------------------------------------------
LEMMA DesignType ==
  ASSUME NEW d \in Designs
  PROVE  /\ d.subject \in Interventions
         /\ SlotCount(d) \in Nat /\ SlotCount(d) >= 1
         /\ 1..SlotCount(d) \subseteq Slots
<1>1. d.episodes \in Nat \ {0} /\ d.repetitions \in Nat \ {0}
  BY DesignsAssumption
<1>2. \A m, n \in Nat \ {0} : 2 * m * n \in Nat /\ 2 * m * n >= 1
  OBVIOUS
<1> QED
  BY <1>1, <1>2, DesignsAssumption DEF SlotCount, Slots

(* Whatever an attempt holds, it has one of the statuses; whatever was     *)
(* measured, the rule has one of the verdicts.                             *)
LEMMA ClassifyType == ASSUME NEW d, NEW a PROVE Classify(d, a) \in Statuses
BY DEF Classify, Statuses

LEMMA IsASeq ==
  ASSUME NEW n \in Nat, NEW S, NEW t \in [1..n -> S]
  PROVE  t \in Seq(S) /\ Len(t) = n
OBVIOUS

LEMMA SeqIsFunction ==
  ASSUME NEW S, NEW t \in Seq(S)
  PROVE  t \in [1..Len(t) -> S] /\ Len(t) \in Nat
OBVIOUS

LEMMA EvaluateType ==
  ASSUME NEW d \in Designs, NEW as
  PROVE  Evaluate(d, as) \in Evaluation
<1>1. \A m : ReferenceVerdict(d, m) \in Verdicts
  BY DEF ReferenceVerdict, Verdicts
<1>2. Verdict(d, as) \in Verdicts
  BY <1>1 DEF Verdict, Verdicts
<1>3. \A k : (IF k \in DOMAIN as THEN Classify(d, as[k]) ELSE "not_run") \in Statuses
  BY ClassifyType DEF Statuses
<1>4. Classes(d, as) \in [1..SlotCount(d) -> Statuses]
  BY <1>3 DEF Classes
<1>5. Classes(d, as) \in Seq(Statuses)
  BY <1>4, DesignType, IsASeq DEF Classes
<1> QED
  BY <1>2, <1>5 DEF Evaluate, Evaluation

LEMMA AppendType ==
  ASSUME NEW s, s \in Seq(Range(s)), NEW a
  PROVE  /\ Append(s, a) \in Seq(Range(Append(s, a)))
         /\ Len(Append(s, a)) = Len(s) + 1 /\ Len(s) \in Nat
<1> DEFINE S == Range(s) \cup {a}
           t == Append(s, a)
<1>1. s \in Seq(S)
  <2>1. s \in [1..Len(s) -> Range(s)] /\ Len(s) \in Nat
    OBVIOUS
  <2> QED
    BY <2>1
<1>2. t \in Seq(S) /\ Len(t) = Len(s) + 1 /\ Len(s) \in Nat
  BY <1>1
<1> HIDE DEF t
<1>3. t \in [1..Len(t) -> S] /\ Len(t) \in Nat
  BY <1>2, SeqIsFunction
<1>4. t \in [1..Len(t) -> Range(t)]
  BY <1>3 DEF Range
<1>5. t \in Seq(Range(t))
  BY <1>3, <1>4
<1> QED
  BY <1>2, <1>5 DEF t

LEMMA NoVerdict == NoEvaluation \notin Evaluation
BY DEF NoEvaluation, Evaluation, Verdicts

LEMMA DispatchedIsPresent ==
  /\ \A h : Dispatched(h) # Absent
  /\ \A o \in Outcomes : \A b : [status |-> o.status, result |-> o, budget |-> b] # Absent
BY DEF Dispatched, Absent

-------------------------------------------------------------------------------
LEMMA ExceptShape ==
  ASSUME NEW S, NEW f, f = [x \in S |-> f[x]], NEW a, NEW b
  PROVE  [f EXCEPT ![a] = b] = [x \in S |-> [f EXCEPT ![a] = b][x]]
OBVIOUS

LEMMA FinishShape ==
  ASSUME CallShape, NEW h \in Hosts, NEW o, Finish(h, o)
  PROVE  CallShape'
<1>1. AnyExperiment \in Experiments
  BY ExperimentsAssumption DEF AnyExperiment
<1>2. << >> \in Seq(Range(<< >>))
  OBVIOUS
<1>3. /\ taken' = [hh \in Hosts |-> taken'[hh]]
      /\ \A g \in Hosts : taken'[g] \in Seq(Range(taken'[g]))
  <2>1. taken'[h] = << >> /\ \A g \in Hosts \ {h} : taken'[g] = taken[g]
    BY DEF Finish, CallShape
  <2>2. ASSUME NEW g \in Hosts PROVE taken'[g] \in Seq(Range(taken'[g]))
    <3>1. CASE g = h
      BY <1>2, <2>1, <3>1
    <3>2. CASE g # h
      BY <2>1, <3>2 DEF CallShape
    <3> QED
      BY <3>1, <3>2
  <2> QED
    BY <2>2 DEF Finish, CallShape
<1>4. /\ pc' \in [Hosts -> {"idle"} \cup Walking \cup Evaluating \cup Folding]
      /\ job' \in [Hosts -> Experiments]
      /\ answer' = [hh \in Hosts |-> answer'[hh]]
      /\ eval' = [hh \in Hosts |-> eval'[hh]]
      /\ rev' \in [Hosts -> Nat] /\ tries' \in [Hosts -> 0..MaxAppendAttempts]
  <2>1. pc' = [pc EXCEPT ![h] = "idle"] /\ job' = [job EXCEPT ![h] = AnyExperiment]
        /\ rev' = [rev EXCEPT ![h] = 0] /\ tries' = [tries EXCEPT ![h] = 0]
    BY DEF Finish, Goto
  <2>2. 0 \in 0..MaxAppendAttempts
    BY BoundsAssumption
  <2>3. answer' = [hh \in Hosts |-> answer'[hh]]
    BY ExceptShape DEF CallShape, Finish
  <2>4. eval' = [hh \in Hosts |-> eval'[hh]]
    BY ExceptShape DEF CallShape, Finish
  <2> QED
    BY <1>1, <2>1, <2>2, <2>3, <2>4 DEF CallShape
<1> QED
  BY <1>3, <1>4 DEF CallShape

LEMMA ConflictShape ==
  ASSUME CallShape, NEW h \in Hosts, NEW step \in Evaluating \cup Folding, Conflict(h, step)
  PROVE  CallShape'
<1>1. CASE Finish(h, "store.conflict")
  BY <1>1, FinishShape
<1>2. CASE ~Finish(h, "store.conflict")
  <2>1. /\ tries[h] + 1 < MaxAppendAttempts /\ tries[h] \in Nat
        /\ pc' = [pc EXCEPT ![h] = step] /\ tries' = [tries EXCEPT ![h] = tries[h] + 1]
        /\ UNCHANGED <<job, taken, answer, eval, rev>>
    BY <1>2 DEF Conflict, CallShape, Goto
  <2>2. tries[h] + 1 \in 0..MaxAppendAttempts
    BY <2>1, BoundsAssumption
  <2> QED
    BY <2>1, <2>2 DEF CallShape
<1> QED
  BY <1>1, <1>2

(* A run walks a slot: the next one is within the design.                  *)
LEMMA WalkShape ==
  ASSUME CallShape, NEW h \in Hosts, NEW a, Walk(h, a),
         UNCHANGED <<job, rev, tries>>, answer' = [hh \in Hosts |-> answer'[hh]]
  PROVE  CallShape'
<1>1. taken[h] \in Seq(Range(taken[h]))
  BY DEF CallShape
<1>2. Append(taken[h], a) \in Seq(Range(Append(taken[h], a)))
  BY <1>1, AppendType
<1>3. /\ taken' = [hh \in Hosts |-> taken'[hh]]
      /\ \A g \in Hosts : taken'[g] \in Seq(Range(taken'[g]))
  <2>1. taken' = [taken EXCEPT ![h] = Append(taken[h], a)]
    BY DEF Walk
  <2>2. taken'[h] = Append(taken[h], a) /\ \A g \in Hosts \ {h} : taken'[g] = taken[g]
    BY <2>1 DEF CallShape
  <2>3. ASSUME NEW g \in Hosts PROVE taken'[g] \in Seq(Range(taken'[g]))
    <3>1. CASE g = h
      BY <1>2, <2>2, <3>1
    <3>2. CASE g # h
      BY <2>2, <3>2 DEF CallShape
    <3> QED
      BY <3>1, <3>2
  <2> QED
    BY <2>1, <2>3 DEF CallShape
<1>4. /\ pc' \in [Hosts -> {"idle"} \cup Walking \cup Evaluating \cup Folding]
      /\ eval' = [hh \in Hosts |-> eval'[hh]]
  BY DEF Walk, Finalize, Goto, CallShape, Walking, Evaluating
<1> QED
  BY <1>3, <1>4 DEF CallShape

LEMMA CallShapeStep ==
  ASSUME Shape, NEW h \in Hosts, Standing(h), Refuse(h) \/ Step(h) \/ Crash(h)
  PROVE  CallShape'
<1> USE DEF Shape
<1>1. CASE Load(h)
  <2>1. CASE Walk(h, attempts[job[h]][Slot(h)])
    <3>1. UNCHANGED <<job, rev, tries, answer>>
      BY <1>1 DEF Load
    <3>2. answer' = [hh \in Hosts |-> answer'[hh]]
      BY <3>1 DEF CallShape
    <3> QED
      BY <2>1, <3>1, <3>2, WalkShape
  <2>2. CASE ~Walk(h, attempts[job[h]][Slot(h)])
    BY <1>1, <2>2 DEF Load, Goto, CallShape, Walking
  <2> QED
    BY <2>1, <2>2
<1>2. CASE Raced(h)
  <2>1. eval' = [hh \in Hosts |-> eval'[hh]]
    BY <1>2, ExceptShape DEF Raced, Finalize, CallShape
  <2> QED
    BY <1>2, <2>1 DEF Raced, Finalize, Goto, CallShape, Walking, Evaluating
<1>3. CASE Dispatch(h)
  BY <1>3 DEF Dispatch, Goto, CallShape, Walking, local
<1>4. CASE Execute(h)
  <2>1. answer' = [hh \in Hosts |-> answer'[hh]]
    BY <1>4, ExceptShape DEF Execute, CallShape
  <2> QED
    BY <1>4, <2>1 DEF Execute, Goto, CallShape, Walking
<1>5. CASE Complete(h)
  <2>1. answer' = [hh \in Hosts |-> answer'[hh]]
    BY <1>5, ExceptShape DEF Complete, CallShape
  <2> QED
    BY <1>5, <2>1, WalkShape DEF Complete
<1>6. CASE ReadIndex(h)
  <2>1. CASE Finish(h, "limit_exceeded")
    BY <2>1, FinishShape
  <2>2. CASE ~Finish(h, "limit_exceeded")
    <3>1. 0 \in 0..MaxAppendAttempts
      BY BoundsAssumption
    <3>2. index[Subject(h)] \in Seq(Experiments)
      <4>1. Design(h) \in Designs
        BY <1>6 DEF ReadIndex, Standing, StoreShape, CallShape, Design
      <4> QED
        BY <4>1, DesignType DEF StoreShape, Subject
    <3>3. Len(index[Subject(h)]) \in Nat
      BY <3>2
    <3> QED
      BY <1>6, <2>2, <3>1, <3>3 DEF ReadIndex, Goto, CallShape, Evaluating
  <2> QED
    BY <2>1, <2>2
<1>7. CASE AppendIndex(h)
  <2>1. CASE Conflict(h, "index_read")
    BY <2>1, ConflictShape DEF Evaluating
  <2>2. CASE ~Conflict(h, "index_read")
    <3>1. 0 \in 0..MaxAppendAttempts
      BY BoundsAssumption
    <3>2. /\ pc' = [pc EXCEPT ![h] = "record"] /\ rev' = [rev EXCEPT ![h] = 0]
          /\ tries' = [tries EXCEPT ![h] = 0]
          /\ UNCHANGED <<job, taken, answer, eval>>
      BY <1>7, <2>2 DEF AppendIndex, Goto
    <3> QED
      BY <3>1, <3>2 DEF CallShape, Evaluating
  <2> QED
    BY <2>1, <2>2
<1>8. CASE Record(h)
  <2>1. eval' = [hh \in Hosts |-> eval'[hh]]
    <3>1. PICK e : eval' = [eval EXCEPT ![h] = e]
      BY <1>8 DEF Record
    <3> QED
      BY <3>1, ExceptShape DEF CallShape
  <2> QED
    BY <1>8, <2>1 DEF Record, Goto, CallShape, Folding
<1>9. CASE FoldStream(h) \/ ReadEdge(h)
  <2>1. Subject(h) \in Interventions
    <3>1. Design(h) \in Designs
      BY <1>9 DEF FoldStream, ReadEdge, Standing, StoreShape, CallShape, Design
    <3> QED
      BY <3>1, DesignType DEF Subject
  <2>2. Len(stream[Subject(h)]) \in Nat
    BY <2>1 DEF StoreShape
  <2>3. CASE Finish(h, "returned")
    BY <2>3, FinishShape
  <2>4. CASE ~Finish(h, "returned")
    BY <1>9, <2>2, <2>4 DEF FoldStream, ReadEdge, Goto, CallShape, Folding
  <2> QED
    BY <2>3, <2>4
<1>10. CASE FoldEvaluations(h)
  <2>1. CASE \E o : Finish(h, o)
    BY <2>1, FinishShape
  <2>2. CASE ~\E o : Finish(h, o)
    BY <1>10, <2>2 DEF FoldEvaluations, Goto, CallShape, Folding, local
  <2> QED
    BY <2>1, <2>2
<1>11. CASE AppendEdge(h)
  <2>1. CASE Conflict(h, "edge_read")
    BY <2>1, ConflictShape DEF Folding
  <2>2. CASE ~Conflict(h, "edge_read")
    BY <1>11, <2>2 DEF AppendEdge, Goto, CallShape, Folding, local
  <2> QED
    BY <2>1, <2>2
<1>12. CASE VerifyEdge(h) \/ Refuse(h) \/ Crash(h)
  BY <1>12, FinishShape DEF VerifyEdge, Refuse, Crash
<1> QED
  BY <1>1, <1>2, <1>3, <1>4, <1>5, <1>6, <1>7, <1>8, <1>9, <1>10, <1>11, <1>12 DEF Step

LEMMA BeginShape ==
  ASSUME CallShape, NEW h \in Hosts, NEW x \in Experiments, Begin(h, x)
  PROVE  CallShape'
<1>1. eval' = [hh \in Hosts |-> eval'[hh]]
  BY ExceptShape DEF Begin, Finalize, CallShape
<1> QED
  BY <1>1 DEF Begin, Finalize, Goto, CallShape, Walking, Evaluating

-------------------------------------------------------------------------------
(* The subject of a run that is in progress.                               *)
LEMMA DesignOf ==
  ASSUME Shape, NEW h \in Hosts, Standing(h), pc[h] # "idle"
  PROVE  /\ Design(h) \in Designs /\ Subject(h) \in Interventions
         /\ job[h] \in Experiments /\ declared[job[h]] = Design(h)
         /\ declared[job[h]] # Undeclared
<1>1. Design(h) \in Designs
  BY DEF Standing, Shape, StoreShape, CallShape, Design
<1> QED
  BY <1>1, DesignType DEF Subject, Standing, Shape, CallShape, Design

LEMMA SlotOf ==
  ASSUME Shape, NEW h \in Hosts, Standing(h), pc[h] \in Walking
  PROVE  Slot(h) \in Slots /\ Slot(h) \in Nat
<1>1. Design(h) \in Designs /\ Slot(h) \in 1..SlotCount(Design(h))
  BY DesignOf DEF Standing, Walking
<1> QED
  BY <1>1, DesignType

(* A journaled attempt.                                                    *)
LEMMA JournalShape ==
  ASSUME Shape, NEW h \in Hosts, Standing(h), pc[h] \in Walking, NEW a, Journal(h, a)
  PROVE  /\ attempts' = [x \in Experiments |-> [k \in Slots |-> attempts'[x][k]]]
         /\ attempts'[job[h]][Slot(h)] = a
         /\ \A x \in Experiments, k \in Slots :
              x # job[h] \/ k # Slot(h) => attempts'[x][k] = attempts[x][k]
<1>1. job[h] \in Experiments /\ Slot(h) \in Slots
  BY SlotOf, DesignOf DEF Walking
<1> DEFINE x == job[h]
           k == Slot(h)
           row == [attempts[x] EXCEPT ![k] = a]
<1>2. attempts' = [attempts EXCEPT ![x] = row]
  BY DEF Journal
<1>3. attempts = [y \in Experiments |-> [l \in Slots |-> attempts[y][l]]]
  BY DEF Shape, StoreShape
<1>4. attempts[x] = [l \in Slots |-> attempts[x][l]]
  BY <1>1, <1>3
<1>5. row = [l \in Slots |-> row[l]] /\ row[k] = a
      /\ \A l \in Slots : l # k => row[l] = attempts[x][l]
  BY <1>1, <1>4
<1> HIDE DEF row, x, k
<1>6. attempts'[x] = row /\ \A y \in Experiments : y # x => attempts'[y] = attempts[y]
  BY <1>1, <1>2, <1>3 DEF x
<1>7. attempts' = [y \in Experiments |-> attempts'[y]]
  BY <1>2, <1>3, ExceptShape
<1>8. \A y \in Experiments : attempts'[y] = [l \in Slots |-> attempts'[y][l]]
  BY <1>3, <1>5, <1>6
<1>9. attempts' = [y \in Experiments |-> [l \in Slots |-> attempts'[y][l]]]
  BY <1>7, <1>8
<1> QED
  BY <1>5, <1>6, <1>9 DEF x, k

LEMMA ReadIndexed ==
  ASSUME Shape, NEW i \in Interventions, NEW x \in Experiments
  PROVE  x \in Range(index[i]) <=> Indexed(i, x)
BY DEF Range, Indexed

(* The store only grows.                                                   *)
Grows ==
  /\ \A x \in Experiments :
       /\ declared[x] # Undeclared => declared'[x] = declared[x]
       /\ evaluation[x] # NoEvaluation => evaluation'[x] = evaluation[x]
       /\ \A k \in Slots : attempts[x][k] # Absent => attempts'[x][k] # Absent
  /\ \A i \in Interventions :
       /\ Len(index[i]) <= Len(index'[i]) /\ Len(stream[i]) <= Len(stream'[i])
       /\ \A k \in DOMAIN index[i] : k \in DOMAIN index'[i] /\ index'[i][k] = index[i][k]
       /\ \A k \in DOMAIN stream[i] : k \in DOMAIN stream'[i] /\ stream'[i][k] = stream[i][k]

Kept ==
  UNCHANGED <<declared, attempts, evaluation, index, stream, executions>>

LEMMA KeptGrows ==
  ASSUME Shape, Kept
  PROVE  StoreShape' /\ Grows
<1>1. StoreShape'
  BY DEF Shape, StoreShape, Kept
<1>2. \A i \in Interventions : Len(index[i]) \in Nat /\ Len(stream[i]) \in Nat
  BY DEF Shape, StoreShape
<1> QED
  BY <1>1, <1>2 DEF Grows, Kept

(* The steps of a run that write nothing.                                  *)
LEMMA ReadsKeep ==
  ASSUME NEW h \in Hosts,
         \/ \E x \in Experiments : Begin(h, x)
         \/ Refuse(h) \/ Load(h) \/ Raced(h) \/ ReadIndex(h) \/ FoldStream(h)
         \/ FoldEvaluations(h) \/ ReadEdge(h) \/ VerifyEdge(h) \/ Crash(h)
  PROVE  Kept
BY DEF Begin, Refuse, Load, Raced, ReadIndex, FoldStream, FoldEvaluations, ReadEdge,
   VerifyEdge, Crash, Kept, store

LEMMA DeclareGrows ==
  ASSUME Shape, NEW x \in Experiments, NEW d \in Designs, Declare(x, d)
  PROVE  StoreShape' /\ Grows
<1>1. declared' \in [Experiments -> Designs \cup {Undeclared}]
  BY DEF Declare, Shape, StoreShape
<1>2. \A y \in Experiments : declared[y] # Undeclared => declared'[y] = declared[y]
  BY DEF Declare, Shape, StoreShape
<1>3. UNCHANGED <<attempts, evaluation, index, stream, executions>>
  BY DEF Declare
<1>4. \A i \in Interventions : Len(index[i]) \in Nat /\ Len(stream[i]) \in Nat
  BY DEF Shape, StoreShape
<1> QED
  BY <1>1, <1>2, <1>3, <1>4 DEF Grows, Shape, StoreShape

LEMMA DispatchGrows ==
  ASSUME Shape, NEW h \in Hosts, Standing(h), Dispatch(h)
  PROVE  StoreShape' /\ Grows
<1>1. \A i \in Interventions : Len(index[i]) \in Nat /\ Len(stream[i]) \in Nat
  BY DEF Shape, StoreShape
<1>2. CASE attempts' = attempts
  BY <1>1, <1>2, KeptGrows DEF Dispatch, Kept
<1>3. CASE Journal(h, Dispatched(h))
  <2>1. pc[h] \in Walking
    BY DEF Dispatch, Walking
  <2>2. /\ attempts' = [x \in Experiments |-> [k \in Slots |-> attempts'[x][k]]]
        /\ attempts'[job[h]][Slot(h)] = Dispatched(h)
        /\ \A x \in Experiments, k \in Slots :
              x # job[h] \/ k # Slot(h) => attempts'[x][k] = attempts[x][k]
    BY <1>3, <2>1, JournalShape
  <2>3. UNCHANGED <<declared, evaluation, index, stream, executions>>
    BY DEF Dispatch
  <2>4. StoreShape'
    BY <2>2, <2>3 DEF Shape, StoreShape
  <2> QED
    BY <1>1, <2>2, <2>3, <2>4, DispatchedIsPresent DEF Grows
<1> QED
  BY <1>2, <1>3 DEF Dispatch

LEMMA CompleteGrows ==
  ASSUME Shape, NEW h \in Hosts, Standing(h), Complete(h)
  PROVE  StoreShape' /\ Grows
<1>1. \A i \in Interventions : Len(index[i]) \in Nat /\ Len(stream[i]) \in Nat
  BY DEF Shape, StoreShape
<1> DEFINE a == [status |-> answer[h].status, result |-> answer[h],
                 budget |-> Budget(Design(h), taken[h])]
<1>2. pc[h] \in Walking /\ answer[h] \in Outcomes /\ Journal(h, a)
      /\ UNCHANGED <<declared, evaluation, index, stream, executions>>
  BY DEF Complete, Walking, Standing
<1>3. a # Absent
  BY <1>2, DispatchedIsPresent
<1> HIDE DEF a
<1>4. /\ attempts' = [x \in Experiments |-> [k \in Slots |-> attempts'[x][k]]]
      /\ attempts'[job[h]][Slot(h)] = a
      /\ \A x \in Experiments, k \in Slots :
            x # job[h] \/ k # Slot(h) => attempts'[x][k] = attempts[x][k]
  BY <1>2, JournalShape
<1>5. StoreShape'
  BY <1>2, <1>4 DEF Shape, StoreShape
<1> QED
  BY <1>1, <1>2, <1>3, <1>4, <1>5 DEF Grows

LEMMA ExecuteGrows ==
  ASSUME Shape, NEW h \in Hosts, Standing(h), Execute(h)
  PROVE  /\ StoreShape' /\ Grows /\ pc[h] = "execute" /\ UNCHANGED store
         /\ executions'[job[h]][Slot(h)] = executions[job[h]][Slot(h)] + 1
         /\ \A x \in Experiments, k \in Slots :
              x # job[h] \/ k # Slot(h) => executions'[x][k] = executions[x][k]
<1>1. \A i \in Interventions : Len(index[i]) \in Nat /\ Len(stream[i]) \in Nat
  BY DEF Shape, StoreShape
<1>2. pc[h] \in Walking /\ pc[h] = "execute" /\ UNCHANGED store
  BY DEF Execute, Walking
<1>3. job[h] \in Experiments /\ Slot(h) \in Slots
  BY <1>2, SlotOf, DesignOf DEF Walking
<1>4. executions' = [executions EXCEPT ![job[h]][Slot(h)] = @ + 1]
  BY DEF Execute
<1>5. /\ executions' \in [Experiments -> [Slots -> Nat]]
      /\ executions'[job[h]][Slot(h)] = executions[job[h]][Slot(h)] + 1
      /\ \A x \in Experiments, k \in Slots :
              x # job[h] \/ k # Slot(h) => executions'[x][k] = executions[x][k]
  BY <1>3, <1>4 DEF Shape, StoreShape
<1> QED
  BY <1>1, <1>2, <1>5 DEF Shape, StoreShape, Grows, store

LEMMA AppendIndexGrows ==
  ASSUME Shape, NEW h \in Hosts, Standing(h), AppendIndex(h)
  PROVE  /\ StoreShape' /\ Grows
         /\ pc[h] = "index_append"
         /\ UNCHANGED <<declared, attempts, evaluation, stream, executions>>
         /\ \/ index' = index
            \/ /\ Len(index[Subject(h)]) = rev[h]
               /\ index' = [index EXCEPT ![Subject(h)] = Append(@, job[h])]
<1>1. \A i \in Interventions : Len(index[i]) \in Nat /\ Len(stream[i]) \in Nat
  BY DEF Shape, StoreShape
<1>2. pc[h] = "index_append"
      /\ UNCHANGED <<declared, attempts, evaluation, stream, executions>>
  BY DEF AppendIndex
<1>3. Subject(h) \in Interventions /\ job[h] \in Experiments
  BY <1>2, DesignOf
<1>4. CASE index' = index
  BY <1>1, <1>2, <1>4, KeptGrows DEF Kept
<1>5. CASE /\ Len(index[Subject(h)]) = rev[h]
           /\ index' = [index EXCEPT ![Subject(h)] = Append(@, job[h])]
  <2> DEFINE i == Subject(h)
  <2>1. index[i] \in Seq(Experiments)
    BY <1>3 DEF Shape, StoreShape
  <2>2. /\ index'[i] = Append(index[i], job[h])
        /\ \A j \in Interventions : j # i => index'[j] = index[j]
    BY <1>3, <1>5 DEF Shape, StoreShape
  <2>3. /\ Append(index[i], job[h]) \in Seq(Experiments)
        /\ Len(Append(index[i], job[h])) = Len(index[i]) + 1
        /\ \A k \in DOMAIN index[i] : /\ k \in DOMAIN Append(index[i], job[h])
                                      /\ Append(index[i], job[h])[k] = index[i][k]
    BY <2>1, <1>3
  <2>4. index' \in [Interventions -> Seq(Experiments)]
    BY <1>5, <2>3 DEF Shape, StoreShape
  <2> HIDE DEF i
  <2>5. \A j \in Interventions :
          /\ Len(index[j]) <= Len(index'[j])
          /\ \A k \in DOMAIN index[j] : k \in DOMAIN index'[j] /\ index'[j][k] = index[j][k]
    BY <1>1, <2>2, <2>3
  <2> QED
    BY <1>1, <1>2, <1>5, <2>4, <2>5 DEF Shape, StoreShape, Grows
<1>6. \/ index' = index
      \/ /\ Len(index[Subject(h)]) = rev[h]
         /\ index' = [index EXCEPT ![Subject(h)] = Append(@, job[h])]
  <2>1. index = [index EXCEPT ![Subject(h)] = index[Subject(h)]]
    BY DEF Shape, StoreShape
  <2> QED
    BY <2>1 DEF AppendIndex
<1> QED
  BY <1>2, <1>4, <1>5, <1>6

LEMMA RecordGrows ==
  ASSUME Shape, NEW h \in Hosts, Standing(h), Record(h)
  PROVE  /\ StoreShape' /\ Grows
         /\ pc[h] = "record" /\ evaluation'[job[h]] \in Evaluation
         /\ UNCHANGED <<declared, attempts, index, stream, executions>>
<1>1. \A i \in Interventions : Len(index[i]) \in Nat /\ Len(stream[i]) \in Nat
  BY DEF Shape, StoreShape
<1>2. pc[h] = "record" /\ UNCHANGED <<declared, attempts, index, stream, executions>>
  BY DEF Record
<1>3. job[h] \in Experiments /\ eval[h] \in Evaluation
  BY <1>2, DesignOf DEF Standing, Evaluating
<1>4. evaluation' = [evaluation EXCEPT ![job[h]] =
                       IF Recorded(job[h]) THEN evaluation[job[h]] ELSE eval[h]]
  BY DEF Record
<1>5. /\ evaluation'[job[h]] = IF Recorded(job[h]) THEN evaluation[job[h]] ELSE eval[h]
      /\ \A x \in Experiments : x # job[h] => evaluation'[x] = evaluation[x]
  BY <1>3, <1>4 DEF Shape, StoreShape
<1>6. evaluation'[job[h]] \in Evaluation
  BY <1>3, <1>5 DEF Recorded, Shape, StoreShape
<1>7. evaluation' \in [Experiments -> Evaluation \cup {NoEvaluation}]
  BY <1>3, <1>4 DEF Shape, StoreShape
<1>8. \A x \in Experiments : evaluation[x] # NoEvaluation => evaluation'[x] = evaluation[x]
  BY <1>5 DEF Recorded
<1> QED
  BY <1>1, <1>2, <1>6, <1>7, <1>8 DEF Shape, StoreShape, Grows

(* An edge appended to the stream of an intervention.                      *)
LEMMA EdgeGrows ==
  ASSUME Shape, NEW i \in Interventions, NEW e \in EdgeRecord,
         stream' = [stream EXCEPT ![i] = Append(@, e)],
         UNCHANGED <<declared, attempts, evaluation, index, executions>>
  PROVE  /\ StoreShape' /\ Grows
         /\ Len(stream'[i]) = Len(stream[i]) + 1
         /\ stream'[i][Len(stream[i]) + 1] = e
         /\ \A j \in Interventions : j # i => stream'[j] = stream[j]
<1>1. \A j \in Interventions : Len(index[j]) \in Nat /\ Len(stream[j]) \in Nat
  BY DEF Shape, StoreShape
<1>2. stream[i] \in Seq(EdgeRecord)
  BY DEF Shape, StoreShape
<1>3. /\ stream'[i] = Append(stream[i], e)
      /\ \A j \in Interventions : j # i => stream'[j] = stream[j]
  BY DEF Shape, StoreShape
<1>4. /\ Append(stream[i], e) \in Seq(EdgeRecord)
      /\ Len(Append(stream[i], e)) = Len(stream[i]) + 1
      /\ Append(stream[i], e)[Len(stream[i]) + 1] = e
      /\ \A k \in DOMAIN stream[i] : /\ k \in DOMAIN Append(stream[i], e)
                                     /\ Append(stream[i], e)[k] = stream[i][k]
  BY <1>2
<1>5. stream' \in [Interventions -> Seq(EdgeRecord)]
  BY <1>4 DEF Shape, StoreShape
<1>6. \A j \in Interventions :
        /\ Len(stream[j]) <= Len(stream'[j])
        /\ \A k \in DOMAIN stream[j] : k \in DOMAIN stream'[j] /\ stream'[j][k] = stream[j][k]
  BY <1>1, <1>3, <1>4
<1>7. StoreShape'
  BY <1>5 DEF Shape, StoreShape
<1> QED
  BY <1>1, <1>3, <1>4, <1>6, <1>7 DEF Grows

(* The state a stream ends in is a valid one.                              *)
LEMMA CurrentType ==
  ASSUME Shape, StreamStands, NEW i \in Interventions
  PROVE  /\ CurrentState(i) \in InterventionState /\ ValidState(CurrentState(i))
         /\ CurrentState(i) = StateAt(i, Len(stream[i]))
<1>1. stream[i] \in Seq(EdgeRecord)
  BY DEF Shape, StoreShape
<1>2. CASE stream[i] = << >>
  BY <1>2 DEF CurrentState, StateAt, InitialState, InterventionState, ValidState
<1>3. CASE stream[i] # << >>
  <2>1. Len(stream[i]) \in DOMAIN stream[i] /\ Len(stream[i]) # 0
    BY <1>1, <1>3
  <2>2. EdgeStands(i, Len(stream[i])) /\ stream[i][Len(stream[i])] \in EdgeRecord
    BY <1>1, <2>1 DEF StreamStands
  <2> QED
    BY <1>3, <2>1, <2>2 DEF CurrentState, StateAt, EdgeStands, LegalEdge, EdgeRecord
<1> QED
  BY <1>2, <1>3

LEMMA IndexedType ==
  ASSUME Shape, NEW i \in Interventions, NEW x, Indexed(i, x)
  PROVE  x \in Experiments
<1>1. index[i] \in Seq(Experiments)
  BY DEF Shape, StoreShape
<1> QED
  BY <1>1 DEF Indexed

LEMMA IndexedStays ==
  ASSUME Grows, NEW i \in Interventions, NEW x, Indexed(i, x)
  PROVE  \E k \in DOMAIN index'[i] : index'[i][k] = x
BY DEF Grows, Indexed

(* An edge that stands goes on standing.                                   *)
LEMMA EdgeStays ==
  ASSUME Shape, Grows, NEW i \in Interventions, NEW k \in DOMAIN stream[i], EdgeStands(i, k)
  PROVE  EdgeStands(i, k)'
<1> DEFINE e == stream[i][k]
<1>1. stream[i] \in Seq(EdgeRecord) /\ k \in 1..Len(stream[i]) /\ Len(stream[i]) \in Nat
  BY DEF Shape, StoreShape
<1>2. stream'[i][k] = e
  BY DEF Grows
<1>3. k - 1 = 0 \/ k - 1 \in DOMAIN stream[i]
  BY <1>1
<1>4. (IF k - 1 = 0 THEN InitialState ELSE stream'[i][k - 1].to) = StateAt(i, k - 1)
  BY <1>3 DEF StateAt, Grows
<1>5. ASSUME Validates(e.from, e.to)
      PROVE  /\ \E l \in DOMAIN index'[i] : index'[i][l] = e.by
             /\ evaluation'[e.by] \in Evaluation
             /\ evaluation'[e.by].verdict = e.to.validation
  <2>1. Indexed(i, e.by) /\ evaluation[e.by] \in Evaluation
        /\ evaluation[e.by].verdict = e.to.validation
    BY <1>5 DEF EdgeStands
  <2>2. e.by \in Experiments /\ evaluation'[e.by] = evaluation[e.by]
    BY <2>1, IndexedType, NoVerdict DEF Grows
  <2> QED
    BY <2>1, <2>2, IndexedStays
<1>6. e.from = StateAt(i, k - 1) /\ LegalEdge(e.from, e.to)
  BY DEF EdgeStands
<1> HIDE DEF e
<1> QED
  BY <1>2, <1>4, <1>5, <1>6 DEF EdgeStands, StateAt, Indexed

LEMMA StreamStays ==
  ASSUME Shape, Grows, StreamStands, stream' = stream
  PROVE  StreamStands'
BY EdgeStays DEF StreamStands

(* A stream stands when its new edge does.                                 *)
LEMMA StreamExtends ==
  ASSUME Shape, StreamStands, NEW i \in Interventions, NEW e \in EdgeRecord,
         stream' = [stream EXCEPT ![i] = Append(@, e)],
         UNCHANGED <<declared, attempts, evaluation, index, executions>>,
         e.from = CurrentState(i), LegalEdge(e.from, e.to),
         Validates(e.from, e.to) =>
           /\ Indexed(i, e.by)
           /\ evaluation[e.by] \in Evaluation
           /\ evaluation[e.by].verdict = e.to.validation
  PROVE  StreamStands'
<1>1. PICK n : n = Len(stream[i])
  OBVIOUS
<1>2. n \in Nat /\ DOMAIN stream[i] = 1..n
  BY <1>1 DEF Shape, StoreShape
<1>3. /\ Grows /\ Len(stream'[i]) = n + 1 /\ stream'[i][n + 1] = e
      /\ \A j \in Interventions : j # i => stream'[j] = stream[j]
      /\ stream'[i] \in Seq(EdgeRecord)
  BY <1>1, EdgeGrows DEF StoreShape
<1>4. DOMAIN stream'[i] = 1..(n + 1)
  BY <1>3
<1>5. EdgeStands(i, n + 1)'
  <2>1. CurrentState(i) = StateAt(i, n)
    BY <1>1, CurrentType
  <2>2. (IF n = 0 THEN InitialState ELSE stream'[i][n].to) = StateAt(i, n)
    BY <1>2, <1>3 DEF StateAt, Grows
  <2>3. (n + 1) - 1 = n
    BY <1>2
  <2> QED
    BY <1>3, <2>1, <2>2, <2>3 DEF EdgeStands, StateAt, Indexed
<1>6. ASSUME NEW j \in Interventions, NEW k \in DOMAIN stream'[j]
      PROVE  EdgeStands(j, k)'
  <2>1. k \in DOMAIN stream[j] \/ (j = i /\ k = n + 1)
    BY <1>2, <1>3, <1>4
  <2>2. CASE k \in DOMAIN stream[j]
    BY <1>3, <2>2, EdgeStays DEF StreamStands
  <2> QED
    BY <1>5, <2>1, <2>2
<1> QED
  BY <1>6 DEF StreamStands

LEMMA PublisherStep ==
  ASSUME Shape, StreamStands, NEW i \in Interventions, Publisher(i)
  PROVE  StoreShape' /\ Grows /\ StreamStands' /\ UNCHANGED <<pc, local>>
         /\ UNCHANGED <<declared, attempts, evaluation, index, executions>>
<1> DEFINE s == CurrentState(i)
<1>1. PICK t \in Moved(s) :
        /\ LegalEdge(s, t)
        /\ stream' = [stream EXCEPT ![i] =
                        Append(@, [from |-> s, to |-> t, by |-> "publisher"])]
  BY DEF Publisher
<1>2. s \in InterventionState
  BY CurrentType
<1> HIDE DEF s
<1>3. t \in InterventionState /\ t.validation = s.validation
  <2>1. \/ t = [s EXCEPT !.authorization = "authorized"]
        \/ \E p \in {"published", "failed", "rolled_back"},
              a \in {"inactive", "active", "disabled"} :
             t = [s EXCEPT !.publication = p, !.activation = a]
    BY <1>1 DEF Moved
  <2>2. CASE t = [s EXCEPT !.authorization = "authorized"]
    BY <1>2, <2>2 DEF InterventionState
  <2>3. ASSUME NEW p \in {"published", "failed", "rolled_back"},
               NEW a \in {"inactive", "active", "disabled"},
               t = [s EXCEPT !.publication = p, !.activation = a]
        PROVE  t \in InterventionState /\ t.validation = s.validation
    BY <1>2, <2>3 DEF InterventionState
  <2> QED
    BY <2>1, <2>2, <2>3
<1>4. ~Validates(s, t)
  BY <1>3 DEF Validates
<1> DEFINE e == [from |-> s, to |-> t, by |-> "publisher"]
<1>5. e \in EdgeRecord /\ e.from = s /\ e.to = t
  BY <1>2, <1>3 DEF EdgeRecord
<1>6. UNCHANGED <<declared, attempts, evaluation, index, executions>>
      /\ UNCHANGED <<pc, local>>
  BY DEF Publisher
<1>7. stream' = [stream EXCEPT ![i] = Append(@, e)]
  BY <1>1
<1> HIDE DEF e
<1>8. StoreShape' /\ Grows
  BY <1>5, <1>6, <1>7, EdgeGrows
<1>9. StreamStands'
  BY <1>1, <1>4, <1>5, <1>6, <1>7, StreamExtends DEF s
<1> QED
  BY <1>6, <1>8, <1>9

(* The validate edge continues the state that was read, which the expected *)
(* revision says is still the head.                                        *)
LEMMA AppendEdgeStep ==
  ASSUME Shape, StreamStands, NEW h \in Hosts, Standing(h), AppendEdge(h)
  PROVE  StoreShape' /\ Grows /\ StreamStands' /\ pc[h] = "edge_append"
         /\ UNCHANGED <<declared, attempts, evaluation, index, executions>>
<1> DEFINE i == Subject(h)
           s == CurrentState(i)
           v == eval[h].verdict
           t == [s EXCEPT !.validation = v]
           e == [from |-> s, to |-> t, by |-> job[h]]
<1>1. pc[h] = "edge_append"
      /\ UNCHANGED <<declared, attempts, evaluation, index, executions>>
  BY DEF AppendEdge
<1>2. i \in Interventions /\ job[h] \in Experiments
  BY <1>1, DesignOf
<1>3. CASE stream' = stream
  BY <1>1, <1>3, KeptGrows, StreamStays DEF Kept
<1>4. CASE Len(stream[i]) = rev[h] /\ stream' = [stream EXCEPT ![i] = Append(@, Edge(h))]
  <2>1. /\ Indexed(i, job[h]) /\ eval[h] \in Evaluation /\ evaluation[job[h]] = eval[h]
        /\ Validates(StateAt(i, rev[h]), [StateAt(i, rev[h]) EXCEPT !.validation = v])
    BY <1>1 DEF Standing, Folding
  <2>2. s \in InterventionState /\ ValidState(s) /\ s = StateAt(i, rev[h])
    BY <1>2, <1>4, CurrentType
  <2>3. v \in Verdicts
    BY <2>1 DEF Evaluation
  <2>4. Validates(s, t)
    BY <2>1, <2>2
  <2> HIDE DEF s, v
  <2>5. t \in InterventionState /\ t.validation = v /\ ValidState(t)
    BY <2>2, <2>3 DEF InterventionState, ValidState
  <2>6. LegalEdge(s, t)
    BY <2>2, <2>4, <2>5 DEF LegalEdge
  <2>7. e \in EdgeRecord /\ e.from = s /\ e.to = t /\ e.by = job[h]
    BY <1>2, <2>2, <2>5 DEF EdgeRecord
  <2>8. stream' = [stream EXCEPT ![i] = Append(@, e)]
    BY <1>4 DEF Edge, s, v
  <2> HIDE DEF t, e, i
  <2>9. StoreShape' /\ Grows
    BY <1>1, <1>2, <2>7, <2>8, EdgeGrows
  <2>10. e.to.validation = v /\ s = CurrentState(i) /\ v = eval[h].verdict
    BY <2>5, <2>7 DEF s, v
  <2>11. StreamStands'
    BY <1>1, <1>2, <2>1, <2>6, <2>7, <2>8, <2>10, StreamExtends
  <2> QED
    BY <1>1, <2>9, <2>11
<1> QED
  BY <1>1, <1>3, <1>4 DEF AppendEdge

-------------------------------------------------------------------------------
(* What any step does to the store and to the shape of the calls.          *)
RunStep(h) ==
  (\E x \in Experiments : Begin(h, x)) \/ Refuse(h) \/ Step(h) \/ Crash(h)

LEMMA StoreStep ==
  ASSUME IInv, [Next]_vars
  PROVE  Shape' /\ Grows /\ StreamStands'
<1>0. Shape /\ StreamStands /\ \A h \in Hosts : Standing(h)
  BY DEF IInv
<1>c. ASSUME UNCHANGED <<pc, local>> PROVE CallShape'
  BY <1>0, <1>c DEF Shape, CallShape, local
<1>1. ASSUME NEW h \in Hosts, RunStep(h)
      PROVE  Shape' /\ Grows /\ StreamStands'
  <2>1. CallShape'
    BY <1>0, <1>1, CallShapeStep, BeginShape DEF RunStep, Shape
  <2>2. CASE Kept
    BY <1>0, <2>1, <2>2, KeptGrows, StreamStays DEF Shape, Kept
  <2>3. CASE Dispatch(h)
    BY <1>0, <2>1, <2>3, DispatchGrows, StreamStays DEF Shape, Dispatch
  <2>4. CASE Execute(h)
    BY <1>0, <2>1, <2>4, ExecuteGrows, StreamStays DEF Shape, store
  <2>5. CASE Complete(h)
    BY <1>0, <2>1, <2>5, CompleteGrows, StreamStays DEF Shape, Complete
  <2>6. CASE AppendIndex(h)
    BY <1>0, <2>1, <2>6, AppendIndexGrows, StreamStays DEF Shape
  <2>7. CASE Record(h)
    BY <1>0, <2>1, <2>7, RecordGrows, StreamStays DEF Shape
  <2>8. CASE AppendEdge(h)
    BY <1>0, <2>1, <2>8, AppendEdgeStep DEF Shape
  <2> QED
    BY <1>1, <2>2, <2>3, <2>4, <2>5, <2>6, <2>7, <2>8, ReadsKeep DEF RunStep, Step
<1>2. ASSUME NEW x \in Experiments, NEW d \in Designs, Declare(x, d)
      PROVE  Shape' /\ Grows /\ StreamStands'
  BY <1>0, <1>c, <1>2, DeclareGrows, StreamStays DEF Declare, Shape
<1>3. ASSUME NEW i \in Interventions, Publisher(i)
      PROVE  Shape' /\ Grows /\ StreamStands'
  BY <1>0, <1>c, <1>3, PublisherStep DEF Shape
<1>4. CASE UNCHANGED vars
  <2>1. Kept /\ UNCHANGED <<pc, local>>
    BY <1>4 DEF vars, Kept, local
  <2> QED
    BY <1>0, <1>c, <2>1, KeptGrows, StreamStays DEF Shape, Kept
<1> QED
  BY <1>1, <1>2, <1>3, <1>4 DEF Next, RunStep

-------------------------------------------------------------------------------
(* What a run relies on survives the steps of the others.                  *)
Untouched(g) ==
  /\ pc'[g] = pc[g] /\ job'[g] = job[g] /\ taken'[g] = taken[g]
  /\ answer'[g] = answer[g] /\ eval'[g] = eval[g] /\ rev'[g] = rev[g]

LEMMA OthersKeep ==
  ASSUME Shape, NEW h \in Hosts, NEW g \in Hosts, g # h, RunStep(h)
  PROVE  Untouched(g)
<1> USE DEF Shape, CallShape, Goto, Untouched, local, Finalize
<1>1. ASSUME NEW o, Finish(h, o) PROVE Untouched(g)
  BY <1>1 DEF Finish
<1>2. ASSUME NEW step, Conflict(h, step) PROVE Untouched(g)
  BY <1>1, <1>2 DEF Conflict
<1>3. ASSUME NEW a, Walk(h, a), UNCHANGED <<job, rev>>, answer'[g] = answer[g]
      PROVE  Untouched(g)
  BY <1>3 DEF Walk
<1>4. CASE Load(h)
  BY <1>3, <1>4 DEF Load
<1>5. CASE Complete(h)
  <2>1. answer'[g] = answer[g]
    BY <1>5 DEF Complete
  <2> QED
    BY <1>3, <1>5, <2>1 DEF Complete
<1>6. CASE (\E x \in Experiments : Begin(h, x)) \/ Refuse(h) \/ Crash(h) \/ Raced(h)
           \/ Dispatch(h) \/ Execute(h)
  BY <1>1, <1>6 DEF Begin, Refuse, Crash, Raced, Dispatch, Execute
<1>7. CASE ReadIndex(h) \/ AppendIndex(h) \/ Record(h)
  BY <1>1, <1>2, <1>7 DEF ReadIndex, AppendIndex, Record
<1>8. CASE FoldStream(h) \/ FoldEvaluations(h) \/ ReadEdge(h) \/ AppendEdge(h)
           \/ VerifyEdge(h)
  BY <1>1, <1>2, <1>8 DEF FoldStream, FoldEvaluations, ReadEdge, AppendEdge, VerifyEdge
<1> QED
  BY <1>4, <1>5, <1>6, <1>7, <1>8 DEF RunStep, Step

LEMMA DesignStays ==
  ASSUME Shape, Grows, NEW g \in Hosts, job[g] \in Experiments,
         Design(g) # Undeclared, job'[g] = job[g]
  PROVE  Design(g)' = Design(g) /\ Subject(g)' = Subject(g)
<1>1. declared[job[g]] # Undeclared
  BY DEF Design
<1>2. declared'[job[g]] = declared[job[g]]
  BY <1>1 DEF Grows
<1> QED
  BY <1>2 DEF Design, Subject

LEMMA StateStays ==
  ASSUME Shape, Grows, NEW i \in Interventions, NEW n \in Nat, n <= Len(stream[i])
  PROVE  (IF n = 0 THEN InitialState ELSE stream'[i][n].to) = StateAt(i, n)
<1>1. n = 0 \/ n \in DOMAIN stream[i]
  BY DEF Shape, StoreShape
<1> QED
  BY <1>1 DEF StateAt, Grows

LEMMA StandingStays ==
  ASSUME Shape, Grows, NEW g \in Hosts, Untouched(g), Standing(g),
         pc[g] = "execute" =>
           executions'[job[g]][Slot(g)] = executions[job[g]][Slot(g)]
  PROVE  Standing(g)'
<1>1. Slot(g)' = Slot(g)
  BY DEF Slot, Untouched
<1>2. CASE pc[g] = "idle"
  BY <1>2 DEF Standing, Untouched, Walking, Evaluating, Folding
<1>3. CASE pc[g] # "idle"
  <2> DEFINE x == job[g]
             i == Subject(g)
  <2>1. i \in Interventions /\ x \in Experiments /\ Design(g) \in Designs
    BY <1>3, DesignOf
  <2>2. Design(g)' = Design(g) /\ i' = i /\ x' = x
    BY <1>3, <2>1, DesignStays DEF Standing, Untouched
  <2>4. pc[g] = "execute" =>
          attempts'[x][Slot(g)] # Absent /\ executions'[x][Slot(g)] = 0
    BY <2>1, SlotOf DEF Standing, Grows, Walking
  <2>5. Indexed(i, x) => \E k \in DOMAIN index'[i] : index'[i][k] = x
    BY <2>1, IndexedStays
  <2>6. pc[g] \in Folding => evaluation'[x] = eval[g]
    BY <2>1, NoVerdict DEF Standing, Grows
  <2>7. ASSUME pc[g] \in {"fold_evaluations", "edge_append"}
        PROVE  rev[g] <= Len(stream[i]) /\ Len(stream[i]) \in Nat /\ rev[g] \in Nat
    BY <2>1, <2>7 DEF Standing, Shape, StoreShape, CallShape
  <2>8. pc[g] = "edge_append" =>
          (IF rev[g] = 0 THEN InitialState ELSE stream'[i][rev[g]].to) = StateAt(i, rev[g])
    BY <2>1, <2>7, StateStays
  <2>9. pc[g] = "edge_append" =>
          LET s == StateAt(i, rev[g])
          IN  Validates(s, [s EXCEPT !.validation = eval[g].verdict])
    BY DEF Standing
  <2>10. /\ pc[g] \in Walking => Slot(g) \in 1..SlotCount(Design(g))
         /\ pc[g] = "complete" => answer[g] \in Outcomes
         /\ pc[g] \in Evaluating \cup Folding => eval[g] \in Evaluation
         /\ pc[g] = "index_append" => rev[g] < MaxEvaluations
         /\ pc[g] \in {"record"} \cup Folding => Indexed(i, x)
         /\ Design(g) # Undeclared
    BY <1>3 DEF Standing
  <2>11. pc[g] \in {"fold_evaluations", "edge_append"} => rev[g] <= Len(stream'[i])
    <3>1. Len(stream[i]) <= Len(stream'[i])
      BY <2>1 DEF Grows
    <3> QED
      BY <2>7, <3>1 DEF Standing
  <2> HIDE DEF i, x
  <2>12. (StateAt(i, rev[g]))' = StateAt(i, rev[g]) \/ pc[g] # "edge_append"
    BY <2>2, <2>8 DEF StateAt, Untouched
  <2> QED
    BY <1>1, <1>3, <2>2, <2>4, <2>5, <2>6, <2>9, <2>10, <2>11, <2>12
       DEF Standing, Untouched, Indexed, i, x
<1> QED
  BY <1>2, <1>3

LEMMA FinishStanding ==
  ASSUME CallShape, NEW h \in Hosts, NEW o, Finish(h, o)
  PROVE  Standing(h)' /\ pc'[h] = "idle"
<1>1. pc'[h] = "idle" /\ taken'[h] = << >>
  BY DEF Finish, Goto, CallShape
<1> QED
  BY <1>1 DEF Standing, Walking, Evaluating, Folding

LEMMA ConflictStanding ==
  ASSUME Shape, Grows, NEW h \in Hosts, Standing(h), pc[h] \in {"index_append", "edge_append"},
         Conflict(h, IF pc[h] = "index_append" THEN "index_read" ELSE "edge_read")
  PROVE  Standing(h)' /\ pc'[h] # "execute"
<1> DEFINE step == IF pc[h] = "index_append" THEN "index_read" ELSE "edge_read"
<1>1. CASE Finish(h, "store.conflict")
  BY <1>1, FinishStanding DEF Shape
<1>2. CASE ~Finish(h, "store.conflict")
  <2>1. pc'[h] = step /\ UNCHANGED <<job, taken, answer, eval, rev>>
    BY <1>2 DEF Conflict, Goto, Shape, CallShape
  <2>2. /\ Subject(h) \in Interventions /\ job[h] \in Experiments
        /\ Design(h)' = Design(h) /\ Subject(h)' = Subject(h) /\ Design(h) # Undeclared
    BY <2>1, DesignOf, DesignStays DEF Standing
  <2>3. eval[h] \in Evaluation /\ (pc[h] = "edge_append" => Indexed(Subject(h), job[h]))
    BY DEF Standing, Evaluating, Folding
  <2>4. pc[h] = "edge_append" =>
          /\ \E k \in DOMAIN index'[Subject(h)] : index'[Subject(h)][k] = job[h]
          /\ evaluation'[job[h]] = eval[h]
    BY <2>2, <2>3, IndexedStays, NoVerdict DEF Standing, Grows, Folding
  <2> QED
    BY <2>1, <2>2, <2>3, <2>4
       DEF Standing, Walking, Evaluating, Folding, Indexed
<1> QED
  BY <1>1, <1>2 DEF Conflict

(* A walked slot: the next one, or an evaluation of what was walked.       *)
LEMMA WalkStanding ==
  ASSUME Shape, Grows, NEW h \in Hosts, Standing(h), pc[h] \in Walking,
         NEW a, Walk(h, a), job' = job
  PROVE  Standing(h)' /\ pc'[h] # "execute"
<1> DEFINE as == Append(taken[h], a)
<1>1. /\ Design(h)' = Design(h) /\ Subject(h)' = Subject(h) /\ Design(h) # Undeclared
      /\ Design(h) \in Designs
  BY DesignOf, DesignStays DEF Standing, Walking
<1>2. /\ taken[h] \in Seq(Range(taken[h])) /\ Slot(h) \in 1..SlotCount(Design(h))
  BY DEF Shape, CallShape, Standing
<1>3. Len(as) = Slot(h) /\ Len(taken[h]) \in Nat
  BY <1>2, AppendType DEF Slot
<1> HIDE DEF as
<1>4. taken'[h] = as
  BY DEF Walk, Shape, CallShape, as
<1>5. CASE Halted(Design(h), as)
  <2>1. pc'[h] = "index_read" /\ eval'[h] = Evaluate(Design(h), as)
    BY <1>5 DEF Walk, Finalize, Goto, Shape, CallShape, as
  <2>2. eval'[h] \in Evaluation
    BY <1>1, <2>1, EvaluateType
  <2> QED
    BY <1>1, <2>1, <2>2 DEF Standing, Walking, Evaluating, Folding
<1>6. CASE ~Halted(Design(h), as)
  <2>1. pc'[h] = "load"
    BY <1>6 DEF Walk, Goto, Shape, CallShape, as
  <2>2. Len(as) # SlotCount(Design(h)) /\ SlotCount(Design(h)) \in Nat
    BY <1>1, <1>6, DesignType DEF Halted
  <2>3. Len(as) + 1 \in 1..SlotCount(Design(h))
    BY <1>2, <1>3, <2>2
  <2>4. Slot(h)' \in 1..SlotCount(Design(h))
    BY <1>4, <2>3 DEF Slot
  <2> QED
    BY <1>1, <2>1, <2>4 DEF Standing, Walking, Evaluating, Folding
<1> QED
  BY <1>5, <1>6

LEMMA BeginStanding ==
  ASSUME Shape, Grows, NEW h \in Hosts, Standing(h), NEW x \in Experiments, Begin(h, x)
  PROVE  Standing(h)' /\ pc'[h] # "execute"
<1>1. /\ pc[h] = "idle" /\ declared[x] # Undeclared /\ job'[h] = x
      /\ UNCHANGED <<store, taken>>
  BY DEF Begin, Shape, CallShape
<1>2. /\ taken[h] = << >> /\ declared[x] \in Designs
  BY <1>1 DEF Standing, Shape, StoreShape
<1>3. Design(h)' = declared[x] /\ Slot(h)' = 1
  BY <1>1, <1>2 DEF Design, Slot, store
<1>4. 1 \in 1..SlotCount(declared[x])
  BY <1>2, DesignType
<1>5. \/ pc'[h] = "load"
      \/ pc'[h] = "index_read" /\ eval'[h] = evaluation[x] /\ evaluation[x] # NoEvaluation
  BY DEF Begin, Finalize, Goto, Recorded, Shape, CallShape
<1>6. evaluation[x] # NoEvaluation => evaluation[x] \in Evaluation
  BY DEF Shape, StoreShape
<1> QED
  BY <1>1, <1>3, <1>4, <1>5, <1>6 DEF Standing, Walking, Evaluating, Folding

(* The attempts.  A slot is only executed by the run that created its      *)
(* attempt.                                                                *)
LEMMA AttemptStanding ==
  ASSUME Shape, Shape', Grows, ExecutedOnce, NEW h \in Hosts, Standing(h),
         Load(h) \/ Raced(h) \/ Dispatch(h) \/ Execute(h) \/ Complete(h)
  PROVE  /\ Standing(h)'
         /\ pc'[h] = "execute" =>
              /\ pc[h] = "dispatch" /\ UNCHANGED <<job, taken>>
              /\ attempts[job[h]][Slot(h)] = Absent
<1>0. pc[h] \in Walking
  BY DEF Load, Raced, Dispatch, Execute, Complete, Walking
<1>1. /\ Design(h) # Undeclared /\ Design(h) \in Designs /\ job[h] \in Experiments
      /\ Slot(h) \in 1..SlotCount(Design(h)) /\ Slot(h) \in Slots
  BY <1>0, DesignOf, SlotOf DEF Standing, Walking
<1>2. job' = job => Design(h)' = Design(h)
  BY <1>1, DesignStays
<1>3. taken' = taken => Slot(h)' = Slot(h)
  BY DEF Slot
<1>4. CASE Load(h)
  <2>1. CASE Walk(h, attempts[job[h]][Slot(h)])
    BY <1>0, <1>4, <2>1, WalkStanding DEF Load
  <2>2. CASE ~Walk(h, attempts[job[h]][Slot(h)])
    <3>1. pc'[h] = "raced" /\ UNCHANGED <<job, taken>>
      BY <1>4, <2>2 DEF Load, Goto, Shape, CallShape
    <3> QED
      BY <1>1, <1>2, <1>3, <3>1 DEF Standing, Walking, Evaluating, Folding
  <2> QED
    BY <2>1, <2>2
<1>5. CASE Raced(h)
  <2>1. /\ UNCHANGED <<job, taken>>
        /\ \/ pc'[h] = "dispatch"
           \/ pc'[h] = "index_read" /\ eval'[h] = evaluation[job[h]]
              /\ evaluation[job[h]] # NoEvaluation
    BY <1>5 DEF Raced, Finalize, Goto, Recorded, Shape, CallShape
  <2>2. evaluation[job[h]] # NoEvaluation => evaluation[job[h]] \in Evaluation
    BY <1>1 DEF Shape, StoreShape
  <2> QED
    BY <1>1, <1>2, <1>3, <2>1, <2>2 DEF Standing, Walking, Evaluating, Folding
<1>6. CASE Dispatch(h)
  <2>1. UNCHANGED <<job, taken, executions>> /\ pc[h] = "dispatch"
    BY <1>6 DEF Dispatch, local
  <2>2. CASE attempts[job[h]][Slot(h)] = Absent
    <3>1. Journal(h, Dispatched(h)) /\ pc'[h] = "execute"
      BY <1>6, <2>2 DEF Dispatch, Goto, Shape, CallShape
    <3>2. attempts'[job[h]][Slot(h)] # Absent
      BY <1>0, <3>1, JournalShape, DispatchedIsPresent
    <3>3. executions[job[h]][Slot(h)] = 0
      <4>1. executions[job[h]][Slot(h)] \in 0..1 /\ executions[job[h]][Slot(h)] # 1
        BY <1>1, <2>2 DEF ExecutedOnce
      <4> QED
        BY <4>1
    <3> QED
      BY <1>1, <1>2, <1>3, <2>1, <2>2, <3>1, <3>2, <3>3
         DEF Standing, Walking, Evaluating, Folding
  <2>3. CASE attempts[job[h]][Slot(h)] # Absent
    <3>1. pc'[h] = "load"
      BY <1>6, <2>3 DEF Dispatch, Goto, Shape, CallShape
    <3> QED
      BY <1>1, <1>2, <1>3, <2>1, <3>1 DEF Standing, Walking, Evaluating, Folding
  <2> QED
    BY <2>2, <2>3
<1>7. CASE Execute(h)
  <2>1. /\ pc'[h] = "complete" /\ UNCHANGED <<job, taken>> /\ answer'[h] \in Outcomes
    BY <1>7 DEF Execute, Goto, Shape, CallShape
  <2> QED
    BY <1>1, <1>2, <1>3, <2>1 DEF Standing, Walking, Evaluating, Folding
<1>8. CASE Complete(h)
  BY <1>0, <1>8, WalkStanding DEF Complete
<1> QED
  BY <1>4, <1>5, <1>6, <1>7, <1>8

(* The index, then the record: a run that recorded an evaluation finds it  *)
(* indexed from then on.                                                   *)
LEMMA RecordStanding ==
  ASSUME Shape, Shape', Grows, NEW h \in Hosts, Standing(h),
         ReadIndex(h) \/ AppendIndex(h) \/ Record(h)
  PROVE  Standing(h)' /\ pc'[h] # "execute"
<1>0. pc[h] \in Evaluating
  BY DEF ReadIndex, AppendIndex, Record, Evaluating
<1>1. /\ Design(h) # Undeclared /\ Subject(h) \in Interventions /\ job[h] \in Experiments
      /\ eval[h] \in Evaluation
  BY <1>0, DesignOf DEF Standing, Evaluating
<1>2. job' = job => Design(h)' = Design(h) /\ Subject(h)' = Subject(h)
  BY <1>1, DesignStays
<1>3. CASE ReadIndex(h)
  <2>1. CASE Finish(h, "limit_exceeded")
    BY <2>1, FinishStanding DEF Shape
  <2>2. CASE ~Finish(h, "limit_exceeded")
    <3>1. /\ UNCHANGED <<job, taken, answer, eval, store>>
          /\ \/ pc'[h] = "record" /\ job[h] \in Range(index[Subject(h)])
             \/ pc'[h] = "index_append" /\ rev'[h] < MaxEvaluations
      BY <1>3, <2>2 DEF ReadIndex, Goto, Shape, CallShape
    <3>2. job[h] \in Range(index[Subject(h)]) =>
            \E k \in DOMAIN index'[Subject(h)] : index'[Subject(h)][k] = job[h]
      BY <1>1, <3>1 DEF store, Range
    <3> QED
      BY <1>1, <1>2, <3>1, <3>2
         DEF Standing, Walking, Evaluating, Folding, Indexed
  <2> QED
    BY <2>1, <2>2
<1>4. CASE AppendIndex(h)
  <2>1. CASE Conflict(h, "index_read")
    BY <1>4, <2>1, ConflictStanding DEF AppendIndex
  <2>2. CASE ~Conflict(h, "index_read")
    <3> DEFINE entries == index[Subject(h)]
               repeated == entries # << >> /\ entries[Len(entries)] = job[h]
    <3>1. /\ UNCHANGED <<job, taken, answer, eval>> /\ pc'[h] = "record"
          /\ index' = [index EXCEPT ![Subject(h)] =
                         IF repeated THEN @ ELSE Append(@, job[h])]
      BY <1>4, <2>2 DEF AppendIndex, Goto, Shape, CallShape
    <3>2. entries \in Seq(Experiments)
      BY <1>1 DEF Shape, StoreShape
    <3>3. index'[Subject(h)] = IF repeated THEN entries ELSE Append(entries, job[h])
      BY <1>1, <3>1 DEF Shape, StoreShape
    <3>4. CASE repeated
      <4>1. Len(entries) \in DOMAIN entries
        BY <3>2, <3>4
      <4> QED
        BY <1>1, <1>2, <3>1, <3>3, <3>4, <4>1
           DEF Standing, Walking, Evaluating, Folding, Indexed
    <3>5. CASE ~repeated
      <4>1. /\ Len(entries) + 1 \in DOMAIN Append(entries, job[h])
            /\ Append(entries, job[h])[Len(entries) + 1] = job[h]
        BY <1>1, <3>2
      <4> HIDE DEF entries
      <4>2. index'[Subject(h)] = Append(entries, job[h])
        BY <3>3, <3>5
      <4>3. \E k \in DOMAIN index'[Subject(h)] : index'[Subject(h)][k] = job[h]
        BY <4>1, <4>2
      <4> QED
        BY <1>1, <1>2, <3>1, <4>3
           DEF Standing, Walking, Evaluating, Folding, Indexed
    <3> QED
      BY <3>4, <3>5
  <2> QED
    BY <2>1, <2>2
<1>5. CASE Record(h)
  <2>1. /\ UNCHANGED <<job, taken, answer, index>> /\ pc'[h] = "fold_stream"
        /\ eval'[h] = evaluation'[job[h]] /\ evaluation'[job[h]] \in Evaluation
    BY <1>5, RecordGrows DEF Record, Goto, Shape, CallShape
  <2>2. Indexed(Subject(h), job[h])
    BY <1>5 DEF Record, Standing
  <2> QED
    BY <1>1, <1>2, <2>1, <2>2 DEF Standing, Walking, Evaluating, Folding, Indexed
<1> QED
  BY <1>3, <1>4, <1>5

(* The fold and the edge.                                                  *)
LEMMA FoldStanding ==
  ASSUME Shape, Shape', Grows, StreamStands, NEW h \in Hosts, Standing(h),
         FoldStream(h) \/ FoldEvaluations(h) \/ ReadEdge(h) \/ AppendEdge(h) \/ VerifyEdge(h)
  PROVE  Standing(h)' /\ pc'[h] # "execute"
<1>0. pc[h] \in Folding
  BY DEF FoldStream, FoldEvaluations, ReadEdge, AppendEdge, VerifyEdge, Folding
<1>1. /\ Design(h) # Undeclared /\ Subject(h) \in Interventions /\ job[h] \in Experiments
      /\ eval[h] \in Evaluation /\ Indexed(Subject(h), job[h])
      /\ evaluation[job[h]] = eval[h]
  BY <1>0, DesignOf DEF Standing, Folding
<1>2. job' = job => Design(h)' = Design(h) /\ Subject(h)' = Subject(h)
  BY <1>1, DesignStays
<1>3. /\ \E k \in DOMAIN index'[Subject(h)] : index'[Subject(h)][k] = job[h]
      /\ evaluation'[job[h]] = eval[h]
  BY <1>1, IndexedStays, NoVerdict DEF Grows
<1>4. Len(stream[Subject(h)]) \in Nat
  BY <1>1 DEF Shape, StoreShape
<1>5. CASE \E o : Finish(h, o)
  BY <1>5, FinishStanding DEF Shape
<1>6. CASE FoldStream(h)
  <2>1. /\ UNCHANGED <<job, taken, eval, store>> /\ pc'[h] = "fold_evaluations"
        /\ rev'[h] = Len(stream[Subject(h)])
    BY <1>6 DEF FoldStream, Goto, Shape, CallShape
  <2> QED
    BY <1>1, <1>2, <1>3, <1>4, <2>1
       DEF Standing, Walking, Evaluating, Folding, Indexed, store
<1>7. CASE FoldEvaluations(h) /\ ~\E o : Finish(h, o)
  <2>1. UNCHANGED <<job, taken, eval, store>> /\ pc'[h] = "edge_read"
    BY <1>7 DEF FoldEvaluations, Goto, Shape, CallShape, local
  <2> QED
    BY <1>1, <1>2, <1>3, <2>1 DEF Standing, Walking, Evaluating, Folding, Indexed
<1>8. CASE ReadEdge(h) /\ ~\E o : Finish(h, o)
  <2> DEFINE s == CurrentState(Subject(h))
  <2>1. /\ UNCHANGED <<job, taken, eval, store>> /\ pc'[h] = "edge_append"
        /\ rev'[h] = Len(stream[Subject(h)])
        /\ Validates(s, [s EXCEPT !.validation = eval[h].verdict])
    BY <1>8 DEF ReadEdge, Goto, Shape, CallShape
  <2>2. s = StateAt(Subject(h), Len(stream[Subject(h)]))
    BY <1>1, CurrentType
  <2> HIDE DEF s
  <2>3. StateAt(Subject(h), rev[h])' = s
    BY <1>2, <2>1, <2>2 DEF StateAt, store
  <2>4. /\ stream' = stream /\ Len(stream[Subject(h)]) <= Len(stream[Subject(h)])
    BY <1>4, <2>1 DEF store
  <2> QED
    BY <1>1, <1>2, <1>3, <2>1, <2>3, <2>4
       DEF Standing, Walking, Evaluating, Folding, Indexed
<1>9. CASE AppendEdge(h) /\ ~\E o : Finish(h, o)
  <2>1. CASE Conflict(h, "edge_read")
    BY <1>9, <2>1, ConflictStanding DEF AppendEdge
  <2>2. CASE ~Conflict(h, "edge_read")
    <3>1. UNCHANGED <<job, taken, eval>> /\ pc'[h] = "edge_verify"
      BY <1>9, <2>2 DEF AppendEdge, Goto, Shape, CallShape, local
    <3> QED
      BY <1>1, <1>2, <1>3, <3>1 DEF Standing, Walking, Evaluating, Folding, Indexed
  <2> QED
    BY <2>1, <2>2
<1>10. CASE VerifyEdge(h)
  BY <1>5, <1>10 DEF VerifyEdge
<1> QED
  BY <1>5, <1>6, <1>7, <1>8, <1>9, <1>10

-------------------------------------------------------------------------------
LEMMA OwnStanding ==
  ASSUME IInv, Shape', Grows, NEW h \in Hosts, RunStep(h)
  PROVE  /\ Standing(h)'
         /\ pc'[h] = "execute" =>
              /\ Dispatch(h) /\ UNCHANGED <<job, taken>>
              /\ attempts[job[h]][Slot(h)] = Absent
<1>0. Shape /\ ExecutedOnce /\ StreamStands /\ Standing(h)
  BY DEF IInv
<1>1. CASE \E x \in Experiments : Begin(h, x)
  BY <1>0, <1>1, BeginStanding
<1>2. CASE Refuse(h) \/ Crash(h)
  BY <1>0, <1>2, FinishStanding DEF Refuse, Crash, Shape
<1>3. CASE Load(h) \/ Raced(h) \/ Dispatch(h) \/ Execute(h) \/ Complete(h)
  <2>1. /\ Standing(h)'
        /\ pc'[h] = "execute" =>
              /\ pc[h] = "dispatch" /\ UNCHANGED <<job, taken>>
              /\ attempts[job[h]][Slot(h)] = Absent
    BY <1>0, <1>3, AttemptStanding
  <2>2. pc[h] = "dispatch" => Dispatch(h)
    BY <1>3 DEF Load, Raced, Execute, Complete
  <2> QED
    BY <2>1, <2>2
<1>4. CASE ReadIndex(h) \/ AppendIndex(h) \/ Record(h)
  BY <1>0, <1>4, RecordStanding
<1>5. CASE \/ FoldStream(h) \/ FoldEvaluations(h) \/ ReadEdge(h) \/ AppendEdge(h)
           \/ VerifyEdge(h)
  BY <1>0, <1>5, FoldStanding
<1> QED
  BY <1>1, <1>2, <1>3, <1>4, <1>5 DEF RunStep, Step

(* Only the run that executes a slot touches its count.                    *)
LEMMA ExecutionsOf ==
  ASSUME IInv, NEW h \in Hosts, RunStep(h)
  PROVE  \/ executions' = executions
         \/ Execute(h)
BY DEF RunStep, Step, Begin, Refuse, Crash, Load, Raced, Dispatch, Complete, ReadIndex,
   AppendIndex, Record, FoldStream, FoldEvaluations, ReadEdge, AppendEdge, VerifyEdge

LEMMA CallsStep ==
  ASSUME IInv, Shape', Grows, NEW h \in Hosts, RunStep(h)
  PROVE  (\A g \in Hosts : Standing(g)') /\ OneExecutor' /\ ExecutedOnce'
<1>0. Shape /\ OneExecutor /\ ExecutedOnce /\ \A g \in Hosts : Standing(g)
  BY DEF IInv
<1>1. ASSUME NEW g \in Hosts, g # h
      PROVE  Untouched(g)
  BY <1>0, <1>1, OthersKeep
<1>2. ASSUME NEW g \in Hosts, g # h, pc[g] = "execute"
      PROVE  executions'[job[g]][Slot(g)] = executions[job[g]][Slot(g)]
  <2>1. CASE Execute(h)
    <3>1. pc[h] = "execute" /\ (job[g] # job[h] \/ Slot(g) # Slot(h))
      BY <1>0, <1>2, <2>1 DEF Execute, OneExecutor
    <3>2. job[g] \in Experiments /\ Slot(g) \in Slots
      BY <1>0, <1>2, DesignOf, SlotOf DEF Walking
    <3> QED
      BY <1>0, <2>1, <3>1, <3>2, ExecuteGrows
  <2> QED
    BY <2>1, ExecutionsOf
<1>3. ASSUME NEW g \in Hosts PROVE Standing(g)'
  <2>1. CASE g = h
    BY <2>1, OwnStanding
  <2>2. CASE g # h
    BY <1>0, <1>1, <1>2, <2>2, StandingStays
  <2> QED
    BY <2>1, <2>2
<1>4. OneExecutor'
  <2>1. ASSUME NEW g \in Hosts, g # h, pc[g] = "execute", pc'[h] = "execute"
        PROVE  job'[g] # job'[h] \/ Slot(g)' # Slot(h)'
    <3>1. attempts[job[h]][Slot(h)] = Absent /\ UNCHANGED <<job, taken>>
      BY <2>1, OwnStanding
    <3>2. attempts[job[g]][Slot(g)] # Absent
      BY <1>0, <2>1 DEF Standing
    <3> QED
      BY <3>1, <3>2 DEF Slot
  <2>2. ASSUME NEW g \in Hosts, NEW f \in Hosts, g # f, pc'[g] = "execute", pc'[f] = "execute"
        PROVE  job'[g] # job'[f] \/ Slot(g)' # Slot(f)'
    <3>1. CASE g # h /\ f # h
      BY <1>0, <1>1, <2>2, <3>1 DEF Untouched, OneExecutor, Slot
    <3>2. CASE g = h
      BY <1>1, <2>1, <2>2, <3>2 DEF Untouched
    <3>3. CASE f = h
      BY <1>1, <2>1, <2>2, <3>3 DEF Untouched
    <3> QED
      BY <3>1, <3>2, <3>3
  <2> QED
    BY <2>2 DEF OneExecutor
<1>5. ExecutedOnce'
  <2> SUFFICES ASSUME NEW x \in Experiments, NEW k \in Slots
               PROVE  /\ executions'[x][k] \in 0..1
                      /\ executions'[x][k] = 1 => attempts'[x][k] # Absent
    BY DEF ExecutedOnce
  <2>1. /\ executions[x][k] \in 0..1
        /\ executions[x][k] = 1 => attempts[x][k] # Absent
    BY <1>0 DEF ExecutedOnce
  <2>2. attempts[x][k] # Absent => attempts'[x][k] # Absent
    BY DEF Grows
  <2>3. CASE executions'[x][k] = executions[x][k]
    BY <2>1, <2>2, <2>3
  <2>4. CASE Execute(h) /\ x = job[h] /\ k = Slot(h)
    <3>1. /\ executions[x][k] = 0 /\ attempts[x][k] # Absent
          /\ executions'[x][k] = executions[x][k] + 1
      BY <1>0, <2>4, ExecuteGrows DEF Standing, Execute
    <3> QED
      BY <2>2, <3>1
  <2>5. executions'[x][k] = executions[x][k] \/ (Execute(h) /\ x = job[h] /\ k = Slot(h))
    BY <1>0, ExecutionsOf, ExecuteGrows
  <2> QED
    BY <2>3, <2>4, <2>5
<1> QED
  BY <1>3, <1>4, <1>5

(* The declarations and the publisher leave every run alone.               *)
LEMMA WorldStep ==
  ASSUME IInv, [Next]_vars, ~\E h \in Hosts : RunStep(h)
  PROVE  /\ UNCHANGED <<pc, local, attempts, index, executions>>
<1>1. ASSUME NEW x \in Experiments, NEW d \in Designs, Declare(x, d)
      PROVE  UNCHANGED <<pc, local, attempts, index, executions>>
  BY <1>1 DEF Declare
<1>2. ASSUME NEW i \in Interventions, Publisher(i)
      PROVE  UNCHANGED <<pc, local, attempts, index, executions>>
  BY <1>2 DEF Publisher
<1>3. UNCHANGED vars => UNCHANGED <<pc, local, attempts, index, executions>>
  BY DEF vars, local
<1> QED
  BY <1>1, <1>2, <1>3 DEF Next, RunStep

LEMMA IndexStep ==
  ASSUME IInv, [Next]_vars
  PROVE  IndexBounded'
<1>1. CASE index' = index
  BY <1>1 DEF IInv, IndexBounded
<1>2. CASE index' # index
  <2>1. PICK h \in Hosts : RunStep(h)
    BY <1>2, WorldStep
  <2>2. AppendIndex(h)
    BY <1>2, <2>1 DEF RunStep, Step, Begin, Refuse, Crash, Load, Raced, Dispatch, Execute,
       Complete, ReadIndex, Record, FoldStream, FoldEvaluations, ReadEdge, AppendEdge,
       VerifyEdge, store
  <2>3. Shape /\ Standing(h)
    BY DEF IInv
  <2>4. /\ pc[h] = "index_append" /\ Len(index[Subject(h)]) = rev[h]
        /\ index' = [index EXCEPT ![Subject(h)] = Append(@, job[h])]
    BY <1>2, <2>2, <2>3, AppendIndexGrows
  <2>5. /\ Subject(h) \in Interventions /\ job[h] \in Experiments
        /\ rev[h] < MaxEvaluations /\ rev[h] \in Nat
    BY <2>3, <2>4, DesignOf DEF Standing, Shape, CallShape
  <2>6. index[Subject(h)] \in Seq(Experiments)
    BY <2>3, <2>5 DEF Shape, StoreShape
  <2>7. Len(Append(index[Subject(h)], job[h])) = rev[h] + 1
    BY <2>4, <2>5, <2>6
  <2>8. ASSUME NEW i \in Interventions PROVE Len(index'[i]) <= MaxEvaluations
    <3>1. CASE i = Subject(h)
      <4>1. index'[i] = Append(index[Subject(h)], job[h])
        BY <2>3, <2>4, <3>1 DEF Shape, StoreShape
      <4> QED
        BY <2>5, <2>7, <4>1, BoundsAssumption
    <3>2. CASE i # Subject(h)
      <4>1. index'[i] = index[i]
        BY <2>3, <2>4, <3>2 DEF Shape, StoreShape
      <4> QED
        BY <4>1 DEF IInv, IndexBounded
    <3> QED
      BY <3>1, <3>2
  <2> QED
    BY <2>8 DEF IndexBounded
<1> QED
  BY <1>1, <1>2

LEMMA InitStands == Init => IInv
<1> SUFFICES ASSUME Init PROVE IInv
  OBVIOUS
<1>1. AnyExperiment \in Experiments
  BY ExperimentsAssumption DEF AnyExperiment
<1>2. << >> \in Seq(Range(<< >>))
  OBVIOUS
<1>3. StoreShape
  BY DEF Init, StoreShape
<1>4. \A h \in Hosts : taken[h] \in Seq(Range(taken[h]))
  BY <1>2 DEF Init
<1>5. CallShape
  BY <1>1, <1>4, BoundsAssumption DEF Init, CallShape
<1>6. \A h \in Hosts : Standing(h)
  BY DEF Init, Standing, Walking, Evaluating, Folding
<1>7. OneExecutor /\ ExecutedOnce
  BY DEF Init, OneExecutor, ExecutedOnce
<1>8. IndexBounded /\ StreamStands
  BY BoundsAssumption DEF Init, IndexBounded, StreamStands
<1> QED
  BY <1>3, <1>5, <1>6, <1>7, <1>8 DEF IInv, Shape

LEMMA Inductive == Spec => []IInv
<1>1. IInv /\ [Next]_vars => IInv'
  <2> SUFFICES ASSUME IInv, [Next]_vars PROVE IInv'
    OBVIOUS
  <2>1. Shape' /\ Grows /\ StreamStands'
    BY StoreStep
  <2>2. (\A h \in Hosts : Standing(h)') /\ OneExecutor' /\ ExecutedOnce'
    <3>1. CASE \E h \in Hosts : RunStep(h)
      BY <2>1, <3>1, CallsStep
    <3>2. CASE ~\E h \in Hosts : RunStep(h)
      <4>1. UNCHANGED <<pc, local, attempts, index, executions>>
        BY <3>2, WorldStep
      <4>2. ASSUME NEW h \in Hosts PROVE Standing(h)'
        <5>1. Untouched(h)
          BY <4>1 DEF Untouched, local
        <5> QED
          BY <2>1, <4>1, <5>1, StandingStays DEF IInv
      <4>3. OneExecutor' /\ ExecutedOnce'
        BY <4>1 DEF IInv, OneExecutor, ExecutedOnce, Slot, local
      <4> QED
        BY <4>2, <4>3
    <3> QED
      BY <3>1, <3>2
  <2>3. IndexBounded'
    BY IndexStep
  <2> QED
    BY <2>1, <2>2, <2>3 DEF IInv
<1> QED
  BY <1>1, InitStands, PTL DEF Spec

(* Every record and every run has its type, for any designs and answers;   *)
(* a run never walks past the last slot of its design.                     *)
THEOREM ExperimentTypeCorrect == Spec => []TypeOK
<1>1. IInv => TypeOK
  <2> SUFFICES ASSUME IInv PROVE TypeOK
    OBVIOUS
  <2>1. Shape /\ \A h \in Hosts : Standing(h)
    BY DEF IInv
  <2>2. /\ declared \in [Experiments -> Designs \cup {Undeclared}]
        /\ index \in [Interventions -> Seq(Experiments)] /\ job \in [Hosts -> Experiments]
    BY <2>1 DEF Shape, StoreShape, CallShape
  <2>3. \A x \in Experiments :
          /\ evaluation[x].verdict \in Verdicts \cup {"none"}
          /\ evaluation[x].classes \in Seq(Statuses)
    <3> SUFFICES ASSUME NEW x \in Experiments
                 PROVE  /\ evaluation[x].verdict \in Verdicts \cup {"none"}
                        /\ evaluation[x].classes \in Seq(Statuses)
      OBVIOUS
    <3>1. CASE evaluation[x] \in Evaluation
      BY <3>1 DEF Evaluation
    <3>2. CASE evaluation[x] = NoEvaluation
      <4>1. << >> \in Seq(Statuses)
        OBVIOUS
      <4> QED
        BY <3>2, <4>1 DEF NoEvaluation
    <3> QED
      BY <2>1, <3>1, <3>2 DEF Shape, StoreShape
  <2>4. ASSUME NEW i \in Interventions, NEW k \in DOMAIN stream[i]
        PROVE  /\ stream[i][k].from \in InterventionState
               /\ stream[i][k].to \in InterventionState
               /\ stream[i][k].by \in Experiments \cup {"publisher"}
    <3>1. stream[i] \in Seq(EdgeRecord)
      BY <2>1 DEF Shape, StoreShape
    <3>2. stream[i][k] \in EdgeRecord
      BY <3>1
    <3> QED
      BY <3>2 DEF EdgeRecord
  <2>5. ASSUME NEW h \in Hosts
        PROVE  /\ rev[h] \in Nat /\ tries[h] \in 0..MaxAppendAttempts
               /\ pc[h] # "idle" => Design(h) # Undeclared
               /\ pc[h] \in {"load", "raced", "dispatch", "execute", "complete"}
                    => Slot(h) \in 1..SlotCount(Design(h))
    BY <2>1 DEF Shape, CallShape, Standing, Walking
  <2> QED
    BY <2>2, <2>3, <2>4, <2>5 DEF TypeOK
<1> QED
  BY <1>1, Inductive, PTL

(* "A dispatched slot is never re-executed": for any number of hosts that  *)
(* race or crash (experiment-attempt.ts, createDispatchedAttempt).         *)
THEOREM SlotsExecuteOnce == Spec => []ExecutedOnce
<1>1. IInv => ExecutedOnce
  BY DEF IInv
<1> QED
  BY <1>1, Inductive, PTL

(* The evaluation index can always be read again                           *)
(* (MAX_EVALUATIONS_PER_INTERVENTION).                                     *)
THEOREM IndexStaysBounded == Spec => []IndexBounded
<1>1. IInv => IndexBounded
  BY DEF IInv
<1> QED
  BY <1>1, Inductive, PTL

(* No fold is told that the store is corrupt (foldRecord): every stream is *)
(* a chain of legal edges whose validate edges cite their evaluations.     *)
THEOREM FoldsStayReadable == Spec => []FoldsReadable
<1>1. IInv => FoldsReadable
  <2> SUFFICES ASSUME IInv PROVE FoldsReadable
    OBVIOUS
  <2>0. Shape /\ StreamStands /\ \A h \in Hosts : Standing(h)
    BY DEF IInv
  <2>1. ASSUME NEW i \in Interventions, NEW n \in Nat, n <= Len(stream[i])
        PROVE  Readable(i, n)
    <3> SUFFICES ASSUME NEW k \in 1..n,
                        Validates(stream[i][k].from, stream[i][k].to)
                 PROVE  /\ stream[i][k].by \in Range(index[i])
                        /\ evaluation[stream[i][k].by].verdict = stream[i][k].to.validation
      BY DEF Readable
    <3>1. k \in DOMAIN stream[i]
      BY <2>0, <2>1 DEF Shape, StoreShape
    <3> QED
      BY <2>0, <3>1 DEF StreamStands, EdgeStands, Indexed, Range
  <2>2. ASSUME NEW i \in Interventions, NEW k \in DOMAIN stream[i]
        PROVE  /\ stream[i][k].from = IF k = 1 THEN InitialState ELSE stream[i][k - 1].to
               /\ LegalEdge(stream[i][k].from, stream[i][k].to)
    <3>1. k \in Nat /\ (k - 1 = 0 <=> k = 1)
      BY <2>0 DEF Shape, StoreShape
    <3> QED
      BY <2>0, <3>1 DEF StreamStands, EdgeStands, StateAt
  <2>3. ASSUME NEW i \in Interventions PROVE Readable(i, Len(stream[i]))
    <3>1. Len(stream[i]) \in Nat
      BY <2>0 DEF Shape, StoreShape
    <3> QED
      BY <2>1, <3>1
  <2>4. ASSUME NEW h \in Hosts, pc[h] = "fold_evaluations"
        PROVE  Readable(Subject(h), rev[h])
    <3>1. /\ Subject(h) \in Interventions /\ rev[h] \in Nat
          /\ rev[h] <= Len(stream[Subject(h)])
      BY <2>0, <2>4, DesignOf DEF Standing, Shape, CallShape
    <3> QED
      BY <2>1, <3>1
  <2> QED
    BY <2>2, <2>3, <2>4 DEF FoldsReadable
<1> QED
  BY <1>1, Inductive, PTL

-------------------------------------------------------------------------------
(***************************************************************************)
(* Sums over finite sets.  The fold the model sums with picks an element   *)
(* of the set, adds it to the sum of the rest, and so on.  What it says of *)
(* every finite set is proved by minimal counterexample: the sets that     *)
(* would falsify it, if any, have a smallest member (SmallestSet).         *)
(***************************************************************************)
SumStep(f, g, s) ==
  IF s = {} THEN 0
  ELSE f[CHOOSE x \in s : TRUE] + g[s \ {CHOOSE x \in s : TRUE}]

Sums(f, S) == CHOOSE g : g = [s \in SUBSET S |-> SumStep(f, g, s)]

(* SumFunctionOnSet is that fold, a function of the subsets of S.          *)
LEMMA FoldIsSum ==
  ASSUME NEW f, NEW S
  PROVE  SumFunctionOnSet(f, S) = Sums(f, S)[S]
BY DEF SumFunctionOnSet, FoldFunctionOnSet, MapThenFoldSet, Sums, SumStep

(* Strict inclusion is well founded on the subsets of a finite set.        *)
LEMMA SmallestSet ==
  ASSUME NEW S, IsFiniteSet(S), NEW C \in SUBSET SUBSET S, C # {}
  PROVE  \E s \in C : \A t \in C : t \subseteq s => t = s
<1>1. IsWellFoundedOn(StrictSubsetOrdering(S), FiniteSubsetsOf(S))
  BY FS_StrictSubsetOrderingWellFounded
<1>2. C \subseteq FiniteSubsetsOf(S)
  BY FS_Subset DEF FiniteSubsetsOf
<1>3. \E s \in C : \A t \in C : ~(<<t, s>> \in StrictSubsetOrdering(S))
  BY <1>1, <1>2, WFMin
<1> QED
  BY <1>3 DEF StrictSubsetOrdering

(* What holds 0, and the successor of each number it holds, holds them     *)
(* all.                                                                    *)
LEMMA CountingUp ==
  ASSUME NEW C, 0 \in C, \A n \in Nat : n \in C => n + 1 \in C
  PROVE  Nat \subseteq C
<1> SUFFICES ASSUME Nat \ C # {} PROVE FALSE
  OBVIOUS
<1> DEFINE R == {p \in Nat \X Nat : p[1] < p[2]}
<1>1. IsWellFoundedOn(R, Nat)
  BY NatLessThanWellFounded DEF OpToRel
<1>2. PICK m \in Nat \ C : \A n \in Nat \ C : ~(<<n, m>> \in R)
  <2> HIDE DEF R
  <2>1. Nat \ C \subseteq Nat
    OBVIOUS
  <2> QED
    BY <1>1, <2>1, WFMin
<1>3. m \in Nat /\ m # 0 /\ m \notin C
  OBVIOUS
<1>4. m - 1 \in Nat /\ m - 1 < m /\ (m - 1) + 1 = m
  BY <1>3
<1>5. m - 1 \notin C
  BY <1>3, <1>4
<1> QED
  BY <1>2, <1>3, <1>4, <1>5

(* A function that satisfies the recursion exists, one cardinality after   *)
(* the other, so the CHOOSE of the fold names one.                         *)
LEMMA SumsExist ==
  ASSUME NEW f, NEW S, IsFiniteSet(S)
  PROVE  \A s \in SUBSET S : Sums(f, S)[s] = SumStep(f, Sums(f, S), s)
<1> DEFINE Upto(n, g) ==
      /\ g = [s \in SUBSET S |-> g[s]]
      /\ \A s \in SUBSET S : Cardinality(s) <= n => g[s] = SumStep(f, g, s)
    C == {n \in Nat : \E g : Upto(n, g)}
<1>1. \A s \in SUBSET S : IsFiniteSet(s) /\ Cardinality(s) \in Nat
      /\ Cardinality(s) <= Cardinality(S)
  BY FS_Subset, FS_CardinalityType
<1>2. \A s \in SUBSET S : s # {} =>
        LET x == CHOOSE x \in s : TRUE
        IN  x \in s /\ s \ {x} \in SUBSET S /\ Cardinality(s \ {x}) = Cardinality(s) - 1
  BY <1>1, FS_RemoveElement
<1>3. 0 \in C
  <2>1. Upto(0, [s \in SUBSET S |-> 0])
    BY <1>1, FS_EmptySet DEF SumStep
  <2> QED
    BY <2>1
<1>4. ASSUME NEW n \in Nat, n \in C PROVE n + 1 \in C
  <2>1. PICK g : Upto(n, g)
    BY <1>4
  <2> DEFINE h == [s \in SUBSET S |-> IF Cardinality(s) <= n THEN g[s] ELSE SumStep(f, g, s)]
  <2>2. ASSUME NEW s \in SUBSET S, Cardinality(s) <= n + 1
        PROVE  h[s] = SumStep(f, h, s)
    <3>1. CASE s = {}
      BY <3>1, <2>1, <1>1, FS_EmptySet DEF SumStep
    <3>2. CASE s # {}
      <4> DEFINE x == CHOOSE x \in s : TRUE
      <4>1. s \ {x} \in SUBSET S /\ Cardinality(s \ {x}) = Cardinality(s) - 1
        BY <1>2, <3>2
      <4>2. Cardinality(s) \in Nat /\ Cardinality(s \ {x}) <= n
        BY <4>1, <2>2, <1>1
      <4>3. h[s \ {x}] = g[s \ {x}]
        BY <4>1, <4>2
      <4>4. SumStep(f, h, s) = SumStep(f, g, s)
        BY <4>3 DEF SumStep
      <4>5. h[s] = SumStep(f, g, s)
        BY <2>1, <4>2
      <4> QED
        BY <4>4, <4>5
    <3> QED
      BY <3>1, <3>2
  <2>3. Upto(n + 1, h)
    BY <2>2
  <2> HIDE DEF h, Upto
  <2>4. n + 1 \in Nat /\ \E k : Upto(n + 1, k)
    BY <2>3
  <2> QED
    BY <2>4
<1>5. Nat \subseteq C
  <2> HIDE DEF C
  <2> QED
    BY <1>3, <1>4, CountingUp
<1>6. Cardinality(S) \in C
  BY <1>5, <1>1, S \in SUBSET S
<1>7. PICK g : Upto(Cardinality(S), g)
  BY <1>6
<1>8. g = [s \in SUBSET S |-> SumStep(f, g, s)]
  BY <1>1, <1>7
<1>9. Sums(f, S) = [s \in SUBSET S |-> SumStep(f, Sums(f, S), s)]
  BY <1>8 DEF Sums
<1> QED
  BY <1>9

(* Read for one subset: nothing sums to 0, and some element is added last. *)
LEMMA SumsUnfold ==
  ASSUME NEW f, NEW S, IsFiniteSet(S), NEW s \in SUBSET S
  PROVE  /\ s = {} => Sums(f, S)[s] = 0
         /\ s # {} => \E x \in s : Sums(f, S)[s] = f[x] + Sums(f, S)[s \ {x}]
<1>1. Sums(f, S)[s] = SumStep(f, Sums(f, S), s)
  BY SumsExist
<1>2. s # {} => (CHOOSE x \in s : TRUE) \in s
  OBVIOUS
<1> QED
  BY <1>1, <1>2 DEF SumStep

(* Sums agree where the functions do, whatever set the fold started from.  *)
LEMMA SumsAgree ==
  ASSUME NEW f, NEW g, NEW S, IsFiniteSet(S), NEW T \in SUBSET S,
         \A x \in T : f[x] = g[x]
  PROVE  Sums(f, T)[T] = Sums(g, S)[T]
<1> DEFINE C == {s \in SUBSET T : Sums(f, T)[s] # Sums(g, S)[s]}
<1> SUFFICES ASSUME C # {} PROVE FALSE
  OBVIOUS
<1>1. IsFiniteSet(T)
  BY FS_Subset
<1>2. PICK s \in C : \A t \in C : t \subseteq s => t = s
  <2> HIDE DEF C
  <2>1. C \in SUBSET SUBSET T
    BY DEF C
  <2> QED
    BY <1>1, <2>1, SmallestSet
<1>3. \A t \in SUBSET T : Sums(f, T)[t] = SumStep(f, Sums(f, T), t)
  BY <1>1, SumsExist
<1>4. \A t \in SUBSET T : Sums(g, S)[t] = SumStep(g, Sums(g, S), t)
  BY SumsExist
<1>5. CASE s = {}
  BY <1>3, <1>4, <1>5 DEF SumStep
<1>6. CASE s # {}
  <2> DEFINE x == CHOOSE x \in s : TRUE
  <2>1. x \in s /\ s \in SUBSET T /\ s \ {x} \in SUBSET T /\ s \ {x} # s
    BY <1>6
  <2>2. Sums(f, T)[s \ {x}] = Sums(g, S)[s \ {x}]
    BY <1>2, <2>1
  <2>3. SumStep(f, Sums(f, T), s) = SumStep(g, Sums(g, S), s)
    BY <2>1, <2>2 DEF SumStep
  <2> QED
    BY <1>3, <1>4, <2>1, <2>3
<1> QED
  BY <1>5, <1>6

(* Sums of integers are integers.                                          *)
LEMMA SumsType ==
  ASSUME NEW f, NEW S, IsFiniteSet(S), \A x \in S : f[x] \in Int
  PROVE  \A s \in SUBSET S : Sums(f, S)[s] \in Int
<1> DEFINE C == {s \in SUBSET S : Sums(f, S)[s] \notin Int}
<1> SUFFICES ASSUME C # {} PROVE FALSE
  OBVIOUS
<1>1. PICK s \in C : \A t \in C : t \subseteq s => t = s
  <2> HIDE DEF C
  <2>1. C \in SUBSET SUBSET S
    BY DEF C
  <2> QED
    BY <2>1, SmallestSet
<1>2. s # {}
  BY SumsUnfold
<1>3. PICK x \in s : Sums(f, S)[s] = f[x] + Sums(f, S)[s \ {x}]
  BY <1>2, SumsUnfold
<1>4. s \ {x} \in SUBSET S /\ s \ {x} # s
  OBVIOUS
<1>5. Sums(f, S)[s \ {x}] \in Int
  BY <1>1, <1>4
<1> QED
  BY <1>3, <1>5

(* Any element may be the one added last: the order does not matter.       *)
LEMMA SumsTake ==
  ASSUME NEW f, NEW S, IsFiniteSet(S), \A x \in S : f[x] \in Int
  PROVE  \A s \in SUBSET S : \A x \in s : Sums(f, S)[s] = f[x] + Sums(f, S)[s \ {x}]
<1> DEFINE g == Sums(f, S)
           C == {s \in SUBSET S : \E x \in s : g[s] # f[x] + g[s \ {x}]}
<1> SUFFICES ASSUME C # {} PROVE FALSE
  OBVIOUS
<1>1. PICK s \in C : \A t \in C : t \subseteq s => t = s
  <2> HIDE DEF C
  <2>1. C \in SUBSET SUBSET S
    BY DEF C
  <2> QED
    BY <2>1, SmallestSet
<1>2. PICK x \in s : g[s] # f[x] + g[s \ {x}]
  OBVIOUS
<1>3. PICK y \in s : g[s] = f[y] + g[s \ {y}]
  BY SumsUnfold
<1>4. x # y
  BY <1>2, <1>3
<1>5. /\ s \ {x} \in SUBSET S /\ s \ {y} \in SUBSET S
      /\ s \ {x} # s /\ s \ {y} # s /\ y \in s \ {x} /\ x \in s \ {y}
      /\ (s \ {x}) \ {y} = (s \ {y}) \ {x} /\ (s \ {x}) \ {y} \in SUBSET S
  BY <1>4
<1>6. g[s \ {x}] = f[y] + g[(s \ {x}) \ {y}]
  BY <1>1, <1>5
<1>7. g[s \ {y}] = f[x] + g[(s \ {y}) \ {x}]
  BY <1>1, <1>5
<1>8. f[x] \in Int /\ f[y] \in Int /\ g[(s \ {x}) \ {y}] \in Int
  BY <1>5, SumsType
<1> HIDE DEF g
<1>9. \A a, b, c \in Int : a + (b + c) = b + (a + c)
  OBVIOUS
<1>10. g[s] = f[y] + (f[x] + g[(s \ {x}) \ {y}])
  BY <1>3, <1>5, <1>7
<1>11. g[s] = f[x] + (f[y] + g[(s \ {x}) \ {y}])
  BY <1>8, <1>9, <1>10
<1> QED
  BY <1>2, <1>6, <1>11

(* The same for the operator the model uses.                               *)
Sum(f, S) == SumFunctionOnSet(f, S)

LEMMA SumEmpty == \A f : Sum(f, {}) = 0
BY FoldIsSum, FS_EmptySet, SumsUnfold DEF Sum

LEMMA SumType ==
  ASSUME NEW f, NEW S, IsFiniteSet(S), \A x \in S : f[x] \in Int
  PROVE  Sum(f, S) \in Int
BY FoldIsSum, SumsType DEF Sum

LEMMA SumAgrees ==
  ASSUME NEW f, NEW g, NEW S, IsFiniteSet(S), \A x \in S : f[x] = g[x]
  PROVE  Sum(f, S) = Sum(g, S)
BY FoldIsSum, SumsAgree DEF Sum

LEMMA SumAdd ==
  ASSUME NEW f, NEW S, IsFiniteSet(S), NEW x, x \notin S, f[x] \in Int,
         \A y \in S : f[y] \in Int
  PROVE  Sum(f, S \cup {x}) = f[x] + Sum(f, S)
<1> DEFINE T == S \cup {x}
<1>1. IsFiniteSet(T) /\ T \ {x} = S /\ x \in T /\ S \in SUBSET T
  BY FS_AddElement
<1>2. \A y \in T : f[y] \in Int
  OBVIOUS
<1> HIDE DEF T
<1>3. Sums(f, T)[T] = f[x] + Sums(f, T)[S]
  BY <1>1, <1>2, SumsTake
<1>4. Sums(f, T)[S] = Sums(f, S)[S]
  BY <1>1, SumsAgree
<1> QED
  BY <1>3, <1>4, FoldIsSum DEF Sum, T

-------------------------------------------------------------------------------
(***************************************************************************)
(* The journal of an experiment.                                           *)
(***************************************************************************)

(* An attempt, with the budget it was given and, once it ended, its        *)
(* result.                                                                 *)
AttemptType(a) ==
  /\ a.budget \in Nat
  /\ \/ a = [status |-> "dispatched", budget |-> a.budget]
     \/ /\ a.status # "dispatched" /\ a.result \in Outcomes
        /\ a = [status |-> a.result.status, result |-> a.result, budget |-> a.budget]

(* The first n attempts of a journal J, none of which stops the run.       *)
Upto(J, n) == [k \in 1..n |-> J[k]]
Passed(d, J, n) == \A k \in 1..n : J[k] # Absent /\ Valid(d, J[k])

(* An attempt is made after valid ones, with what they left of the ceiling.*)
AttemptStands(d, J, k) ==
  J[k] # Absent =>
    /\ d # Undeclared /\ k \in 1..SlotCount(d)
    /\ AttemptType(J[k]) /\ Passed(d, J, k - 1)
    /\ d.ceiling # 0 => J[k].budget + Spent(d, Upto(J, k - 1)) = d.ceiling

JournalStands ==
  \A x \in Experiments, k \in Slots : AttemptStands(declared[x], attempts[x], k)

(* A run holds what the journal holds, and may still spend.                *)
TakenStands(h) ==
  pc[h] \in Walking =>
    LET d == Design(h)
        J == attempts[job[h]]
        n == Len(taken[h])
    IN  /\ taken[h] = Upto(J, n) /\ Passed(d, J, n)
        /\ d.ceiling # 0 => Spent(d, taken[h]) < d.ceiling

(* e stands by the journal J of the design d.                              *)
Faithful(d, J, e) ==
  LET ran == {k \in DOMAIN e.classes : e.classes[k] # "not_run"}
      journal == [k \in DOMAIN e.classes |-> J[k]]
  IN  /\ DOMAIN e.classes = 1..SlotCount(d)
      /\ \A k \in ran : /\ J[k] # Absent
                        /\ e.classes[k] \in {"outcome_unknown", Classify(d, J[k])}
                        /\ 1..k \subseteq ran
      /\ e.verdict = "invalid" <=> \E k \in ran : e.classes[k] # "valid"
      /\ e.verdict # "invalid" /\ ran # DOMAIN e.classes =>
           e.verdict = "inconclusive" /\ AtCeiling(d, [k \in ran |-> journal[k]])
      /\ e.verdict # "invalid" /\ ran = DOMAIN e.classes =>
           e.verdict = ReferenceVerdict(d, Analyze(d, Measured(journal)))

EvaluationsStand ==
  \A x \in Experiments : Recorded(x) =>
    declared[x] # Undeclared /\ Faithful(declared[x], attempts[x], evaluation[x])

EvalStands(h) ==
  pc[h] \in Evaluating \cup Folding => Faithful(Design(h), attempts[job[h]], eval[h])

(* The invariant of the journal, beside IInv.                              *)
JInv ==
  /\ JournalStands /\ EvaluationsStand
  /\ \A h \in Hosts : TakenStands(h) /\ EvalStands(h)

-------------------------------------------------------------------------------
(* A valid attempt was completed, within its budget.                       *)
LEMMA ValidAttempt ==
  ASSUME NEW d \in Designs, NEW a, a # Absent, AttemptType(a), Valid(d, a)
  PROVE  /\ a.status = "completed" /\ a.result \in Outcomes
         /\ a.result.cost \in Nat \cup {-1}
         /\ d.ceiling # 0 => a.result.cost \in Nat /\ a.result.cost <= a.budget
<1>1. a.status # "dispatched" /\ a.status # "failed" /\ a.status # "rejected"
  BY DEF Valid, Classify
<1>2. a.result \in Outcomes /\ a.status = a.result.status
  BY <1>1 DEF AttemptType
<1>3. /\ a.result.status \in {"failed", "rejected", "completed"}
      /\ a.result.fingerprint \in {"own", "other", "foreign"}
      /\ a.result.cost \in Nat \cup {-1}
  BY <1>2, OutcomesAssumption
<1>4. a.status = "completed"
  BY <1>1, <1>2, <1>3
<1>5. a.result.fingerprint = "own" /\ ~Mismatched(d, a)
  BY <1>3, <1>4 DEF Valid, Classify
<1>6. d.ceiling # 0 => a.result.cost # -1 /\ ~(a.result.cost > a.budget)
  BY <1>5 DEF Mismatched
<1> QED
  BY <1>2, <1>3, <1>4, <1>6 DEF AttemptType

(* What an attempt costs, and the costs of the first n of a journal: a run *)
(* has spent their sum (SpentUpto).                                        *)
Cost(d, a) == IF Valid(d, a) THEN a.result.cost ELSE 0

LEMMA CostType ==
  ASSUME NEW d \in Designs, NEW a, a # Absent, AttemptType(a)
  PROVE  Cost(d, a) \in Int
BY ValidAttempt DEF Cost

Costs(d, J, n) == [k \in 1..n |-> Cost(d, J[k])]

LEMMA SpentUpto ==
  ASSUME NEW d \in Designs, d.ceiling # 0, NEW J, NEW n \in Nat
  PROVE  Spent(d, Upto(J, n)) = Sum(Costs(d, J, n), 1..n)
<1>1. DOMAIN Upto(J, n) = 1..n /\ \A k \in 1..n : Upto(J, n)[k] = J[k]
  BY DEF Upto
<1> DEFINE f == [k \in DOMAIN Upto(J, n) |-> IF Valid(d, Upto(J, n)[k])
                                               THEN Upto(J, n)[k].result.cost ELSE 0]
<1>2. Spent(d, Upto(J, n)) = Sum(f, 1..n)
  BY <1>1 DEF Spent, Sum
<1>3. \A k \in 1..n : f[k] = Costs(d, J, n)[k]
  BY <1>1 DEF Costs, Cost
<1> HIDE DEF f
<1>4. IsFiniteSet(1..n)
  BY FS_Interval
<1> QED
  BY <1>2, <1>3, <1>4, SumAgrees

(* What was spent up to the next slot is what was spent before, and its    *)
(* cost.                                                                   *)
LEMMA SpentNext ==
  ASSUME NEW d \in Designs, d.ceiling # 0, NEW J, NEW n \in Nat,
         \A k \in 1..(n + 1) : J[k] # Absent /\ AttemptType(J[k])
  PROVE  /\ Spent(d, Upto(J, n)) \in Int
         /\ Spent(d, Upto(J, n + 1)) = Cost(d, J[n + 1]) + Spent(d, Upto(J, n))
<1>1. /\ n + 1 \in Nat /\ 1..(n + 1) = (1..n) \cup {n + 1} /\ n + 1 \notin 1..n
      /\ 1..n \subseteq 1..(n + 1) /\ n + 1 \in 1..(n + 1)
  OBVIOUS
<1>2. IsFiniteSet(1..n)
  BY FS_Interval
<1> DEFINE f == Costs(d, J, n + 1)
<1>3. \A k \in 1..(n + 1) : f[k] = Cost(d, J[k]) /\ f[k] \in Int
  BY CostType DEF Costs
<1>4. \A k \in 1..n : f[k] = Costs(d, J, n)[k]
  BY <1>1, <1>3 DEF Costs
<1> HIDE DEF f
<1>5. Sum(f, (1..n) \cup {n + 1}) = f[n + 1] + Sum(f, 1..n)
  BY <1>1, <1>2, <1>3, SumAdd
<1>6. Sum(f, 1..n) = Sum(Costs(d, J, n), 1..n)
  BY <1>2, <1>4, SumAgrees
<1>7. Sum(f, 1..n) \in Int
  BY <1>1, <1>2, <1>3, SumType
<1>8. Spent(d, Upto(J, n)) = Sum(Costs(d, J, n), 1..n)
  BY SpentUpto
<1>9. Spent(d, Upto(J, n + 1)) = Sum(f, 1..(n + 1))
  BY <1>1, SpentUpto DEF f
<1> QED
  BY <1>1, <1>3, <1>5, <1>6, <1>7, <1>8, <1>9

LEMMA SpentNothing ==
  ASSUME NEW d \in Designs, NEW J
  PROVE  Spent(d, Upto(J, 0)) = 0
<1>1. CASE d.ceiling = 0
  BY <1>1 DEF Spent
<1>2. CASE d.ceiling # 0
  <2>1. 1..0 = {} /\ 0 \in Nat
    OBVIOUS
  <2> QED
    BY <1>2, <2>1, SpentUpto, SumEmpty
<1> QED
  BY <1>1, <1>2

(* An evaluation of the attempts a run took stands by them.                *)
LEMMA EvaluateFaithful ==
  ASSUME NEW d \in Designs, NEW J, NEW n \in 1..SlotCount(d),
         Passed(d, J, n - 1), J[n] # Absent, Halted(d, Upto(J, n))
  PROVE  Faithful(d, J, Evaluate(d, Upto(J, n)))
<1> DEFINE as == Upto(J, n)
           e == Evaluate(d, as)
           N == SlotCount(d)
           ran == {k \in DOMAIN e.classes : e.classes[k] # "not_run"}
<1>1. /\ n \in Nat /\ n >= 1 /\ N \in Nat /\ n <= N /\ 1..n \subseteq 1..N
      /\ n \in 1..n /\ \A k \in 1..n : k = n \/ k \in 1..(n - 1)
  BY DesignType
<1>2. DOMAIN as = 1..n /\ \A k \in 1..n : as[k] = J[k] /\ J[k] # Absent
  BY <1>1 DEF Upto, Passed
<1>3. /\ e.verdict = Verdict(d, as) /\ e.classes = Classes(d, as)
      /\ DOMAIN e.classes = 1..N
      /\ \A k \in 1..n : e.classes[k] = Classify(d, J[k])
      /\ \A k \in 1..N : k \notin 1..n => e.classes[k] = "not_run"
  BY <1>1, <1>2 DEF Evaluate, Classes
<1>4. \A a : Classify(d, a) # "not_run"
  BY DEF Classify
<1>5. ran = 1..n
  BY <1>1, <1>3, <1>4
<1>6. \A k \in 1..n : 1..k \subseteq 1..n
  BY <1>1
<1>7. Range(Classes(d, as)) = {e.classes[k] : k \in 1..N}
  BY <1>3 DEF Range
<1>8. \A m : ReferenceVerdict(d, m) # "invalid"
  BY DEF ReferenceVerdict
<1> HIDE DEF as, e, ran, N
<1>9. e.verdict = "invalid" <=> \E k \in ran : e.classes[k] # "valid"
  <2>1. ASSUME NEW k \in ran, e.classes[k] # "valid" PROVE e.verdict = "invalid"
    <3>1. e.classes[k] \in Range(Classes(d, as)) \ {"valid", "not_run"}
      BY <1>1, <1>3, <1>4, <1>5, <1>7, <2>1
    <3> QED
      BY <1>3, <3>1 DEF Verdict
  <2>2. ASSUME \A k \in ran : e.classes[k] = "valid" PROVE e.verdict # "invalid"
    <3>1. Range(Classes(d, as)) \ {"valid", "not_run"} = {}
      BY <1>3, <1>5, <1>7, <2>2
    <3> QED
      BY <1>3, <1>8, <3>1 DEF Verdict
  <2> QED
    BY <2>1, <2>2
<1>10. ASSUME e.verdict # "invalid", ran # DOMAIN e.classes
       PROVE  e.verdict = "inconclusive" /\ AtCeiling(d, as)
  <2>1. \A k \in 1..n : e.classes[k] = "valid"
    BY <1>5, <1>9, <1>10
  <2>2. n # N /\ n + 1 \in 1..N /\ n + 1 \notin 1..n
    BY <1>1, <1>3, <1>5, <1>10
  <2>3. "not_run" \in Range(Classes(d, as))
    BY <1>3, <1>7, <2>2
  <2>4. Range(Classes(d, as)) \ {"valid", "not_run"} = {}
    BY <1>3, <1>7, <2>1
  <2>5. e.verdict = "inconclusive"
    BY <1>3, <2>3, <2>4 DEF Verdict
  <2>6. Valid(d, as[n])
    BY <1>1, <1>2, <1>3, <2>1 DEF Valid
  <2>7. Len(as) = n
    BY <1>1, <1>2, IsASeq, as \in [1..n -> {as[k] : k \in 1..n}] DEF as, Upto
  <2>8. Len(as) # SlotCount(d) /\ Valid(d, as[Len(as)])
    BY <2>2, <2>6, <2>7 DEF N
  <2>9. Halted(d, as)
    BY DEF as
  <2> QED
    BY <2>5, <2>8, <2>9 DEF Halted
<1>11. ASSUME e.verdict # "invalid", ran = DOMAIN e.classes
       PROVE  e.verdict = ReferenceVerdict(d, Analyze(d, Measured(as))) /\ n = N
  <2>1. \A k \in 1..N : e.classes[k] = "valid"
    BY <1>3, <1>9, <1>11
  <2>2. Range(Classes(d, as)) = {"valid"}
    BY <1>1, <1>7, <2>1
  <2>3. e.verdict = ReferenceVerdict(d, Analyze(d, Measured(as)))
    BY <1>3, <2>2 DEF Verdict
  <2> QED
    BY <1>1, <1>3, <1>5, <1>11, <2>3
<1>12. as = [k \in 1..n |-> J[k]]
  BY DEF as, Upto
<1>13. DOMAIN e.classes = 1..N /\ [k \in ran |-> [j \in 1..N |-> J[j]][k]] = as
  BY <1>1, <1>3, <1>5, <1>12
<1>14. n = N => [k \in 1..N |-> J[k]] = as
  BY <1>12
<1>15. \A k \in ran : /\ J[k] # Absent
                      /\ e.classes[k] \in {"outcome_unknown", Classify(d, J[k])}
                      /\ 1..k \subseteq ran
  BY <1>2, <1>3, <1>5, <1>6
<1>16. Faithful(d, J, e)
  BY <1>9, <1>10, <1>11, <1>13, <1>14, <1>15 DEF Faithful, ran, N
<1> QED
  BY <1>16 DEF e, as

-------------------------------------------------------------------------------
(* A journal K continues J: what was attempted stays, and what ended stays *)
(* as it ended.                                                            *)
Continues(J, K) ==
  \A k \in Slots : J[k] # Absent =>
    K[k] # Absent /\ (J[k].status # "dispatched" => K[k] = J[k])

(* What was valid has ended, so it continues unchanged: a run that took    *)
(* valid attempts holds what the journal holds, and an evaluation that     *)
(* stood by the journal keeps standing.                                    *)
LEMMA ValidEnded ==
  ASSUME NEW d, NEW a, Valid(d, a)
  PROVE  a.status # "dispatched"
BY DEF Valid, Classify

LEMMA PassedStays ==
  ASSUME NEW d \in Designs, NEW J, NEW K, Continues(J, K),
         NEW n \in Nat, n <= SlotCount(d), Passed(d, J, n)
  PROVE  Passed(d, K, n) /\ Upto(K, n) = Upto(J, n)
<1>1. 1..n \subseteq Slots
  BY DesignType
<1>2. \A k \in 1..n : K[k] = J[k]
  BY <1>1, ValidEnded DEF Passed, Continues
<1> QED
  BY <1>2 DEF Passed, Upto

LEMMA FaithfulStays ==
  ASSUME NEW d \in Designs, NEW J, NEW K, Continues(J, K), NEW e, Faithful(d, J, e)
  PROVE  Faithful(d, K, e)
<1> DEFINE D == DOMAIN e.classes
           ran == {k \in D : e.classes[k] # "not_run"}
<1>1. D = 1..SlotCount(d) /\ D \subseteq Slots
  BY DesignType DEF Faithful
<1>2. \A k \in ran : /\ J[k] # Absent
                     /\ e.classes[k] \in {"outcome_unknown", Classify(d, J[k])}
                     /\ 1..k \subseteq ran
  BY DEF Faithful
<1>3. e.verdict = "invalid" <=> \E k \in ran : e.classes[k] # "valid"
  BY DEF Faithful
<1>4. \A a : a.status = "dispatched" => Classify(d, a) = "outcome_unknown"
  BY DEF Classify
<1>5. \A k \in ran : e.classes[k] \in {"outcome_unknown", Classify(d, K[k])}
  BY <1>1, <1>2, <1>4 DEF Continues
<1>6. \A k \in ran : K[k] # Absent
  BY <1>1, <1>2 DEF Continues
<1>7. ASSUME e.verdict # "invalid" PROVE \A k \in ran : K[k] = J[k]
  BY <1>1, <1>2, <1>3, <1>4, <1>7 DEF Continues
<1>8. /\ e.verdict # "invalid" /\ ran # D =>
           e.verdict = "inconclusive" /\ AtCeiling(d, [k \in ran |-> [j \in D |-> J[j]][k]])
      /\ e.verdict # "invalid" /\ ran = D =>
           e.verdict = ReferenceVerdict(d, Analyze(d, Measured([j \in D |-> J[j]])))
  BY DEF Faithful
<1> HIDE DEF ran, D
<1>9. e.verdict # "invalid" =>
        [k \in ran |-> [j \in D |-> K[j]][k]] = [k \in ran |-> [j \in D |-> J[j]][k]]
  <2>1. ran \subseteq D
    BY DEF ran
  <2> QED
    BY <1>7, <2>1
<1>10. e.verdict # "invalid" /\ ran = D => [j \in D |-> K[j]] = [j \in D |-> J[j]]
  BY <1>7
<1>11. e.verdict # "invalid" /\ ran # D =>
         e.verdict = "inconclusive" /\ AtCeiling(d, [k \in ran |-> [j \in D |-> K[j]][k]])
  BY <1>8, <1>9
<1>12. e.verdict # "invalid" /\ ran = D =>
         e.verdict = ReferenceVerdict(d, Analyze(d, Measured([j \in D |-> K[j]])))
  BY <1>8, <1>10
<1> QED
  BY <1>1, <1>2, <1>3, <1>5, <1>6, <1>11, <1>12 DEF Faithful, ran, D

(* What a run spent is a number.                                           *)
LEMMA SpentType ==
  ASSUME NEW d \in Designs, NEW J, NEW n \in Nat,
         \A k \in 1..n : J[k] # Absent /\ AttemptType(J[k])
  PROVE  Spent(d, Upto(J, n)) \in Int
<1>1. CASE d.ceiling = 0
  BY <1>1 DEF Spent
<1>2. CASE d.ceiling # 0
  <2>1. \A k \in 1..n : Costs(d, J, n)[k] \in Int
    BY CostType DEF Costs
  <2>2. IsFiniteSet(1..n)
    BY FS_Interval
  <2>3. Sum(Costs(d, J, n), 1..n) \in Int
    BY <2>1, <2>2, SumType
  <2> QED
    BY <1>2, <2>3, SpentUpto
<1> QED
  BY <1>1, <1>2

(* The attempts of a journal have their types.                             *)
LEMMA JournalTypes ==
  ASSUME JournalStands, NEW x \in Experiments, declared[x] \in Designs,
         NEW n \in Nat, n <= SlotCount(declared[x]), Passed(declared[x], attempts[x], n)
  PROVE  \A k \in 1..n : attempts[x][k] # Absent /\ AttemptType(attempts[x][k])
<1>1. 1..n \subseteq Slots
  BY DesignType
<1> QED
  BY <1>1 DEF JournalStands, AttemptStands, Passed

-------------------------------------------------------------------------------
(* Who writes the journal, and what.                                       *)
Writes(h, a) ==
  /\ pc[h] \in Walking /\ Journal(h, a) /\ declared' = declared
  /\ AttemptType(a) /\ a # Absent
  /\ a.budget = Budget(Design(h), taken[h])
  /\ attempts[job[h]][Slot(h)] # Absent =>
       attempts[job[h]][Slot(h)].status = "dispatched"

(* The attempts a walking run took, and what they spent.                   *)
LEMMA TakenSpent ==
  ASSUME IInv, JInv, NEW h \in Hosts, pc[h] \in Walking
  PROVE  LET d == Design(h)
             J == attempts[job[h]]
             n == Len(taken[h])
         IN  /\ d \in Designs /\ d = declared[job[h]] /\ job[h] \in Experiments
             /\ n \in Nat /\ Slot(h) = n + 1 /\ n + 1 \in 1..SlotCount(d) /\ n < SlotCount(d)
             /\ n + 1 \in Slots
             /\ taken[h] = Upto(J, n) /\ Passed(d, J, n)
             /\ Spent(d, taken[h]) \in Int
             /\ Budget(d, taken[h]) \in Nat
             /\ d.ceiling # 0 => /\ Spent(d, taken[h]) < d.ceiling
                                 /\ Budget(d, taken[h]) + Spent(d, taken[h]) = d.ceiling
<1> DEFINE d == Design(h)
           J == attempts[job[h]]
           n == Len(taken[h])
<1>1. Shape /\ Standing(h) /\ JournalStands /\ TakenStands(h)
  BY DEF IInv, JInv
<1>2. d \in Designs /\ d = declared[job[h]] /\ job[h] \in Experiments
  BY <1>1, DesignOf DEF Walking
<1>3. n \in Nat
  BY <1>1, AppendType DEF Shape, CallShape
<1>4. Slot(h) = n + 1 /\ Slot(h) \in 1..SlotCount(d) /\ Slot(h) \in Slots
  BY <1>1, SlotOf DEF Slot, Standing
<1>5. SlotCount(d) \in Nat
  BY <1>2, DesignType
<1>6. n < SlotCount(d)
  BY <1>3, <1>4, <1>5
<1>7. /\ taken[h] = Upto(J, n) /\ Passed(d, J, n)
      /\ d.ceiling # 0 => Spent(d, taken[h]) < d.ceiling
  BY <1>1 DEF TakenStands
<1>8. Spent(d, taken[h]) \in Int
  <2>1. \A k \in 1..n : J[k] # Absent /\ AttemptType(J[k])
    <3> HIDE DEF n
    <3> QED
      BY <1>1, <1>2, <1>3, <1>5, <1>6, <1>7, JournalTypes
  <2> HIDE DEF d, J, n
  <2> QED
    BY <1>2, <1>3, <1>7, <2>1, SpentType
<1> HIDE DEF d, J, n
<1>9. d.ceiling \in Nat
  BY <1>2, DesignsAssumption
<1>10. d.ceiling = 0 => Spent(d, taken[h]) = 0
  BY DEF Spent
<1>11. /\ Budget(d, taken[h]) \in Nat
       /\ d.ceiling # 0 => Budget(d, taken[h]) + Spent(d, taken[h]) = d.ceiling
  BY <1>7, <1>8, <1>9, <1>10 DEF Budget
<1> QED
  BY <1>2, <1>3, <1>4, <1>6, <1>7, <1>8, <1>11 DEF d, J, n

(* Only a dispatch and a completion write, each the next slot of its run.  *)
LEMMA AttemptsStep ==
  ASSUME IInv, JInv, [Next]_vars
  PROVE  \/ attempts' = attempts
         \/ \E h \in Hosts : \E a : Writes(h, a) /\ (Dispatch(h) \/ Complete(h))
<1>1. CASE \E h \in Hosts : RunStep(h)
  <2>1. PICK h \in Hosts : RunStep(h)
    BY <1>1
  <2>2. CASE attempts' # attempts /\ Dispatch(h)
    <3>1. /\ pc[h] \in Walking /\ Journal(h, Dispatched(h)) /\ declared' = declared
          /\ attempts[job[h]][Slot(h)] = Absent
      BY <2>2 DEF Dispatch, Walking
    <3>2. Budget(Design(h), taken[h]) \in Nat
      BY <3>1, TakenSpent
    <3>3. /\ AttemptType(Dispatched(h)) /\ Dispatched(h) # Absent
          /\ Dispatched(h).budget = Budget(Design(h), taken[h])
      BY <3>2, DispatchedIsPresent DEF AttemptType, Dispatched
    <3> QED
      BY <2>2, <3>1, <3>3 DEF Writes
  <2>3. CASE Complete(h)
    <3> DEFINE b == Budget(Design(h), taken[h])
               a == [status |-> answer[h].status, result |-> answer[h], budget |-> b]
    <3>1. /\ pc[h] \in Walking /\ pc[h] = "complete" /\ Journal(h, a) /\ declared' = declared
          /\ attempts[job[h]][Slot(h)] = Dispatched(h)
      BY <2>3 DEF Complete, Walking
    <3>2. b \in Nat
      BY <3>1, TakenSpent
    <3>3. answer[h] \in Outcomes
      BY <3>1 DEF IInv, Standing
    <3>4. answer[h].status # "dispatched"
      BY <3>3, OutcomesAssumption
    <3> HIDE DEF b
    <3>5. AttemptType(a) /\ a # Absent /\ a.budget = b
      BY <3>2, <3>3, <3>4, DispatchedIsPresent DEF AttemptType
    <3>6. Dispatched(h).status = "dispatched"
      BY DEF Dispatched
    <3> QED
      BY <2>3, <3>1, <3>5, <3>6 DEF Writes, b
  <2> QED
    BY <2>1, <2>2, <2>3 DEF RunStep, Step, Begin, Refuse, Crash, Load, Raced, Execute,
       ReadIndex, AppendIndex, Record, FoldStream, FoldEvaluations, ReadEdge, AppendEdge,
       VerifyEdge, store
<1>2. CASE ~\E h \in Hosts : RunStep(h)
  BY <1>2, WorldStep
<1> QED
  BY <1>1, <1>2

LEMMA WrittenAttempt ==
  ASSUME IInv, NEW h \in Hosts, NEW a, Writes(h, a)
  PROVE  /\ attempts'[job[h]][Slot(h)] = a
         /\ \A x \in Experiments, k \in Slots :
              x # job[h] \/ k # Slot(h) => attempts'[x][k] = attempts[x][k]
BY JournalShape DEF IInv, Writes

(* Every step continues every journal, and what it adds stands.            *)
LEMMA JournalContinues ==
  ASSUME IInv, JInv, [Next]_vars
  PROVE  \A x \in Experiments : Continues(attempts[x], attempts'[x])
<1>1. CASE attempts' = attempts
  BY <1>1 DEF Continues
<1>2. CASE attempts' # attempts
  <2>0. PICK h \in Hosts : \E a : Writes(h, a)
    BY <1>2, AttemptsStep
  <2>1. PICK a : Writes(h, a)
    BY <2>0
  <2> QED
    BY <2>1, WrittenAttempt DEF Writes, Continues
<1> QED
  BY <1>1, <1>2

LEMMA JournalKept ==
  ASSUME IInv, JInv, [Next]_vars
  PROVE  JournalStands'
<1> SUFFICES ASSUME NEW x \in Experiments, NEW k \in Slots
             PROVE  AttemptStands(declared'[x], attempts'[x], k)
  BY DEF JournalStands
<1> DEFINE d == declared[x]
           J == attempts[x]
           K == attempts'[x]
<1>1. Continues(J, K)
  BY JournalContinues
<1>2. AttemptStands(d, J, k)
  BY DEF JInv, JournalStands
<1>3. Shape /\ Grows
  BY StoreStep DEF IInv
<1>4. CASE K[k] = J[k]
  <2> SUFFICES ASSUME J[k] # Absent PROVE AttemptStands(declared'[x], K, k)
    BY <1>4 DEF AttemptStands
  <2>1. declared'[x] = d /\ d \in Designs /\ k \in 1..SlotCount(d) /\ SlotCount(d) \in Nat
    BY <1>2, <1>3, DesignType DEF AttemptStands, Grows, Shape, StoreShape
  <2>2. k - 1 \in Nat /\ k - 1 <= SlotCount(d)
    BY <2>1
  <2>3. Passed(d, J, k - 1)
    BY <1>2 DEF AttemptStands
  <2> HIDE DEF d, J, K
  <2>4. Passed(d, K, k - 1) /\ Upto(K, k - 1) = Upto(J, k - 1)
    BY <1>1, <2>1, <2>2, <2>3, PassedStays
  <2> QED
    BY <1>2, <1>4, <2>1, <2>4 DEF AttemptStands
<1>5. CASE K[k] # J[k]
  <2>0. PICK h \in Hosts : \E a : Writes(h, a)
    BY <1>5, AttemptsStep
  <2>1. PICK a : Writes(h, a)
    BY <2>0
  <2>2. x = job[h] /\ k = Slot(h) /\ K[k] = a
    BY <1>5, <2>1, WrittenAttempt
  <2>3. pc[h] \in Walking /\ declared' = declared
    BY <2>1 DEF Writes
  <2> DEFINE n == Len(taken[h])
  <2>4. /\ d \in Designs /\ n \in Nat /\ k = n + 1 /\ k \in 1..SlotCount(d)
        /\ n <= SlotCount(d) /\ k - 1 = n
        /\ taken[h] = Upto(J, n) /\ Passed(d, J, n)
        /\ d.ceiling # 0 => Budget(d, taken[h]) + Spent(d, taken[h]) = d.ceiling
        /\ d = Design(h)
    BY <2>2, <2>3, TakenSpent, DesignType
  <2>5. AttemptType(a) /\ a.budget = Budget(d, taken[h])
    BY <2>1, <2>4 DEF Writes
  <2>6. d # Undeclared
    BY <2>2, <2>3, DesignOf DEF IInv, Walking
  <2> HIDE DEF d, J, K, n
  <2>7. Passed(d, K, n) /\ Upto(K, n) = Upto(J, n)
    BY <1>1, <2>4, PassedStays
  <2>8. declared'[x] = d
    BY <2>3 DEF d
  <2>9. /\ AttemptType(K[k]) /\ Passed(d, K, k - 1)
        /\ taken[h] = Upto(K, k - 1) /\ K[k].budget = Budget(d, taken[h])
    BY <2>2, <2>4, <2>5, <2>7
  <2>10. d.ceiling # 0 => K[k].budget + Spent(d, Upto(K, k - 1)) = d.ceiling
    BY <2>4, <2>9
  <2> QED
    BY <2>4, <2>6, <2>8, <2>9, <2>10 DEF AttemptStands, K
<1> QED
  BY <1>4, <1>5

-------------------------------------------------------------------------------
(* What a run relies on survives the steps of the others.                  *)
LEMMA DesignOfWalker ==
  ASSUME IInv, [Next]_vars, NEW g \in Hosts, pc[g] # "idle", job'[g] = job[g]
  PROVE  /\ Design(g)' = Design(g) /\ Design(g) \in Designs /\ job[g] \in Experiments
         /\ Design(g) = declared[job[g]] /\ Design(g) # Undeclared
<1>1. Shape /\ Standing(g) /\ Grows
  BY StoreStep DEF IInv
<1>2. Design(g) \in Designs /\ job[g] \in Experiments /\ Design(g) # Undeclared
  BY <1>1, DesignOf DEF Standing
<1> QED
  BY <1>1, <1>2, DesignStays DEF Design

LEMMA OthersStand ==
  ASSUME IInv, JInv, [Next]_vars, NEW g \in Hosts, Untouched(g)
  PROVE  TakenStands(g)' /\ EvalStands(g)'
<1> DEFINE d == Design(g)
           J == attempts[job[g]]
           K == attempts'[job[g]]
           n == Len(taken[g])
<1>1. pc'[g] = pc[g] /\ job'[g] = job[g] /\ taken'[g] = taken[g] /\ eval'[g] = eval[g]
  BY DEF Untouched
<1>2. ASSUME pc[g] \in Walking PROVE TakenStands(g)'
  <2>1. /\ d \in Designs /\ n \in Nat /\ n <= SlotCount(d) /\ job[g] \in Experiments
        /\ taken[g] = Upto(J, n) /\ Passed(d, J, n)
        /\ d.ceiling # 0 => Spent(d, taken[g]) < d.ceiling
    BY <1>2, TakenSpent, DesignType
  <2>2. Continues(J, K)
    BY <2>1, JournalContinues
  <2>3. Design(g)' = d
    BY <1>1, <1>2, DesignOfWalker DEF Walking
  <2> HIDE DEF d, J, K, n
  <2>4. Passed(d, K, n) /\ Upto(K, n) = Upto(J, n)
    BY <2>1, <2>2, PassedStays
  <2> QED
    BY <1>1, <2>1, <2>3, <2>4 DEF TakenStands, K, n
<1>3. ASSUME pc[g] \in Evaluating \cup Folding PROVE EvalStands(g)'
  <2>1. pc[g] # "idle"
    BY <1>3 DEF Evaluating, Folding
  <2>2. Design(g)' = d /\ d \in Designs /\ job[g] \in Experiments
    BY <1>1, <2>1, DesignOfWalker
  <2>3. Faithful(d, J, eval[g])
    BY <1>3 DEF JInv, EvalStands
  <2>4. Continues(J, K)
    BY <2>2, JournalContinues
  <2> HIDE DEF d, J, K
  <2>5. Faithful(d, K, eval[g])
    BY <2>2, <2>3, <2>4, FaithfulStays
  <2> QED
    BY <1>1, <2>2, <2>5 DEF EvalStands, K
<1> QED
  BY <1>1, <1>2, <1>3 DEF TakenStands, EvalStands

(* A run that ended relies on nothing.                                     *)
LEMMA EndedStands ==
  ASSUME NEW h \in Hosts, pc'[h] = "idle"
  PROVE  TakenStands(h)' /\ EvalStands(h)'
BY DEF TakenStands, EvalStands, Walking, Evaluating, Folding

(* A walked slot.                                                          *)
LEMMA WalkStands ==
  ASSUME IInv, JInv, [Next]_vars, NEW h \in Hosts, pc[h] \in Walking, NEW a, Walk(h, a),
         job' = job, attempts'[job[h]][Slot(h)] = a, a # Absent, JournalStands'
  PROVE  TakenStands(h)' /\ EvalStands(h)'
<1> DEFINE d == Design(h)
           J == attempts[job[h]]
           K == attempts'[job[h]]
           n == Len(taken[h])
           as == Append(taken[h], a)
<1>1. /\ d \in Designs /\ n \in Nat /\ Slot(h) = n + 1 /\ job[h] \in Experiments
      /\ n + 1 \in 1..SlotCount(d) /\ n <= SlotCount(d) /\ n + 1 \in Slots
      /\ taken[h] = Upto(J, n) /\ Passed(d, J, n) /\ d = declared[job[h]]
  BY TakenSpent, DesignType
<1>2. Continues(J, K)
  BY <1>1, JournalContinues
<1>3. Design(h)' = d /\ declared'[job[h]] = d
  <2>1. job'[h] = job[h] /\ pc[h] # "idle"
    BY DEF Walking
  <2>2. Design(h)' = d
    BY <2>1, DesignOfWalker
  <2> QED
    BY <2>1, <2>2 DEF Design
<1>4. Shape
  BY DEF IInv
<1>5. taken'[h] = as
  BY <1>4 DEF Walk, Shape, CallShape
<1> HIDE DEF d, J, K, n
<1>6. Passed(d, K, n) /\ Upto(K, n) = Upto(J, n)
  BY <1>1, <1>2, PassedStays
<1>7. K[n + 1] = a
  BY <1>1 DEF K
<1>8. as = Upto(K, n + 1) /\ Len(as) = n + 1
  <2>1. taken[h] = [k \in 1..n |-> K[k]]
    BY <1>1, <1>6 DEF Upto
  <2>2. Append([k \in 1..n |-> K[k]], K[n + 1]) = [k \in 1..(n + 1) |-> K[k]]
    <3>1. [k \in 1..n |-> K[k]] \in [1..n -> {K[k] : k \in 1..n}]
      OBVIOUS
    <3>2. Len([k \in 1..n |-> K[k]]) = n
      BY <1>1, <3>1, IsASeq
    <3> QED
      BY <1>1, <3>1, <3>2
  <2>3. [k \in 1..(n + 1) |-> K[k]] \in [1..(n + 1) -> {K[k] : k \in 1..(n + 1)}]
    OBVIOUS
  <2>4. Len([k \in 1..(n + 1) |-> K[k]]) = n + 1
    <3>1. n + 1 \in Nat
      BY <1>1
    <3> QED
      BY <2>3, <3>1, IsASeq
  <2> QED
    BY <1>7, <2>1, <2>2, <2>4 DEF Upto, as
<1>9. (n + 1) - 1 = n /\ n + 1 \in Nat /\ 1..(n + 1) = (1..n) \cup {n + 1}
  BY <1>1
<1> HIDE DEF as
<1>10. CASE Halted(d, as)
  <2>1. pc'[h] = "index_read" /\ eval'[h] = Evaluate(d, as)
    BY <1>4, <1>10 DEF Walk, Finalize, Goto, Shape, CallShape, as, d
  <2>2. Faithful(d, K, Evaluate(d, as))
    BY <1>1, <1>6, <1>7, <1>8, <1>9, <1>10, EvaluateFaithful
  <2>3. Faithful(Design(h)', attempts'[job'[h]], eval'[h])
    BY <1>3, <2>1, <2>2 DEF K
  <2> QED
    BY <2>1, <2>3 DEF TakenStands, EvalStands, Walking
<1>11. CASE ~Halted(d, as)
  <2>1. pc'[h] = "load"
    BY <1>4, <1>11 DEF Walk, Goto, Shape, CallShape, as, d
  <2>2. as # << >> /\ as[Len(as)] = a
    BY <1>7, <1>8, <1>9 DEF Upto
  <2>3. Valid(d, a) /\ ~AtCeiling(d, as)
    BY <1>11, <2>2 DEF Halted
  <2>4. Passed(d, K, n + 1)
    BY <1>6, <1>7, <1>9, <2>3 DEF Passed
  <2>5. ASSUME d.ceiling # 0 PROVE Spent(d, as) < d.ceiling
    <3>1. \A k \in 1..(n + 1) : K[k] # Absent /\ AttemptType(K[k])
      <4>1. 1..(n + 1) \subseteq Slots
        BY <1>1, DesignType
      <4> QED
        BY <1>1, <2>4, <4>1 DEF JournalStands, AttemptStands, Passed, K
    <3>2. Spent(d, as) \in Int
      BY <1>1, <1>8, <1>9, <3>1, SpentType
    <3>3. d.ceiling \in Nat
      BY <1>1, DesignsAssumption
    <3>4. ~(Spent(d, as) >= d.ceiling)
      BY <2>2, <2>3, <2>5 DEF AtCeiling
    <3>5. \A m \in Int, b \in Nat : ~(m >= b) => m < b
      OBVIOUS
    <3> QED
      BY <3>2, <3>3, <3>4, <3>5
  <2>6. job'[h] = job[h]
    OBVIOUS
  <2>7. TakenStands(h)'
    BY <1>3, <1>5, <1>8, <2>4, <2>5, <2>6 DEF TakenStands, K
  <2> QED
    BY <2>1, <2>7 DEF EvalStands, Evaluating, Folding
<1> QED
  BY <1>10, <1>11

(* A run that begins has taken and spent nothing.                          *)
LEMMA BeginStands ==
  ASSUME IInv, JInv, [Next]_vars, NEW h \in Hosts, NEW x \in Experiments, Begin(h, x)
  PROVE  TakenStands(h)' /\ EvalStands(h)'
<1>1. Shape /\ Standing(h)
  BY DEF IInv
<1>2. /\ pc[h] = "idle" /\ declared[x] # Undeclared /\ job'[h] = x
      /\ UNCHANGED <<declared, attempts, evaluation, taken>>
  BY <1>1 DEF Begin, Shape, CallShape, store
<1>3. taken[h] = << >> /\ declared[x] \in Designs
  BY <1>1, <1>2 DEF Standing, Shape, StoreShape
<1>4. \/ pc'[h] = "load"
      \/ pc'[h] = "index_read" /\ eval'[h] = evaluation[x] /\ Recorded(x)
  BY <1>1 DEF Begin, Finalize, Goto, Shape, CallShape
<1>5. << >> = Upto(attempts[x], 0) /\ Passed(declared[x], attempts[x], 0) /\ Len(<< >>) = 0
  BY DEF Upto, Passed
<1>6. declared[x].ceiling \in Nat
  BY <1>3, DesignsAssumption
<1>7. Spent(declared[x], << >>) = 0
  BY <1>3, <1>5, SpentNothing
<1>8. TakenStands(h)'
  BY <1>2, <1>3, <1>5, <1>6, <1>7 DEF TakenStands, Design
<1>9. Recorded(x) => Faithful(declared[x], attempts[x], evaluation[x])
  BY DEF JInv, EvaluationsStand
<1> QED
  BY <1>2, <1>4, <1>8, <1>9 DEF EvalStands, Evaluating, Folding, Design

(* A run that goes on with what it has.                                    *)
LEMMA MovesStand ==
  ASSUME IInv, JInv, [Next]_vars, NEW h \in Hosts,
         job'[h] = job[h], taken'[h] = taken[h],
         pc'[h] \in Walking => pc[h] \in Walking,
         pc'[h] \in Evaluating \cup Folding =>
           /\ pc[h] # "idle"
           /\ \/ pc[h] \in Evaluating \cup Folding /\ eval'[h] = eval[h]
              \/ Recorded(job[h]) /\ eval'[h] = evaluation[job[h]]
  PROVE  TakenStands(h)' /\ EvalStands(h)'
<1> DEFINE d == Design(h)
           J == attempts[job[h]]
           K == attempts'[job[h]]
           n == Len(taken[h])
<1>2. ASSUME pc'[h] \in Walking PROVE TakenStands(h)'
  <2>1. /\ d \in Designs /\ n \in Nat /\ n <= SlotCount(d) /\ job[h] \in Experiments
        /\ taken[h] = Upto(J, n) /\ Passed(d, J, n)
        /\ d.ceiling # 0 => Spent(d, taken[h]) < d.ceiling
    BY <1>2, TakenSpent, DesignType
  <2>2. Continues(J, K)
    BY <2>1, JournalContinues
  <2>3. Design(h)' = d
    BY <1>2, DesignOfWalker DEF Walking
  <2> HIDE DEF d, J, K, n
  <2>4. Passed(d, K, n) /\ Upto(K, n) = Upto(J, n)
    BY <2>1, <2>2, PassedStays
  <2> QED
    BY <2>1, <2>3, <2>4 DEF TakenStands, K, n
<1>3. ASSUME pc'[h] \in Evaluating \cup Folding PROVE EvalStands(h)'
  <2>2. Design(h)' = d /\ d \in Designs /\ job[h] \in Experiments /\ d = declared[job[h]]
    BY <1>3, DesignOfWalker
  <2>3. Faithful(d, J, eval'[h])
    BY <1>3, <2>2 DEF JInv, EvalStands, EvaluationsStand
  <2>4. Continues(J, K)
    BY <2>2, JournalContinues
  <2> HIDE DEF d, J, K
  <2>5. Faithful(d, K, eval'[h])
    BY <2>2, <2>3, <2>4, FaithfulStays
  <2> QED
    BY <2>2, <2>5 DEF EvalStands, K
<1> QED
  BY <1>2, <1>3 DEF TakenStands, EvalStands

(* Every step of a run leaves it with what it relies on.                   *)
LEMMA RunStands ==
  ASSUME IInv, JInv, [Next]_vars, NEW h \in Hosts, RunStep(h)
  PROVE  TakenStands(h)' /\ EvalStands(h)'
<1>0. Shape /\ Standing(h) /\ JournalStands'
  BY JournalKept DEF IInv
<1> DEFINE Goes == /\ job'[h] = job[h] /\ taken'[h] = taken[h]
                   /\ pc'[h] \in Walking => pc[h] \in Walking
                   /\ pc'[h] \in Evaluating \cup Folding =>
                        /\ pc[h] # "idle"
                        /\ \/ pc[h] \in Evaluating \cup Folding /\ eval'[h] = eval[h]
                           \/ Recorded(job[h]) /\ eval'[h] = evaluation[job[h]]
<1>1. ASSUME Goes PROVE TakenStands(h)' /\ EvalStands(h)'
  BY <1>1, MovesStand
<1>2. ASSUME NEW o, Finish(h, o) PROVE TakenStands(h)' /\ EvalStands(h)'
  <2>1. pc'[h] = "idle"
    BY <1>0, <1>2 DEF Finish, Goto, Shape, CallShape
  <2> QED
    BY <2>1, EndedStands
<1>3. ASSUME NEW step \in {"index_read", "edge_read"}, Conflict(h, step),
             pc[h] \in {"index_append", "edge_append"}
      PROVE  TakenStands(h)' /\ EvalStands(h)'
  <2>1. CASE Finish(h, "store.conflict")
    BY <1>2, <2>1
  <2>2. CASE ~Finish(h, "store.conflict")
    <3>1. /\ pc'[h] = step /\ UNCHANGED <<job, taken, eval>>
      BY <1>0, <1>3, <2>2 DEF Conflict, Goto, Shape, CallShape
    <3>2. Goes
      BY <1>3, <3>1 DEF Walking, Evaluating, Folding
    <3> QED
      BY <1>1, <3>2
  <2> QED
    BY <2>1, <2>2
<1>4. CASE \E x \in Experiments : Begin(h, x)
  BY <1>4, BeginStands
<1>5. CASE Refuse(h) \/ Crash(h) \/ VerifyEdge(h)
  BY <1>2, <1>5 DEF Refuse, Crash, VerifyEdge
<1>6. CASE Load(h)
  <2>1. CASE Walk(h, attempts[job[h]][Slot(h)])
    <3>1. /\ pc[h] \in Walking /\ job' = job /\ attempts' = attempts
          /\ attempts[job[h]][Slot(h)] # Absent
      <4>1. pc[h] = "load" /\ job' = job /\ attempts' = attempts
        BY <1>6 DEF Load, store
      <4>2. attempts[job[h]][Slot(h)] # Absent
        <5>1. ASSUME attempts[job[h]][Slot(h)] = Absent PROVE FALSE
          <6>1. taken' = taken
            BY <1>6, <5>1 DEF Load
          <6>2. taken'[h] = Append(taken[h], attempts[job[h]][Slot(h)])
            BY <1>0, <2>1 DEF Walk, Shape, CallShape
          <6>3. Len(taken'[h]) = Len(taken[h]) + 1 /\ Len(taken[h]) \in Nat
            BY <1>0, <6>2, AppendType DEF Shape, CallShape
          <6> QED
            BY <6>1, <6>3
        <5> QED
          BY <5>1
      <4> QED
        BY <4>1, <4>2 DEF Walking
    <3> QED
      BY <1>0, <2>1, <3>1, WalkStands
  <2>2. CASE ~Walk(h, attempts[job[h]][Slot(h)])
    <3>1. pc'[h] = "raced" /\ pc[h] = "load" /\ UNCHANGED <<job, taken>>
      BY <1>0, <1>6, <2>2 DEF Load, Goto, Shape, CallShape
    <3>2. Goes
      BY <3>1 DEF Walking, Evaluating, Folding
    <3> QED
      BY <1>1, <3>2
  <2> QED
    BY <2>1, <2>2
<1>7. CASE Complete(h)
  <2> DEFINE a == [status |-> answer[h].status, result |-> answer[h],
                   budget |-> Budget(Design(h), taken[h])]
  <2>1. /\ pc[h] \in Walking /\ pc[h] = "complete" /\ job' = job
        /\ Journal(h, a) /\ Walk(h, a)
    BY <1>7 DEF Complete, Walking
  <2>2. a # Absent
    BY <1>0, <2>1, DispatchedIsPresent DEF Standing
  <2> HIDE DEF a
  <2>3. attempts'[job[h]][Slot(h)] = a
    BY <1>0, <2>1, JournalShape
  <2> QED
    BY <1>0, <2>1, <2>2, <2>3, WalkStands
<1>8. CASE Raced(h) \/ Dispatch(h) \/ Execute(h)
  <2>1. Goes
    BY <1>0, <1>8 DEF Raced, Dispatch, Execute, Goto, Finalize, local, Walking, Evaluating,
       Folding, Shape, CallShape
  <2> QED
    BY <1>1, <2>1
<1>9. CASE ReadIndex(h)
  <2>1. CASE \E o : Finish(h, o)
    BY <1>2, <2>1
  <2>2. CASE ~\E o : Finish(h, o)
    <3>1. Goes
      BY <1>0, <1>9, <2>2 DEF ReadIndex, Goto, Walking, Evaluating, Folding, Shape, CallShape
    <3> QED
      BY <1>1, <3>1
  <2> QED
    BY <2>1, <2>2
<1>10. CASE AppendIndex(h)
  <2>1. CASE Conflict(h, "index_read")
    <3>1. pc[h] = "index_append"
      BY <1>10 DEF AppendIndex
    <3> QED
      BY <1>3, <2>1, <3>1
  <2>2. CASE ~Conflict(h, "index_read")
    <3>1. pc[h] = "index_append" /\ pc'[h] = "record" /\ UNCHANGED <<job, taken, eval>>
      BY <1>0, <1>10, <2>2 DEF AppendIndex, Goto, Shape, CallShape
    <3>2. Goes
      BY <3>1 DEF Walking, Evaluating, Folding
    <3> QED
      BY <1>1, <3>2
  <2> QED
    BY <2>1, <2>2
<1>11. CASE Record(h)
  <2>1. /\ pc[h] = "record" /\ pc'[h] = "fold_stream" /\ UNCHANGED <<job, taken>>
        /\ eval'[h] = evaluation'[job[h]]
    BY <1>0, <1>11 DEF Record, Goto, Shape, CallShape
  <2>2. job[h] \in Experiments
    BY <1>0 DEF Shape, CallShape
  <2>3. evaluation'[job[h]] = IF Recorded(job[h]) THEN evaluation[job[h]] ELSE eval[h]
    BY <1>0, <1>11, <2>2 DEF Record, Shape, StoreShape
  <2>4. Goes
    BY <2>1, <2>3 DEF Walking, Evaluating, Folding
  <2> QED
    BY <1>1, <2>4
<1>12. CASE FoldStream(h)
  <2>1. /\ pc[h] = "fold_stream" /\ pc'[h] = "fold_evaluations"
        /\ UNCHANGED <<job, taken, eval>>
    BY <1>0, <1>12 DEF FoldStream, Goto, Shape, CallShape
  <2>2. Goes
    BY <2>1 DEF Walking, Evaluating, Folding
  <2> QED
    BY <1>1, <2>2
<1>13. CASE FoldEvaluations(h) \/ ReadEdge(h)
  <2>1. CASE \E o : Finish(h, o)
    BY <1>2, <2>1
  <2>2. CASE ~\E o : Finish(h, o)
    <3>1. /\ pc[h] \in {"fold_evaluations", "edge_read"}
          /\ pc'[h] \in {"edge_read", "edge_append"} /\ UNCHANGED <<job, taken, eval>>
      BY <1>0, <1>13, <2>2 DEF FoldEvaluations, ReadEdge, Goto, local, Shape, CallShape
    <3>2. Goes
      BY <3>1 DEF Walking, Evaluating, Folding
    <3> QED
      BY <1>1, <3>2
  <2> QED
    BY <2>1, <2>2
<1>14. CASE AppendEdge(h)
  <2>1. CASE Conflict(h, "edge_read")
    <3>1. pc[h] = "edge_append"
      BY <1>14 DEF AppendEdge
    <3> QED
      BY <1>3, <2>1, <3>1
  <2>2. CASE ~Conflict(h, "edge_read")
    <3>1. pc[h] = "edge_append" /\ pc'[h] = "edge_verify" /\ UNCHANGED <<job, taken, eval>>
      BY <1>0, <1>14, <2>2 DEF AppendEdge, Goto, local, Shape, CallShape
    <3>2. Goes
      BY <3>1 DEF Walking, Evaluating, Folding
    <3> QED
      BY <1>1, <3>2
  <2> QED
    BY <2>1, <2>2
<1> QED
  BY <1>4, <1>5, <1>6, <1>7, <1>8, <1>9, <1>10, <1>11, <1>12, <1>13, <1>14
     DEF RunStep, Step

(* Only the run that records an evaluation writes one.                     *)
LEMMA EvaluationsKept ==
  ASSUME IInv, JInv, [Next]_vars
  PROVE  EvaluationsStand'
<1> SUFFICES ASSUME NEW x \in Experiments, evaluation'[x] # NoEvaluation
             PROVE  /\ declared'[x] # Undeclared
                    /\ Faithful(declared'[x], attempts'[x], evaluation'[x])
  BY DEF EvaluationsStand, Recorded
<1>1. Shape /\ Grows
  BY StoreStep DEF IInv
<1>2. ASSUME declared[x] # Undeclared,
             Faithful(declared[x], attempts[x], evaluation'[x])
      PROVE  /\ declared'[x] # Undeclared
             /\ Faithful(declared'[x], attempts'[x], evaluation'[x])
  <2>1. declared'[x] = declared[x] /\ declared[x] \in Designs
    BY <1>1, <1>2 DEF Grows, Shape, StoreShape
  <2>2. Continues(attempts[x], attempts'[x])
    BY JournalContinues
  <2> QED
    BY <1>2, <2>1, <2>2, FaithfulStays
<1>3. CASE evaluation'[x] = evaluation[x]
  BY <1>2, <1>3 DEF JInv, EvaluationsStand, Recorded
<1>4. CASE evaluation'[x] # evaluation[x]
  <2>1. PICK h \in Hosts : Record(h)
    BY <1>4 DEF Next, Declare, Publisher, Step, Begin, Refuse, Crash, Load, Raced, Dispatch,
       Execute, Complete, ReadIndex, AppendIndex, FoldStream, FoldEvaluations, ReadEdge,
       AppendEdge, VerifyEdge, store, vars
  <2>2. pc[h] = "record" /\ x = job[h] /\ evaluation'[x] = eval[h]
    BY <1>1, <1>4, <2>1 DEF Record, Shape, StoreShape
  <2>3. Faithful(Design(h), attempts[x], eval[h])
    BY <2>2 DEF JInv, EvalStands, Evaluating
  <2>4. declared[x] = Design(h) /\ Design(h) # Undeclared
    BY <2>2, DesignOf DEF IInv
  <2> QED
    BY <1>2, <2>2, <2>3, <2>4
<1> QED
  BY <1>3, <1>4

(* The journal, the runs and the evaluations stand together.               *)
LEMMA JournalInductive == Spec => []JInv
<1>1. Init => JInv
  <2> SUFFICES ASSUME Init PROVE JInv
    OBVIOUS
  <2>1. JournalStands /\ EvaluationsStand
    BY DEF Init, JournalStands, AttemptStands, EvaluationsStand, Recorded
  <2>2. \A h \in Hosts : TakenStands(h) /\ EvalStands(h)
    BY DEF Init, TakenStands, EvalStands, Walking, Evaluating, Folding
  <2> QED
    BY <2>1, <2>2 DEF JInv
<1>2. IInv /\ JInv /\ [Next]_vars => JInv'
  <2> SUFFICES ASSUME IInv, JInv, [Next]_vars PROVE JInv'
    OBVIOUS
  <2>1. ASSUME NEW g \in Hosts PROVE TakenStands(g)' /\ EvalStands(g)'
    <3>1. CASE \E h \in Hosts : RunStep(h)
      <4>1. PICK h \in Hosts : RunStep(h)
        BY <3>1
      <4>2. CASE g = h
        BY <4>1, <4>2, RunStands
      <4>3. CASE g # h
        <5>1. Untouched(g)
          BY <4>1, <4>3, OthersKeep DEF IInv
        <5> QED
          BY <5>1, OthersStand
      <4> QED
        BY <4>2, <4>3
    <3>2. CASE ~\E h \in Hosts : RunStep(h)
      <4>1. Untouched(g)
        BY <3>2, WorldStep DEF Untouched, local
      <4> QED
        BY <4>1, OthersStand
    <3> QED
      BY <3>1, <3>2
  <2> QED
    BY <2>1, JournalKept, EvaluationsKept DEF JInv
<1> QED
  BY <1>1, <1>2, Inductive, PTL DEF Spec

(* What counts from 1 without a gap is an interval.                        *)
LEMMA NoGap ==
  ASSUME NEW N \in Nat, NEW P \in SUBSET (1..N), \A k \in P : 1..(k - 1) \subseteq P
  PROVE  P = 1..Cardinality(P)
<1> DEFINE C == {n \in Nat : \E m \in 0..n : P \cap (1..n) = 1..m}
<1>1. 0 \in C
  OBVIOUS
<1>2. ASSUME NEW n \in Nat, n \in C PROVE n + 1 \in C
  <2>1. PICK m \in 0..n : P \cap (1..n) = 1..m
    BY <1>2
  <2>2. 1..(n + 1) = (1..n) \cup {n + 1}
    OBVIOUS
  <2>3. CASE n + 1 \in P
    <3>1. 1..n \subseteq P
      BY <2>3
    <3>2. P \cap (1..(n + 1)) = 1..(n + 1) /\ n + 1 \in 0..(n + 1)
      BY <2>2, <2>3, <3>1
    <3> QED
      BY <3>2
  <2>4. CASE n + 1 \notin P
    <3>1. P \cap (1..(n + 1)) = 1..m /\ m \in 0..(n + 1)
      BY <2>1, <2>2, <2>4
    <3> QED
      BY <3>1
  <2> QED
    BY <2>3, <2>4
<1>3. Nat \subseteq C
  <2> HIDE DEF C
  <2> QED
    BY <1>1, <1>2, CountingUp
<1>4. P \cap (1..N) = P
  OBVIOUS
<1>5. PICK m \in 0..N : P = 1..m
  <2>1. N \in C
    BY <1>3
  <2>2. PICK m \in 0..N : P \cap (1..N) = 1..m
    BY <2>1
  <2> QED
    BY <1>4, <2>2
<1>6. Cardinality(1..m) = m
  BY FS_Interval
<1> QED
  BY <1>5, <1>6

(* What the runs spend on an experiment stays within its ceiling, and each *)
(* attempt is given what the earlier ones left (remainingBudget).          *)
THEOREM SpendStaysBounded == Spec => []SpendBounded
<1>1. IInv /\ JInv => SpendBounded
  <2> SUFFICES ASSUME IInv, JInv, NEW x \in Experiments,
                      declared[x] # Undeclared, declared[x].ceiling # 0
               PROVE  LET d == declared[x]
                          n == Cardinality({k \in Slots : attempts[x][k] # Absent})
                          upTo(k) == [j \in 1..k |-> attempts[x][j]]
                      IN  /\ Spent(d, upTo(n)) <= d.ceiling
                          /\ \A k \in 1..n :
                               attempts[x][k].budget + Spent(d, upTo(k - 1)) = d.ceiling
    BY DEF SpendBounded
  <2> DEFINE d == declared[x]
             J == attempts[x]
             P == {k \in Slots : J[k] # Absent}
             n == Cardinality(P)
  <2>1. d \in Designs /\ d.ceiling \in Nat
    BY DesignsAssumption DEF IInv, Shape, StoreShape
  <2>2. SlotCount(d) \in Nat /\ 1..SlotCount(d) \subseteq Slots
    BY <2>1, DesignType
  <2>3. \A k \in P : /\ k \in 1..SlotCount(d) /\ AttemptType(J[k]) /\ Passed(d, J, k - 1)
                     /\ J[k].budget + Spent(d, Upto(J, k - 1)) = d.ceiling
    BY DEF JInv, JournalStands, AttemptStands
  <2>4. \A k \in P : 1..(k - 1) \subseteq P
    BY <2>2, <2>3 DEF Passed
  <2>5. P = 1..n
    <3>1. P \in SUBSET (1..SlotCount(d))
      BY <2>3
    <3> HIDE DEF P
    <3> QED
      BY <2>2, <2>4, <3>1, NoGap
  <2>6. n \in Nat
    <3>1. IsFiniteSet(1..SlotCount(d))
      BY <2>2, FS_Interval
    <3>2. P \subseteq 1..SlotCount(d)
      BY <2>3
    <3> HIDE DEF P
    <3> QED
      BY <3>1, <3>2, FS_Subset, FS_CardinalityType
  <2> HIDE DEF d, J, P, n
  <2>7. Spent(d, Upto(J, n)) <= d.ceiling
    <3>1. CASE n = 0
      BY <2>1, <3>1, SpentNothing
    <3>2. CASE n # 0
      <4>1. n - 1 \in Nat /\ (n - 1) + 1 = n /\ n \in P /\ n \in 1..n
        BY <2>5, <2>6, <3>2
      <4>2. \A k \in 1..n : J[k] # Absent /\ AttemptType(J[k])
        BY <2>3, <2>5 DEF P
      <4>3. /\ Spent(d, Upto(J, n - 1)) \in Int
            /\ Spent(d, Upto(J, n)) = Cost(d, J[n]) + Spent(d, Upto(J, n - 1))
        <5>1. d.ceiling # 0
          BY DEF d
        <5> QED
          BY <2>1, <4>1, <4>2, <5>1, SpentNext
      <4>4. Cost(d, J[n]) <= J[n].budget /\ Cost(d, J[n]) \in Int /\ J[n].budget \in Nat
        <5>1. d.ceiling # 0
          BY DEF d
        <5>2. J[n] # Absent /\ AttemptType(J[n])
          BY <4>1, <4>2
        <5> QED
          BY <2>1, <5>1, <5>2, ValidAttempt DEF Cost, AttemptType
      <4>5. J[n].budget + Spent(d, Upto(J, n - 1)) = d.ceiling
        BY <2>3, <4>1
      <4> QED
        BY <2>1, <4>3, <4>4, <4>5
    <3> QED
      BY <3>1, <3>2
  <2>8. \A k \in 1..n : J[k].budget + Spent(d, Upto(J, k - 1)) = d.ceiling
    BY <2>3, <2>5
  <2> QED
    BY <2>7, <2>8 DEF d, J, P, n, Upto
<1> QED
  BY <1>1, Inductive, JournalInductive, PTL

(* Every recorded evaluation stands by the journal as it still reads, and  *)
(* its verdict by the rule (parseEvaluationResult), whichever runs raced.  *)
THEOREM EvaluationsAreFaithful == Spec => []EvaluationFaithful
<1>1. JInv => EvaluationFaithful
  BY DEF JInv, EvaluationsStand, Faithful, EvaluationFaithful
<1> QED
  BY <1>1, JournalInductive, PTL

-------------------------------------------------------------------------------
(***************************************************************************)
(* The decision rule, for any grading of any design.                       *)
(***************************************************************************)

(* Whole division: the quotient and the rest are what they should be, and  *)
(* no other.                                                               *)
LEMMA DivUnique ==
  ASSUME NEW b \in Nat \ {0}, NEW q \in Nat, NEW s \in 0..(b - 1)
  PROVE  (b * q + s) \div b = q /\ (b * q + s) % b = s
OBVIOUS

LEMMA Divides ==
  ASSUME NEW x \in Nat, NEW b \in Nat \ {0}
  PROVE  \E q \in Nat, s \in 0..(b - 1) : x = b * q + s /\ x \div b = q /\ x % b = s
<1>1. x \div b \in Nat
  <2>1. x \div b \in Int
    OBVIOUS
  <2>2. x \div b >= 0
    OBVIOUS
  <2> QED
    BY <2>1, <2>2
<1>2. x % b \in 0..(b - 1)
  OBVIOUS
<1>3. x = b * (x \div b) + (x % b)
  OBVIOUS
<1> QED
  BY <1>1, <1>2, <1>3

(* The slots of an episode's repetition are neighbours, control first.     *)
SlotIndex(R, e, r, t) == 2 * (R * (e - 1) + (r - 1)) + t + 1

LEMMA SlotIndexed ==
  ASSUME NEW E \in Nat \ {0}, NEW R \in Nat \ {0}, NEW e \in 1..E, NEW r \in 1..R,
         NEW t \in {0, 1}
  PROVE  LET k == SlotIndex(R, e, r, t)
         IN  /\ k \in 1..(2 * E * R)
             /\ (k - 1) \div (2 * R) = e - 1
             /\ ((k - 1) \div 2) % R = r - 1
             /\ k % 2 = 1 <=> t = 0
<1> DEFINE p == R * (e - 1)
           a == p + (r - 1)
           k == SlotIndex(R, e, r, t)
<1>1. p \in Nat /\ p + R = R * e /\ R * e <= R * E /\ 2 * E * R = 2 * (R * E)
  <2>1. e - 1 \in Nat
    OBVIOUS
  <2>2. p \in Nat
    BY <2>1
  <2>3. p + R = R * e
    BY <2>1
  <2>4. R * e <= R * E
    <3>1. E - e \in Nat /\ E = e + (E - e)
      OBVIOUS
    <3>2. R * E = R * e + R * (E - e) /\ R * (E - e) \in Nat
      BY <3>1
    <3> QED
      BY <3>2
  <2> QED
    BY <2>2, <2>3, <2>4
<1>2. k = (2 * a + t) + 1 /\ a = p + (r - 1)
  BY DEF SlotIndex
<1> HIDE DEF p
<1>3. a \in Nat /\ 2 * a + t \in Nat /\ k - 1 = 2 * a + t /\ k \in Nat
  BY <1>1, <1>2
<1>4. k \in 1..(2 * E * R)
  <2>1. R * E \in Nat /\ R * e \in Nat
    OBVIOUS
  <2>2. a <= R * E - 1
    BY <1>1, <1>2, <2>1
  <2> HIDE DEF k, a
  <2> QED
    BY <1>1, <1>2, <1>3, <2>1, <2>2
<1>5. (k - 1) \div 2 = a
  <2> HIDE DEF k, a
  <2> QED
    BY <1>3, DivUnique
<1>6. a % R = r - 1
  <2>1. e - 1 \in Nat /\ r - 1 \in 0..(R - 1)
    OBVIOUS
  <2> QED
    BY <2>1, DivUnique DEF p
<1>7. (k - 1) \div (2 * R) = e - 1
  <2>1. e - 1 \in Nat /\ 2 * R \in Nat \ {0} /\ 2 * (r - 1) + t \in 0..(2 * R - 1)
    OBVIOUS
  <2>2. 2 * a + t = (2 * R) * (e - 1) + (2 * (r - 1) + t)
    <3>1. (2 * R) * (e - 1) = 2 * p
      BY DEF p
    <3> QED
      BY <3>1, <1>1
  <2> HIDE DEF k, a
  <2> QED
    BY <1>3, <2>1, <2>2, DivUnique
<1>8. k % 2 = 1 <=> t = 0
  <2> HIDE DEF a
  <2>1. k = 2 * a + (t + 1)
    BY <1>2, <1>3
  <2>2. CASE t = 0
    <3>1. k = 2 * a + 1 /\ 1 \in 0..(2 - 1)
      BY <2>1, <2>2
    <3> HIDE DEF k
    <3>2. k % 2 = 1
      BY <1>3, <3>1, DivUnique
    <3> QED
      BY <2>2, <3>2
  <2>3. CASE t = 1
    <3>1. k = 2 * (a + 1) + 0 /\ 0 \in 0..(2 - 1) /\ a + 1 \in Nat
      BY <1>3, <2>1, <2>3
    <3> HIDE DEF k
    <3>2. k % 2 = 0
      BY <3>1, DivUnique
    <3> QED
      BY <2>3, <3>2
  <2> QED
    BY <2>2, <2>3
<1> QED
  BY <1>4, <1>5, <1>6, <1>7, <1>8

LEMMA IndexOfSlot ==
  ASSUME NEW R \in Nat \ {0}, NEW k \in Nat \ {0},
         NEW e \in Nat \ {0}, NEW r \in Nat \ {0},
         (k - 1) \div (2 * R) = e - 1, ((k - 1) \div 2) % R = r - 1
  PROVE  k = SlotIndex(R, e, r, IF k % 2 = 1 THEN 0 ELSE 1)
<1>1. k - 1 \in Nat /\ 2 \in Nat \ {0} /\ 2 * R \in Nat \ {0}
  OBVIOUS
<1>2. PICK a \in Nat, t \in 0..(2 - 1) : k - 1 = 2 * a + t /\ (k - 1) \div 2 = a
  BY <1>1, Divides
<1>3. PICK q \in Nat, s \in 0..(R - 1) : a = R * q + s /\ a % R = s
  <2>1. a \in Nat /\ R \in Nat \ {0}
    OBVIOUS
  <2>2. \E q \in Nat, s \in 0..(R - 1) : a = R * q + s /\ a \div R = q /\ a % R = s
    BY <2>1, Divides
  <2> QED
    BY <2>2
<1>4. s = r - 1
  BY <1>2, <1>3
<1>5. k - 1 = (2 * R) * q + (2 * s + t) /\ 2 * s + t \in 0..(2 * R - 1)
  <2>1. (2 * R) * q = 2 * (R * q) /\ R * q \in Nat
    OBVIOUS
  <2>2. 2 * s + t \in 0..(2 * R - 1)
    OBVIOUS
  <2> QED
    BY <1>2, <1>3, <2>1, <2>2
<1>6. q = e - 1
  <2> DEFINE b == 2 * R
             u == 2 * s + t
  <2>1. b \in Nat \ {0} /\ u \in 0..(b - 1) /\ q \in Nat /\ k - 1 = b * q + u
    BY <1>1, <1>5
  <2>2. (k - 1) \div b = e - 1
    OBVIOUS
  <2> HIDE DEF b, u
  <2>3. (b * q + u) \div b = q
    BY <2>1, DivUnique, Zenon
  <2> QED
    BY <2>1, <2>2, <2>3, Zenon
<1>7. k = 2 * (R * (e - 1) + (r - 1)) + t + 1
  <2>1. a = R * (e - 1) + (r - 1)
    BY <1>3, <1>4, <1>6
  <2> HIDE <1>6
  <2> QED
    BY <1>2, <2>1
<1>8. t = IF k % 2 = 1 THEN 0 ELSE 1
  <2>1. k = 2 * a + (t + 1)
    BY <1>2
  <2>2. CASE t = 0
    <3>1. k = 2 * a + 1 /\ 1 \in 0..(2 - 1)
      BY <2>1, <2>2
    <3> QED
      BY <1>1, <2>2, <3>1, DivUnique
  <2>3. CASE t = 1
    <3>1. k = 2 * (a + 1) + 0 /\ 0 \in 0..(2 - 1) /\ a + 1 \in Nat
      BY <2>1, <2>3
    <3> QED
      BY <1>1, <2>3, <3>1, DivUnique
  <2> QED
    BY <2>2, <2>3
<1> QED
  BY <1>7, <1>8 DEF SlotIndex

(* The slot of an arm of a repetition of an episode is that index, and no  *)
(* other; so an arm is graded at the indexes of its repetitions.           *)
ArmOf(t) == IF t = 0 THEN "control" ELSE "treatment"

Counts(d) == d.episodes \in Nat \ {0} /\ d.repetitions \in Nat \ {0}

LEMMA SlotsIndexed ==
  ASSUME NEW d, Counts(d), NEW e \in 1..d.episodes, NEW r \in 1..d.repetitions,
         NEW t \in {0, 1}
  PROVE  LET k == SlotIndex(d.repetitions, e, r, t)
             slot == [episode |-> e, repetition |-> r, arm |-> ArmOf(t)]
         IN  /\ k \in 1..SlotCount(d) /\ DesignSlots(d)[k] = slot
             /\ \A j \in 1..SlotCount(d) : DesignSlots(d)[j] = slot => j = k
<1> DEFINE E == d.episodes
           R == d.repetitions
           k == SlotIndex(R, e, r, t)
           slot == [episode |-> e, repetition |-> r, arm |-> ArmOf(t)]
<1>1. E \in Nat \ {0} /\ R \in Nat \ {0} /\ SlotCount(d) = 2 * E * R
  BY DEF Counts, SlotCount
<1>2. \A j \in 1..SlotCount(d) :
        DesignSlots(d)[j] = [episode    |-> ((j - 1) \div (2 * R)) + 1,
                             repetition |-> (((j - 1) \div 2) % R) + 1,
                             arm        |-> IF j % 2 = 1 THEN "control" ELSE "treatment"]
  BY DEF DesignSlots
<1>3. e \in Nat \ {0} /\ r \in Nat \ {0} /\ e \in 1..E /\ r \in 1..R
  BY <1>1
<1>4. /\ k \in 1..(2 * E * R)
      /\ (k - 1) \div (2 * R) = e - 1
      /\ ((k - 1) \div 2) % R = r - 1
      /\ k % 2 = 1 <=> t = 0
  <2> HIDE DEF E, R
  <2> QED
    BY <1>1, <1>3, SlotIndexed
<1>5. k \in 1..SlotCount(d) /\ DesignSlots(d)[k] = slot
  <2>1. (e - 1) + 1 = e /\ (r - 1) + 1 = r
    BY <1>3
  <2>2. k \in 1..SlotCount(d)
    BY <1>1, <1>4
  <2> HIDE DEF E, R, k
  <2>3. (IF k % 2 = 1 THEN "control" ELSE "treatment") = ArmOf(t)
    BY <1>4 DEF ArmOf
  <2> QED
    BY <1>2, <1>4, <2>1, <2>2, <2>3
<1>6. ASSUME NEW j \in 1..SlotCount(d), DesignSlots(d)[j] = slot PROVE j = k
  <2> DEFINE a == (j - 1) \div (2 * R)
             b == ((j - 1) \div 2) % R
  <2>1. j \in Nat \ {0} /\ j - 1 \in Nat /\ 2 * R \in Nat \ {0} /\ 2 \in Nat \ {0}
    <3>1. 2 * E * R \in Nat
      BY <1>1
    <3> HIDE DEF E, R
    <3> QED
      BY <1>1, <3>1
  <2>2. a \in Nat
    <3> HIDE DEF R
    <3> DEFINE c == 2 * R
    <3>1. c \in Nat \ {0}
      BY <2>1
    <3> HIDE DEF c
    <3>2. (j - 1) \div c \in Nat
      BY <2>1, <3>1, Divides
    <3> QED
      BY <3>2 DEF c
  <2>3. b \in Nat
    <3> HIDE DEF R
    <3>1. (j - 1) \div 2 \in Nat
      BY <2>1, Divides
    <3> DEFINE c == (j - 1) \div 2
    <3> HIDE DEF c
    <3>2. c % R \in Nat
      <4>1. \E s \in 0..(R - 1) : c % R = s
        BY <1>1, <3>1, Divides DEF c
      <4> QED
        BY <1>1, <4>1
    <3> QED
      BY <3>2 DEF c
  <2>4. /\ a + 1 = e /\ b + 1 = r
        /\ (IF j % 2 = 1 THEN "control" ELSE "treatment") = ArmOf(t)
    <3> HIDE DEF R
    <3>1. slot.episode = e /\ slot.repetition = r /\ slot.arm = ArmOf(t)
      OBVIOUS
    <3>2. DesignSlots(d)[j] = [episode |-> a + 1, repetition |-> b + 1,
             arm |-> IF j % 2 = 1 THEN "control" ELSE "treatment"]
      BY <1>2
    <3> HIDE DEF a, b
    <3> QED
      BY <1>6, <3>1, <3>2
  <2>5. a = e - 1 /\ b = r - 1
    <3> HIDE DEF a, b
    <3> QED
      BY <2>2, <2>3, <2>4
  <2>6. t = IF j % 2 = 1 THEN 0 ELSE 1
    BY <2>4 DEF ArmOf
  <2> HIDE DEF R
  <2>7. (j - 1) \div (2 * R) = e - 1 /\ ((j - 1) \div 2) % R = r - 1
    BY <2>5
  <2> HIDE DEF a, b
  <2>8. j = SlotIndex(R, e, r, IF j % 2 = 1 THEN 0 ELSE 1)
    BY <1>1, <1>3, <2>1, <2>7, IndexOfSlot
  <2> QED
    BY <2>6, <2>8
<1> QED
  BY <1>5, <1>6

LEMMA SlotNamed ==
  ASSUME NEW d, Counts(d), NEW e \in 1..d.episodes, NEW r \in 1..d.repetitions,
         NEW t \in {0, 1}
  PROVE  /\ SlotIndex(d.repetitions, e, r, t) \in 1..SlotCount(d)
         /\ DesignSlots(d)[SlotIndex(d.repetitions, e, r, t)].episode = e
         /\ DesignSlots(d)[SlotIndex(d.repetitions, e, r, t)].repetition = r
         /\ DesignSlots(d)[SlotIndex(d.repetitions, e, r, t)].arm = ArmOf(t)
<1> DEFINE k == SlotIndex(d.repetitions, e, r, t)
           slot == [episode |-> e, repetition |-> r, arm |-> ArmOf(t)]
<1>1. k \in 1..SlotCount(d) /\ DesignSlots(d)[k] = slot
  BY SlotsIndexed
<1>2. slot.episode = e /\ slot.repetition = r /\ slot.arm = ArmOf(t)
  OBVIOUS
<1> HIDE DEF k, slot
<1>3. /\ k \in 1..SlotCount(d) /\ DesignSlots(d)[k].episode = e
      /\ DesignSlots(d)[k].repetition = r /\ DesignSlots(d)[k].arm = ArmOf(t)
  BY <1>1, <1>2
<1> QED
  BY <1>3 DEF k

LEMMA SlotUnique ==
  ASSUME NEW d, Counts(d), NEW e \in 1..d.episodes, NEW r \in 1..d.repetitions,
         NEW t \in {0, 1}, NEW j \in 1..SlotCount(d),
         DesignSlots(d)[j] = [episode |-> e, repetition |-> r, arm |-> ArmOf(t)]
  PROVE  j = SlotIndex(d.repetitions, e, r, t)
BY SlotsIndexed

LEMMA ArmIndexed ==
  ASSUME NEW d, Counts(d), NEW e \in 1..d.episodes, NEW t \in {0, 1}, NEW m
  PROVE  ArmAttempts(d, m, e, ArmOf(t)) =
           [r \in 1..d.repetitions |-> m[SlotIndex(d.repetitions, e, r, t)]]
<1>1. ASSUME NEW r \in 1..d.repetitions
      PROVE  (CHOOSE k \in 1..SlotCount(d) :
                DesignSlots(d)[k] = [episode |-> e, repetition |-> r, arm |-> ArmOf(t)])
             = SlotIndex(d.repetitions, e, r, t)
  <2> DEFINE k == SlotIndex(d.repetitions, e, r, t)
             P(j) == DesignSlots(d)[j] = [episode |-> e, repetition |-> r, arm |-> ArmOf(t)]
  <2>1. k \in 1..SlotCount(d) /\ P(k) /\ \A j \in 1..SlotCount(d) : P(j) => j = k
    BY SlotsIndexed
  <2> HIDE DEF k, P
  <2>2. (CHOOSE j \in 1..SlotCount(d) : P(j)) = k
    BY <2>1
  <2> QED
    BY <2>2 DEF P, k
<1> DEFINE C(r) == m[CHOOSE k \in 1..SlotCount(d) :
                       DesignSlots(d)[k] = [episode |-> e, repetition |-> r, arm |-> ArmOf(t)]]
           D(r) == m[SlotIndex(d.repetitions, e, r, t)]
<1>2. ArmAttempts(d, m, e, ArmOf(t)) = [r \in 1..d.repetitions |-> C(r)]
  BY DEF ArmAttempts
<1>3. \A r \in 1..d.repetitions : C(r) = D(r)
  BY <1>1
<1> HIDE DEF C, D
<1>4. ArmAttempts(d, m, e, ArmOf(t)) = [r \in 1..d.repetitions |-> D(r)]
  BY <1>2, <1>3
<1> QED
  BY <1>4 DEF D

(* The repetitions of an arm are the slots of its episode and arm.         *)
LEMMA ArmSlots ==
  ASSUME NEW d, Counts(d), NEW k \in 1..SlotCount(d), NEW t \in {0, 1},
         DesignSlots(d)[k].arm = ArmOf(t)
  PROVE  LET e == DesignSlots(d)[k].episode
             r == DesignSlots(d)[k].repetition
         IN  /\ r \in 1..d.repetitions
             /\ e \in 1..d.episodes => k = SlotIndex(d.repetitions, e, r, t)
<1> DEFINE R == d.repetitions
           e == DesignSlots(d)[k].episode
           r == DesignSlots(d)[k].repetition
<1>1. d.episodes \in Nat \ {0} /\ R \in Nat \ {0}
  BY DEF Counts
<1>2. /\ r = (((k - 1) \div 2) % R) + 1
      /\ DesignSlots(d)[k] = [episode |-> e, repetition |-> r, arm |-> ArmOf(t)]
  BY DEF DesignSlots
<1>3. r \in 1..R
  <2>1. k - 1 \in Nat /\ 2 \in Nat \ {0}
    <3>1. SlotCount(d) \in Nat
      BY <1>1 DEF SlotCount
    <3> QED
      BY <3>1
  <2> DEFINE c == (k - 1) \div 2
  <2>2. c \in Nat
    BY <2>1, Divides
  <2> HIDE DEF c, R, r
  <2>3. \E s \in 0..(R - 1) : c % R = s
    BY <1>1, <2>2, Divides
  <2>4. r = (c % R) + 1
    BY <1>2 DEF c
  <2> QED
    BY <1>1, <2>3, <2>4
<1>4. e \in 1..d.episodes => k = SlotIndex(R, e, r, t)
  <2> HIDE DEF e, r
  <2> SUFFICES ASSUME e \in 1..d.episodes PROVE k = SlotIndex(R, e, r, t)
    OBVIOUS
  <2> QED
    BY <1>2, <1>3, SlotUnique
<1> QED
  BY <1>3, <1>4

-------------------------------------------------------------------------------
(* Some index of a finite set carries the greatest value, some the least.  *)
LEMMA Highest ==
  ASSUME NEW S, IsFiniteSet(S), NEW f, \A i \in S : f[i] \in Int,
         NEW P \in SUBSET S, P # {}
  PROVE  \E i \in P : \A j \in P : f[j] <= f[i]
<1> DEFINE C == {s \in SUBSET S : s # {} /\ ~\E i \in s : \A j \in s : f[j] <= f[i]}
<1> SUFFICES ASSUME C # {} PROVE FALSE
  OBVIOUS
<1>1. PICK s \in C : \A t \in C : t \subseteq s => t = s
  <2> HIDE DEF C
  <2>1. C \in SUBSET SUBSET S
    BY DEF C
  <2> QED
    BY <2>1, SmallestSet
<1>2. PICK x \in s : TRUE
  OBVIOUS
<1>3. s \ {x} \in SUBSET S /\ s \ {x} # s
  BY <1>2
<1>4. s \ {x} # {}
  BY <1>2
<1>5. PICK y \in s \ {x} : \A j \in s \ {x} : f[j] <= f[y]
  BY <1>1, <1>3, <1>4
<1>6. f[x] \in Int /\ f[y] \in Int /\ \A j \in s : f[j] \in Int
  OBVIOUS
<1>7. CASE f[x] <= f[y]
  BY <1>5, <1>6, <1>7
<1>8. CASE f[y] <= f[x]
  <2>1. \A j \in s : f[j] <= f[x]
    BY <1>5, <1>6, <1>8
  <2> QED
    BY <2>1
<1> QED
  BY <1>6, <1>7, <1>8

LEMMA Lowest ==
  ASSUME NEW S, IsFiniteSet(S), NEW f, \A i \in S : f[i] \in Int,
         NEW P \in SUBSET S, P # {}
  PROVE  \E i \in P : \A j \in P : f[i] <= f[j]
<1> DEFINE g == [i \in S |-> -f[i]]
<1>1. \A i \in S : g[i] = -f[i] /\ g[i] \in Int
  OBVIOUS
<1> HIDE DEF g
<1>2. PICK i \in P : \A j \in P : g[j] <= g[i]
  BY <1>1, Highest
<1>3. \A j \in P : f[i] <= f[j]
  BY <1>1, <1>2
<1> QED
  BY <1>3

(* Every sequence has a k-th smallest value: the least of the values that  *)
(* k others do not exceed.                                                 *)
LEMMA RankedType ==
  ASSUME NEW n \in Nat, NEW values \in [1..n -> Int], NEW k \in 1..n
  PROVE  Ranked(values, k) \in Int
<1> DEFINE Below(v) == {i \in 1..n : values[i] < v}
           UpTo(v)  == {i \in 1..n : values[i] <= v}
           V == {i \in 1..n : k <= Cardinality(UpTo(values[i]))}
<1>1. IsFiniteSet(1..n) /\ Cardinality(1..n) = n /\ \A i \in 1..n : values[i] \in Int
  BY FS_Interval
<1>2. \A v : /\ IsFiniteSet(Below(v)) /\ Cardinality(Below(v)) \in Nat
             /\ Cardinality(UpTo(v)) \in Nat
  BY <1>1, FS_Subset, FS_CardinalityType
<1>3. V # {}
  <2>1. 1..n # {}
    OBVIOUS
  <2>2. PICK i \in 1..n : \A j \in 1..n : values[j] <= values[i]
    BY <1>1, <2>1, Highest
  <2>3. UpTo(values[i]) = 1..n
    BY <2>2
  <2>4. k <= Cardinality(UpTo(values[i]))
    <3> HIDE DEF UpTo
    <3> QED
      BY <1>1, <2>3
  <2> QED
    BY <2>4
<1>4. PICK i \in V : \A j \in V : values[i] <= values[j]
  <2>1. V \in SUBSET (1..n)
    OBVIOUS
  <2> HIDE DEF V
  <2> QED
    BY <1>1, <1>3, <2>1, Lowest
<1>5. i \in 1..n /\ k <= Cardinality(UpTo(values[i]))
  OBVIOUS
<1>6. Cardinality(Below(values[i])) < k
  <2>1. CASE Below(values[i]) = {}
    <3>1. Cardinality(Below(values[i])) = 0
      BY <2>1, FS_EmptySet
    <3> QED
      BY <3>1
  <2>2. CASE Below(values[i]) # {}
    <3> DEFINE L == Below(values[i])
    <3>1. L \in SUBSET (1..n) /\ L # {}
      BY <2>2
    <3>2. PICK u \in L : \A j \in L : values[j] <= values[u]
      <4> HIDE DEF L
      <4> QED
        BY <1>1, <3>1, Highest
    <3>3. u \in 1..n /\ values[u] < values[i]
      OBVIOUS
    <3>4. UpTo(values[u]) = L
      BY <1>1, <1>5, <3>2, <3>3
    <3>5. u \notin V
      <4>1. ~(values[i] <= values[u])
        BY <1>1, <1>5, <3>3
      <4> QED
        BY <1>4, <4>1
    <3>6. ~(k <= Cardinality(UpTo(values[u])))
      BY <3>3, <3>5
    <3> HIDE DEF UpTo, V
    <3>7. Cardinality(L) \in Nat /\ ~(k <= Cardinality(L))
      BY <1>2, <3>4, <3>6
    <3> QED
      BY <3>7
  <2> QED
    BY <2>1, <2>2
<1>7. values[i] \in Range(values) /\ Range(values) \subseteq Int
  BY <1>1, <1>5 DEF Range
<1>8. DOMAIN values = 1..n
  OBVIOUS
<1> DEFINE Is(v) == /\ Cardinality({j \in DOMAIN values : values[j] < v}) < k
                    /\ k <= Cardinality({j \in DOMAIN values : values[j] <= v})
<1>9. Is(values[i])
  BY <1>5, <1>6, <1>8
<1>10. Ranked(values, k) = CHOOSE v \in Range(values) : Is(v)
  BY DEF Ranked
<1> HIDE DEF Is
<1> QED
  BY <1>7, <1>9, <1>10

(* An aggregate of numbers is a number.                                    *)
LEMMA AggregateType ==
  ASSUME NEW n \in Nat \ {0}, NEW values \in [1..n -> Int],
         NEW how \in NumberAggregations
  PROVE  NumberAggregate(values, how) \in Int
<1>1. Len(values) = n
  OBVIOUS
<1>2. SumFunction(values) \in Int
  <2>1. IsFiniteSet(1..n) /\ DOMAIN values = 1..n /\ \A i \in 1..n : values[i] \in Int
    BY FS_Interval
  <2>2. Sum(values, 1..n) \in Int
    BY <2>1, SumType
  <2> QED
    BY <2>1, <2>2 DEF SumFunction, Sum
<1>3. (n + 1) \div 2 \in 1..n /\ n \div 2 + 1 \in 1..n
  OBVIOUS
<1>4. Ranked(values, (n + 1) \div 2) \in Int /\ Ranked(values, n \div 2 + 1) \in Int
  BY <1>3, RankedType
<1>5. \/ NumberAggregate(values, how) = Unit(n) * SumFunction(values)
      \/ NumberAggregate(values, how) = 2 * SumFunction(values)
      \/ NumberAggregate(values, how) = n * (Ranked(values, (n + 1) \div 2)
                                               + Ranked(values, n \div 2 + 1))
  BY <1>1 DEF NumberAggregate, NumberAggregations
<1>6. Unit(n) \in Int
  BY DEF Unit
<1>7. \A a, b \in Int : a * b \in Int /\ a + b \in Int
  OBVIOUS
<1> QED
  BY <1>2, <1>4, <1>5, <1>6, <1>7

-------------------------------------------------------------------------------
(* The sum of the opposites is the opposite of the sum.                    *)
LEMMA SumNegated ==
  ASSUME NEW S, IsFiniteSet(S), NEW f, NEW g,
         \A x \in S : f[x] \in Int /\ g[x] = -f[x]
  PROVE  Sum(g, S) = -Sum(f, S)
<1> DEFINE C == {s \in SUBSET S : Sum(g, s) # -Sum(f, s)}
<1> SUFFICES ASSUME C # {} PROVE FALSE
  OBVIOUS
<1>1. PICK s \in C : \A t \in C : t \subseteq s => t = s
  <2> HIDE DEF C
  <2>1. C \in SUBSET SUBSET S
    BY DEF C
  <2> QED
    BY <2>1, SmallestSet
<1>2. s # {}
  <2>1. Sum(g, {}) = 0 /\ Sum(f, {}) = 0
    BY SumEmpty
  <2> QED
    BY <2>1
<1>3. PICK x \in s : TRUE
  BY <1>2
<1>4. /\ s \ {x} \in SUBSET S /\ s \ {x} # s /\ s = (s \ {x}) \cup {x}
      /\ x \notin s \ {x}
  BY <1>3
<1>5. IsFiniteSet(s \ {x})
  BY <1>4, FS_Subset
<1>6. Sum(g, s \ {x}) = -Sum(f, s \ {x})
  BY <1>1, <1>4
<1>7. /\ f[x] \in Int /\ g[x] = -f[x]
      /\ \A y \in s \ {x} : f[y] \in Int /\ g[y] \in Int
  OBVIOUS
<1>8. Sum(f, s) = f[x] + Sum(f, s \ {x})
  BY <1>4, <1>5, <1>7, SumAdd
<1>9. Sum(g, s) = g[x] + Sum(g, s \ {x})
  BY <1>4, <1>5, <1>7, SumAdd
<1>10. Sum(f, s \ {x}) \in Int
  BY <1>5, <1>7, SumType
<1>11. Sum(g, s) = -Sum(f, s)
  <2>1. \A a, b \in Int : (-a) + (-b) = -(a + b)
    OBVIOUS
  <2> QED
    BY <1>6, <1>7, <1>8, <1>9, <1>10, <2>1
<1> QED
  BY <1>11

(* With the arms exchanged, each arm is graded as the other was.           *)
Swapped(m) == [k \in DOMAIN m |-> m[IF k % 2 = 1 THEN k + 1 ELSE k - 1]]

LEMMA GradesSwap ==
  ASSUME NEW d, Counts(d), NEW m, DOMAIN m = 1..SlotCount(d),
         NEW e \in 1..d.episodes, NEW t \in {0, 1}
  PROVE  ArmAttempts(d, Swapped(m), e, ArmOf(t)) = ArmAttempts(d, m, e, ArmOf(1 - t))
<1> DEFINE R == d.repetitions
           C(r) == Swapped(m)[SlotIndex(R, e, r, t)]
           D(r) == m[SlotIndex(R, e, r, 1 - t)]
<1>1. ASSUME NEW r \in 1..R PROVE C(r) = D(r)
  <2> DEFINE k == SlotIndex(R, e, r, t)
  <2>1. k \in 1..SlotCount(d)
    BY SlotsIndexed
  <2>2. k % 2 = 1 <=> t = 0
    <3>1. d.episodes \in Nat \ {0} /\ R \in Nat \ {0}
      BY DEF Counts
    <3> QED
      BY <3>1, SlotIndexed
  <2>3. SlotIndex(R, e, r, 1 - t) = IF t = 0 THEN k + 1 ELSE k - 1
    <3> DEFINE p == 2 * (R * (e - 1) + (r - 1))
    <3>1. p \in Int
      <4>1. R \in Int /\ e - 1 \in Int /\ r - 1 \in Int
        BY DEF Counts
      <4> HIDE DEF R
      <4>2. R * (e - 1) \in Int
        BY <4>1
      <4> QED
        BY <4>1, <4>2
    <3>2. k = p + t + 1 /\ SlotIndex(R, e, r, 1 - t) = p + (1 - t) + 1
      BY DEF SlotIndex
    <3> HIDE DEF p, k
    <3> QED
      BY <3>1, <3>2
  <2> HIDE DEF k
  <2>4. Swapped(m)[k] = m[IF k % 2 = 1 THEN k + 1 ELSE k - 1]
    BY <2>1 DEF Swapped
  <2> QED
    BY <2>2, <2>3, <2>4 DEF k
<1>2. ArmAttempts(d, Swapped(m), e, ArmOf(t)) = [r \in 1..R |-> C(r)]
  BY ArmIndexed
<1>3. ArmAttempts(d, m, e, ArmOf(1 - t)) = [r \in 1..R |-> D(r)]
  <2>1. 1 - t \in {0, 1}
    OBVIOUS
  <2>2. ASSUME NEW u \in {0, 1}
        PROVE  ArmAttempts(d, m, e, ArmOf(u)) = [r \in 1..R |-> m[SlotIndex(R, e, r, u)]]
    <3> DEFINE w == m
    <3> HIDE DEF w
    <3>1. ArmAttempts(d, w, e, ArmOf(u)) = [r \in 1..R |-> w[SlotIndex(R, e, r, u)]]
      BY ArmIndexed
    <3> QED
      BY <3>1 DEF w
  <2> QED
    BY <2>1, <2>2
<1> HIDE DEF C, D
<1> QED
  BY <1>1, <1>2, <1>3

(* A grading of the primary metric.                                        *)
Grades(d, m) ==
  /\ Counts(d) /\ d.aggregation \in NumberAggregations \cup BooleanAggregations
  /\ DOMAIN m = 1..SlotCount(d)
  /\ \A k \in 1..SlotCount(d) : m[k].primary \in Int

(* Each arm of an episode has a number, and exchanging the arms changes    *)
(* the sign of their difference.                                           *)
LEMMA PrimaryType ==
  ASSUME NEW d, NEW m, Grades(d, m), NEW e \in 1..d.episodes, NEW t \in {0, 1}
  PROVE  Primary(d, m, e, ArmOf(t)) \in Int
<1> DEFINE R == d.repetitions
           group == ArmAttempts(d, m, e, ArmOf(t))
           values == [r \in DOMAIN group |-> group[r].primary]
<1>1. R \in Nat \ {0} /\ Counts(d)
  BY DEF Grades, Counts
<1>2. group = [r \in 1..R |-> m[SlotIndex(R, e, r, t)]]
  BY <1>1, ArmIndexed
<1>3. \A r \in 1..R : SlotIndex(R, e, r, t) \in 1..SlotCount(d)
  BY <1>1, SlotsIndexed
<1>4. values \in [1..R -> Int]
  <2> HIDE DEF group
  <2>1. \A r \in 1..R : group[r].primary \in Int
    BY <1>2, <1>3 DEF Grades
  <2> QED
    BY <1>2, <2>1
<1>5. Primary(d, m, e, ArmOf(t)) = PrimaryAggregate(d, values)
  BY DEF Primary
<1> HIDE DEF group, values, R
<1>6. Len(values) = R
  BY <1>1, <1>4
<1>7. Unit(R) \in Int
  BY <1>1 DEF Unit
<1>8. CASE d.aggregation \in BooleanAggregations
  BY <1>5, <1>6, <1>7, <1>8 DEF PrimaryAggregate
<1>9. CASE d.aggregation \notin BooleanAggregations
  <2>1. d.aggregation \in NumberAggregations
    BY <1>9 DEF Grades
  <2>2. NumberAggregate(values, d.aggregation) \in Int
    BY <1>1, <1>4, <2>1, AggregateType
  <2> QED
    BY <1>5, <1>9, <2>2 DEF PrimaryAggregate
<1> QED
  BY <1>8, <1>9

LEMMA DeltaSwaps ==
  ASSUME NEW d, NEW m, Grades(d, m), NEW e \in 1..d.episodes
  PROVE  /\ FavorableDelta(d, m, e) \in Int
         /\ FavorableDelta(d, Swapped(m), e) = -FavorableDelta(d, m, e)
<1>1. Counts(d) /\ DOMAIN m = 1..SlotCount(d)
  BY DEF Grades
<1>2. ArmOf(0) = "control" /\ ArmOf(1) = "treatment" /\ 1 - 0 = 1 /\ 1 - 1 = 0
  BY DEF ArmOf
<1>3. \A t \in {0, 1} : /\ ArmAttempts(d, Swapped(m), e, ArmOf(t))
                             = ArmAttempts(d, m, e, ArmOf(1 - t))
                        /\ Primary(d, m, e, ArmOf(t)) \in Int
  BY <1>1, GradesSwap, PrimaryType
<1>4. /\ Primary(d, Swapped(m), e, "control") = Primary(d, m, e, "treatment")
      /\ Primary(d, Swapped(m), e, "treatment") = Primary(d, m, e, "control")
  BY <1>2, <1>3 DEF Primary
<1>5. Primary(d, m, e, "control") \in Int /\ Primary(d, m, e, "treatment") \in Int
  BY <1>2, <1>3
<1> QED
  BY <1>4, <1>5 DEF FavorableDelta

(* So the deltas change sign, and improving is worsening the mirror.       *)
LEMMA VerdictSwaps ==
  ASSUME NEW d, NEW m, Grades(d, m), d.guardrails = << >>, d.minimumUsefulEffect \in Int
  PROVE  LET A == Analyze(d, m)
             B == Analyze(d, Swapped(m))
         IN  /\ A.regressed = {} /\ B.regressed = {}
             /\ Improves(d, A) <=> Worsens(d, B)
             /\ Worsens(d, A) <=> Improves(d, B)
             /\ ~(Improves(d, A) /\ Worsens(d, A))
             /\ ~(Improves(d, B) /\ Worsens(d, B))
<1> DEFINE A == Analyze(d, m)
           B == Analyze(d, Swapped(m))
           f == A.deltas
           g == B.deltas
           S == 1..d.episodes
<1>1. A.regressed = {} /\ B.regressed = {}
  BY DEF Analyze
<1>2. DOMAIN f = S /\ DOMAIN g = S
  BY DEF Analyze
<1>3. \A e \in S : f[e] = FavorableDelta(d, m, e) /\ g[e] = FavorableDelta(d, Swapped(m), e)
  BY DEF Analyze
<1>4. \A e \in S : f[e] \in Int /\ g[e] = -f[e]
  BY <1>3, DeltaSwaps
<1>5. IsFiniteSet(S)
  BY FS_Interval DEF Grades, Counts
<1> HIDE DEF f, g, S
<1>6. Sum(f, S) \in Int /\ Sum(g, S) = -Sum(f, S)
  BY <1>4, <1>5, SumType, SumNegated
<1>7. SumFunction(f) = Sum(f, S) /\ SumFunction(g) = Sum(g, S)
  BY <1>2 DEF SumFunction, Sum
<1> DEFINE Up == {e \in S : f[e] > 0}
           Down == {e \in S : f[e] < 0}
<1>8. {e \in S : g[e] > 0} = Down /\ {e \in S : g[e] < 0} = Up
  BY <1>4
<1>9. Cardinality(Up) \in Nat /\ Cardinality(Down) \in Nat
  BY <1>5, FS_Subset, FS_CardinalityType
<1> HIDE DEF Up, Down
<1>10. /\ FavorablePairs(A) = Cardinality(Up) /\ UnfavorablePairs(A) = Cardinality(Down)
       /\ FavorablePairs(B) = Cardinality(Down) /\ UnfavorablePairs(B) = Cardinality(Up)
  BY <1>2, <1>8 DEF FavorablePairs, UnfavorablePairs, f, g, Up, Down
<1>11. UsefulEffect(d) \in Int
  <2>1. d.repetitions \in Int /\ d.episodes \in Int
    BY DEF Grades, Counts
  <2>2. Unit(d.repetitions) \in Int
    BY <2>1 DEF Unit
  <2>3. \A a, b \in Int : a * b \in Int
    OBVIOUS
  <2> QED
    BY <2>1, <2>2, <2>3 DEF UsefulEffect
<1> DEFINE U == UsefulEffect(d)
           s == Sum(f, S)
           up == Cardinality(Up)
           down == Cardinality(Down)
<1>12. /\ Improves(d, A) <=> s >= U /\ up > down
       /\ Worsens(d, A) <=> s <= -U /\ down > up
       /\ Improves(d, B) <=> -s >= U /\ down > up
       /\ Worsens(d, B) <=> -s <= -U /\ up > down
  BY <1>6, <1>7, <1>10 DEF Improves, Worsens, f, g
<1>13. U \in Int /\ s \in Int /\ up \in Nat /\ down \in Nat
  BY <1>6, <1>9, <1>11
<1> HIDE DEF U, s, up, down
<1>14. (s >= U <=> -s <= -U) /\ (s <= -U <=> -s >= U) /\ ~(up > down /\ down > up)
  BY <1>13
<1> HIDE DEF A, B
<1>15. /\ A.regressed = {} /\ B.regressed = {}
       /\ Improves(d, A) <=> Worsens(d, B)
       /\ Worsens(d, A) <=> Improves(d, B)
       /\ ~(Improves(d, A) /\ Worsens(d, A))
       /\ ~(Improves(d, B) /\ Worsens(d, B))
  BY <1>1, <1>12, <1>14
<1> QED
  BY <1>15 DEF A, B

(* A grading measures numbers, of each metric what that can measure.       *)
LEMMA GradedMeasures ==
  ASSUME NEW d \in GradedDesigns, NEW m \in Gradings(d)
  PROVE  /\ Counts(d) /\ DOMAIN m = 1..SlotCount(d)
         /\ \A k \in 1..SlotCount(d) :
              /\ m[k].primary \in Int
              /\ \A g \in DOMAIN d.guardrails :
                   m[k].guards[g] \in ValuesOf(d.guardrails[g].aggregation)
<1>1. m \in [1..SlotCount(d) -> Measures(d)]
  BY DEF Gradings
<1>2. \A how : ValuesOf(how) \subseteq Int
  BY GradedAssumption DEF ValuesOf
<1>3. \A v \in Measures(d) :
        /\ v.primary \in Int
        /\ \A g \in DOMAIN d.guardrails :
             v.guards[g] \in ValuesOf(d.guardrails[g].aggregation)
  BY <1>2 DEF Measures
<1> QED
  BY <1>1, <1>3, GradedAssumption DEF Counts

(* The mirror, for any design and grading.                                 *)
LEMMA EvenHanded == Mirrors
<1> SUFFICES ASSUME NEW d \in GradedDesigns, NEW m \in Gradings(d)
             PROVE  LET pairs == [d EXCEPT !.guardrails = << >>]
                    IN  /\ Judge(pairs, m) = "improved" <=> Judge(pairs, Swapped(m)) = "regressed"
                        /\ Judge(pairs, m) = "inconclusive" <=>
                             Judge(pairs, Swapped(m)) = "inconclusive"
  BY DEF Mirrors, Swapped
<1> DEFINE pairs == [d EXCEPT !.guardrails = << >>]
<1>1. /\ pairs.episodes = d.episodes /\ pairs.repetitions = d.repetitions
      /\ pairs.aggregation = d.aggregation /\ pairs.guardrails = << >>
      /\ pairs.minimumUsefulEffect = d.minimumUsefulEffect
  BY GradedAssumption
<1>2. Counts(d) /\ DOMAIN m = 1..SlotCount(d) /\ \A k \in 1..SlotCount(d) : m[k].primary \in Int
  BY GradedMeasures
<1>3. d.aggregation \in NumberAggregations \cup BooleanAggregations
      /\ d.minimumUsefulEffect \in Int
  BY GradedAssumption
<1> HIDE DEF pairs
<1>4. SlotCount(pairs) = SlotCount(d) /\ Counts(pairs)
  BY <1>1, <1>2 DEF SlotCount, Counts
<1>5. Grades(pairs, m) /\ pairs.guardrails = << >> /\ pairs.minimumUsefulEffect \in Int
  BY <1>1, <1>2, <1>3, <1>4 DEF Grades
<1> DEFINE A == Analyze(pairs, m)
           B == Analyze(pairs, Swapped(m))
<1>6. /\ A.regressed = {} /\ B.regressed = {}
      /\ Improves(pairs, A) <=> Worsens(pairs, B)
      /\ Worsens(pairs, A) <=> Improves(pairs, B)
      /\ ~(Improves(pairs, A) /\ Worsens(pairs, A))
      /\ ~(Improves(pairs, B) /\ Worsens(pairs, B))
  BY <1>5, VerdictSwaps
<1>7. Judge(pairs, m) = ReferenceVerdict(pairs, A)
      /\ Judge(pairs, Swapped(m)) = ReferenceVerdict(pairs, B)
  BY DEF Judge
<1> HIDE DEF A, B
<1>8. ASSUME NEW a, a.regressed = {}, ~(Improves(pairs, a) /\ Worsens(pairs, a))
      PROVE  ReferenceVerdict(pairs, a) = IF Worsens(pairs, a) THEN "regressed"
                                          ELSE IF Improves(pairs, a) THEN "improved"
                                          ELSE "inconclusive"
  <2>1. CASE Worsens(pairs, a)
    BY <1>8, <2>1 DEF ReferenceVerdict
  <2>2. CASE ~Worsens(pairs, a) /\ Improves(pairs, a)
    BY <1>8, <2>2 DEF ReferenceVerdict
  <2>3. CASE ~Worsens(pairs, a) /\ ~Improves(pairs, a)
    BY <1>8, <2>3 DEF ReferenceVerdict
  <2> QED
    BY <2>1, <2>2, <2>3
<1>9. /\ Judge(pairs, m) = "improved" <=> Judge(pairs, Swapped(m)) = "regressed"
      /\ Judge(pairs, m) = "inconclusive" <=> Judge(pairs, Swapped(m)) = "inconclusive"
  BY <1>6, <1>7, <1>8
<1> QED
  BY <1>9 DEF pairs

-------------------------------------------------------------------------------
(* A sum does not depend on how its terms are indexed.                     *)
LEMMA SumIndexed ==
  ASSUME NEW S, IsFiniteSet(S), NEW f, \A x \in S : f[x] \in Int,
         NEW h, \A x, y \in S : h[x] = h[y] => x = y,
         NEW g, \A x \in S : g[h[x]] = f[x]
  PROVE  Sum(g, {h[x] : x \in S}) = Sum(f, S)
<1> DEFINE Image(s) == {h[x] : x \in s}
           C == {s \in SUBSET S : ~(IsFiniteSet(Image(s)) /\ Sum(g, Image(s)) = Sum(f, s))}
<1> SUFFICES ASSUME C # {} PROVE FALSE
  OBVIOUS
<1>1. PICK s \in C : \A t \in C : t \subseteq s => t = s
  <2> HIDE DEF C
  <2>1. C \in SUBSET SUBSET S
    BY DEF C
  <2> QED
    BY <2>1, SmallestSet
<1>2. s # {}
  <2>1. Image({}) = {} /\ IsFiniteSet({}) /\ Sum(g, {}) = 0 /\ Sum(f, {}) = 0
    BY SumEmpty, FS_EmptySet
  <2> QED
    BY <2>1
<1>3. PICK x \in s : TRUE
  BY <1>2
<1> DEFINE t == s \ {x}
<1>4. /\ t \in SUBSET S /\ t # s /\ s = t \cup {x} /\ x \notin t /\ x \in S
      /\ Image(s) = Image(t) \cup {h[x]} /\ h[x] \notin Image(t)
  BY <1>3
<1>5. IsFiniteSet(t)
  BY <1>4, FS_Subset
<1>6. IsFiniteSet(Image(t)) /\ Sum(g, Image(t)) = Sum(f, t)
  BY <1>1, <1>4
<1>7. /\ f[x] \in Int /\ g[h[x]] = f[x]
      /\ \A y \in t : f[y] \in Int
      /\ \A z \in Image(t) : g[z] \in Int
  BY <1>4
<1>8. s \in C
  OBVIOUS
<1> DEFINE I == Image(t)
           J == Image(s)
<1>9. /\ IsFiniteSet(I) /\ Sum(g, I) = Sum(f, t) /\ J = I \cup {h[x]} /\ h[x] \notin I
      /\ \A z \in I : g[z] \in Int
  BY <1>4, <1>6, <1>7
<1>10. ~(IsFiniteSet(J) /\ Sum(g, J) = Sum(f, s))
  OBVIOUS
<1> HIDE DEF I, J, t, C
<1>11. Sum(f, s) = f[x] + Sum(f, t)
  BY <1>4, <1>5, <1>7, SumAdd
<1>12. g[h[x]] \in Int
  BY <1>7
<1>13. Sum(g, J) = g[h[x]] + Sum(g, I)
  <2> DEFINE z == h[x]
  <2>1. z \notin I /\ g[z] \in Int /\ J = I \cup {z}
    BY <1>9, <1>12
  <2> HIDE DEF z
  <2>2. Sum(g, I \cup {z}) = g[z] + Sum(g, I)
    BY <1>9, <2>1, SumAdd
  <2> QED
    BY <2>1, <2>2 DEF z
<1>14. IsFiniteSet(J)
  BY <1>9, FS_AddElement
<1> QED
  BY <1>7, <1>9, <1>10, <1>11, <1>13, <1>14

(* The repetitions of an arm, as the slots of a grading.                   *)
Graded(d, m, e, arm) ==
  {k \in DOMAIN m : DesignSlots(d)[k].episode = e /\ DesignSlots(d)[k].arm = arm}

LEMMA GradedSlots ==
  ASSUME NEW d, Counts(d), NEW m, DOMAIN m = 1..SlotCount(d),
         NEW e \in 1..d.episodes, NEW t \in {0, 1}
  PROVE  Graded(d, m, e, ArmOf(t)) =
           {SlotIndex(d.repetitions, e, r, t) : r \in 1..d.repetitions}
<1>1. ASSUME NEW k \in Graded(d, m, e, ArmOf(t))
      PROVE  \E r \in 1..d.repetitions : k = SlotIndex(d.repetitions, e, r, t)
  <2>1. /\ k \in 1..SlotCount(d) /\ DesignSlots(d)[k].arm = ArmOf(t)
        /\ DesignSlots(d)[k].episode = e
    BY DEF Graded
  <2> DEFINE r == DesignSlots(d)[k].repetition
  <2>2. r \in 1..d.repetitions /\ k = SlotIndex(d.repetitions, e, r, t)
    BY <2>1, ArmSlots
  <2> QED
    BY <2>2
<1>2. ASSUME NEW r \in 1..d.repetitions
      PROVE  SlotIndex(d.repetitions, e, r, t) \in Graded(d, m, e, ArmOf(t))
  <2> DEFINE k == SlotIndex(d.repetitions, e, r, t)
  <2>1. /\ k \in 1..SlotCount(d)
        /\ DesignSlots(d)[k].episode = e /\ DesignSlots(d)[k].arm = ArmOf(t)
    BY SlotNamed
  <2> HIDE DEF k
  <2>2. k \in Graded(d, m, e, ArmOf(t))
    BY <2>1 DEF Graded
  <2> QED
    BY <2>2 DEF k
<1> QED
  BY <1>1, <1>2

(* What an arm measured of a guardrail, repetition by repetition.          *)
GuardValues(d, m, g, e, arm) ==
  LET group == ArmAttempts(d, m, e, arm)
  IN  [r \in DOMAIN group |-> group[r].guards[g]]

LEMMA GuardMeasured ==
  ASSUME NEW d \in GradedDesigns, NEW m \in Gradings(d), NEW g \in DOMAIN d.guardrails,
         NEW e \in 1..d.episodes, NEW t \in {0, 1}
  PROVE  LET values == GuardValues(d, m, g, e, ArmOf(t))
             R == d.repetitions
         IN  /\ values \in [1..R -> ValuesOf(d.guardrails[g].aggregation)]
             /\ Len(values) = R
             /\ \A r \in 1..R : /\ SlotIndex(R, e, r, t) \in 1..SlotCount(d)
                                /\ values[r] = m[SlotIndex(R, e, r, t)].guards[g]
             /\ Graded(d, m, e, ArmOf(t)) = {SlotIndex(R, e, r, t) : r \in 1..R}
<1> DEFINE R == d.repetitions
           group == ArmAttempts(d, m, e, ArmOf(t))
           values == GuardValues(d, m, g, e, ArmOf(t))
           Vs == ValuesOf(d.guardrails[g].aggregation)
<1>1. Counts(d) /\ DOMAIN m = 1..SlotCount(d)
      /\ \A k \in 1..SlotCount(d) : m[k].guards[g] \in Vs
  BY GradedMeasures
<1>2. group = [r \in 1..R |-> m[SlotIndex(R, e, r, t)]]
  <2> DEFINE w == m
  <2> HIDE DEF w
  <2>1. ArmAttempts(d, w, e, ArmOf(t)) = [r \in 1..R |-> w[SlotIndex(R, e, r, t)]]
    BY <1>1, ArmIndexed
  <2> QED
    BY <2>1 DEF w
<1>3. \A r \in 1..R : SlotIndex(R, e, r, t) \in 1..SlotCount(d)
  BY <1>1, SlotsIndexed
<1>4. R \in Nat
  BY <1>1 DEF Counts
<1> HIDE DEF group
<1>5. values = [r \in 1..R |-> group[r].guards[g]]
  BY <1>2 DEF GuardValues, group
<1> HIDE DEF values, Vs, R
<1>6. \A r \in 1..R : values[r] = m[SlotIndex(R, e, r, t)].guards[g] /\ values[r] \in Vs
  BY <1>1, <1>2, <1>3, <1>5
<1>7. values \in [1..R -> Vs]
  BY <1>5, <1>6
<1>8. Len(values) = R
  BY <1>4, <1>7
<1>9. Graded(d, m, e, ArmOf(t)) = {SlotIndex(R, e, r, t) : r \in 1..R}
  BY <1>1, GradedSlots DEF R
<1> QED
  BY <1>3, <1>6, <1>7, <1>8, <1>9 DEF values, R, Vs

(* Reduced by all, a guardrail passes when every repetition does.          *)
LEMMA AllPass ==
  ASSUME NEW n \in Nat, NEW values, DOMAIN values = 1..n, Len(values) = n
  PROVE  BooleanAggregate(values, "all") <=> \A r \in 1..n : values[r] = 1
<1> DEFINE P == {r \in 1..n : values[r] = 1}
<1>1. IsFiniteSet(1..n) /\ Cardinality(1..n) = n /\ P \in SUBSET (1..n)
  BY FS_Interval
<1>2. P = {r \in DOMAIN values : values[r] = 1}
  OBVIOUS
<1>3. BooleanAggregate(values, "all") <=> Cardinality(P) = n
  BY <1>2 DEF BooleanAggregate
<1>4. (\A r \in 1..n : values[r] = 1) <=> P = 1..n
  OBVIOUS
<1> HIDE DEF P
<1>5. Cardinality(P) = n <=> P = 1..n
  BY <1>1, FS_Subset
<1> QED
  BY <1>3, <1>4, <1>5

(* Reduced by sum, a guardrail measures the sum of the slots of its arm.   *)
LEMMA SumMeasured ==
  ASSUME NEW d \in GradedDesigns, NEW m \in Gradings(d), NEW g \in DOMAIN d.guardrails,
         NEW e \in 1..d.episodes, NEW t \in {0, 1}
  PROVE  LET s == SumFunctionOnSet([k \in DOMAIN m |-> m[k].guards[g]],
                                   Graded(d, m, e, ArmOf(t)))
         IN  /\ s \in Int
             /\ NumberAggregate(GuardValues(d, m, g, e, ArmOf(t)), "sum")
                  = Unit(d.repetitions) * s
<1> DEFINE R == d.repetitions
           values == GuardValues(d, m, g, e, ArmOf(t))
           T == Graded(d, m, e, ArmOf(t))
<1>1. Counts(d) /\ DOMAIN m = 1..SlotCount(d)
  BY GradedMeasures
<1>2. R \in Nat \ {0} /\ IsFiniteSet(1..R)
  BY <1>1, FS_Interval DEF Counts
<1>3. /\ values \in [1..R -> ValuesOf(d.guardrails[g].aggregation)]
      /\ Len(values) = R
      /\ \A r \in 1..R : values[r] = m[SlotIndex(R, e, r, t)].guards[g]
      /\ T = {SlotIndex(R, e, r, t) : r \in 1..R}
  BY GuardMeasured
<1>4. \A r \in 1..R : values[r] \in Int
  <2>1. ValuesOf(d.guardrails[g].aggregation) \subseteq Int
    BY GradedAssumption DEF ValuesOf
  <2> QED
    BY <1>3, <2>1
<1> DEFINE w == [k \in DOMAIN m |-> m[k].guards[g]]
           h == [r \in 1..R |-> SlotIndex(R, e, r, t)]
<1>5. \A r \in 1..R : h[r] = SlotIndex(R, e, r, t) /\ h[r] \in DOMAIN m
  BY <1>1, SlotNamed
<1>6. T = {h[r] : r \in 1..R}
  BY <1>3, <1>5
<1>7. \A r \in 1..R : w[h[r]] = values[r]
  BY <1>3, <1>5
<1>8. ASSUME NEW r \in 1..R, NEW q \in 1..R, h[r] = h[q] PROVE r = q
  <2>1. DesignSlots(d)[h[r]].repetition = r
    BY <1>1, <1>5, SlotNamed
  <2>2. DesignSlots(d)[h[q]].repetition = q
    BY <1>1, <1>5, SlotNamed
  <2> QED
    BY <1>8, <2>1, <2>2
<1>9. DOMAIN values = 1..R
  BY <1>3
<1> HIDE DEF values, w, h, T, R
<1>10. Sum(w, {h[r] : r \in 1..R}) = Sum(values, 1..R)
  <2> DEFINE S == 1..R
  <2>1. /\ IsFiniteSet(S) /\ \A x \in S : values[x] \in Int
        /\ \A x, y \in S : h[x] = h[y] => x = y
        /\ \A x \in S : w[h[x]] = values[x]
    BY <1>2, <1>4, <1>7, <1>8
  <2> HIDE DEF S
  <2>2. Sum(w, {h[x] : x \in S}) = Sum(values, S)
    BY <2>1, SumIndexed
  <2> QED
    BY <2>2 DEF S
<1>11. Sum(values, 1..R) \in Int
  BY <1>2, <1>4, SumType
<1>12. SumFunctionOnSet(w, T) = Sum(values, 1..R) /\ SumFunction(values) = Sum(values, 1..R)
  BY <1>6, <1>9, <1>10 DEF Sum, SumFunction
<1>13. NumberAggregate(values, "sum") = Unit(R) * SumFunction(values)
  BY <1>3 DEF NumberAggregate
<1>14. /\ SumFunctionOnSet(w, T) \in Int
       /\ NumberAggregate(values, "sum") = Unit(R) * SumFunctionOnSet(w, T)
  BY <1>11, <1>12, <1>13
<1> QED
  BY <1>14 DEF values, w, T, R

(* What an improved verdict says of each guardrail and episode.            *)
LEMMA GuardrailsHold == Guards
<1> SUFFICES ASSUME NEW d \in GradedDesigns, NEW m \in Gradings(d),
                    Judge(d, m) = "improved",
                    NEW g \in DOMAIN d.guardrails, NEW e \in 1..d.episodes
             PROVE  LET guard == d.guardrails[g]
                    IN  /\ guard.rule = "must_pass" /\ guard.aggregation = "all" =>
                             \A k \in Graded(d, m, e, "treatment") : m[k].guards[g] = 1
                        /\ guard.rule = "must_not_regress" /\ guard.aggregation = "all" =>
                             \/ \E k \in Graded(d, m, e, "control") : m[k].guards[g] = 0
                             \/ \A k \in Graded(d, m, e, "treatment") : m[k].guards[g] = 1
                        /\ guard.rule = "maximum" /\ guard.aggregation = "sum" =>
                             SumFunctionOnSet([k \in DOMAIN m |-> m[k].guards[g]],
                                              Graded(d, m, e, "treatment")) <= guard.threshold
  BY DEF Guards, Graded
<1> DEFINE guard == d.guardrails[g]
           R == d.repetitions
           C == GuardValues(d, m, g, e, "control")
           T == GuardValues(d, m, g, e, "treatment")
<1>1. ~GuardrailRegressed(d, m, g, e)
  <2> DEFINE a == Analyze(d, m)
  <2>1. a.regressed = {x \in DOMAIN d.guardrails :
                         \E y \in 1..d.episodes : GuardrailRegressed(d, m, x, y)}
    BY DEF Analyze
  <2>2. ReferenceVerdict(d, a) = "improved"
    BY DEF Judge
  <2> HIDE DEF a
  <2>3. a.regressed = {}
    <3> SUFFICES ASSUME a.regressed # {} PROVE FALSE
      OBVIOUS
    <3>1. ReferenceVerdict(d, a) = "regressed"
      BY DEF ReferenceVerdict
    <3> QED
      BY <2>2, <3>1
  <2> QED
    BY <2>1, <2>3
<1>2. ArmOf(0) = "control" /\ ArmOf(1) = "treatment"
  BY DEF ArmOf
<1>3. Counts(d) /\ R \in Nat \ {0}
  BY GradedMeasures DEF Counts
<1>4. /\ guard.rule = "must_pass" => BooleanAggregate(T, guard.aggregation)
      /\ guard.rule = "must_not_regress" =>
           ~BooleanAggregate(C, guard.aggregation) \/ BooleanAggregate(T, guard.aggregation)
      /\ guard.rule = "maximum" =>
           ~(NumberAggregate(T, guard.aggregation) > guard.threshold * Unit(R))
  BY <1>1 DEF GuardrailRegressed, GuardValues
<1>5. /\ C \in [1..R -> ValuesOf(guard.aggregation)] /\ Len(C) = R
      /\ \A r \in 1..R : C[r] = m[SlotIndex(R, e, r, 0)].guards[g]
      /\ Graded(d, m, e, "control") = {SlotIndex(R, e, r, 0) : r \in 1..R}
  BY <1>2, GuardMeasured
<1>6. /\ T \in [1..R -> ValuesOf(guard.aggregation)] /\ Len(T) = R
      /\ \A r \in 1..R : T[r] = m[SlotIndex(R, e, r, 1)].guards[g]
      /\ Graded(d, m, e, "treatment") = {SlotIndex(R, e, r, 1) : r \in 1..R}
  BY <1>2, GuardMeasured
<1>7. /\ BooleanAggregate(C, "all") <=> \A r \in 1..R : C[r] = 1
      /\ BooleanAggregate(T, "all") <=> \A r \in 1..R : T[r] = 1
  <2> HIDE DEF C, T, R
  <2>1. DOMAIN C = 1..R /\ DOMAIN T = 1..R /\ R \in Nat
    BY <1>3, <1>5, <1>6
  <2> QED
    BY <1>5, <1>6, <2>1, AllPass
<1>8. ASSUME BooleanAggregate(T, "all")
      PROVE  \A k \in Graded(d, m, e, "treatment") : m[k].guards[g] = 1
  <2> HIDE DEF T, R
  <2> QED
    BY <1>6, <1>7, <1>8
<1>9. CASE guard.rule = "must_pass" /\ guard.aggregation = "all"
  BY <1>4, <1>8, <1>9
<1>10. CASE guard.rule = "must_not_regress" /\ guard.aggregation = "all"
  <2>1. CASE BooleanAggregate(T, "all")
    BY <1>8, <1>10, <2>1
  <2>2. CASE ~BooleanAggregate(C, "all")
    <3> HIDE DEF C, R
    <3>1. PICK r \in 1..R : C[r] # 1
      BY <1>7, <2>2
    <3>2. ValuesOf("all") = {0, 1}
      BY DEF ValuesOf, BooleanAggregations
    <3>3. C[r] = 0
      BY <1>5, <1>10, <3>1, <3>2
    <3>4. \E k \in Graded(d, m, e, "control") : m[k].guards[g] = 0
      BY <1>5, <3>3
    <3> QED
      BY <1>10, <3>4
  <2> QED
    BY <1>4, <1>10, <2>1, <2>2
<1>11. CASE guard.rule = "maximum" /\ guard.aggregation = "sum"
  <2> DEFINE s == SumFunctionOnSet([k \in DOMAIN m |-> m[k].guards[g]],
                                   Graded(d, m, e, "treatment"))
  <2>1. s \in Int /\ NumberAggregate(T, "sum") = Unit(R) * s
    BY <1>2, SumMeasured
  <2>2. guard.threshold \in Int
    <3> DEFINE S == [rule : GuardrailRules, threshold : Int,
                     aggregation : NumberAggregations \cup BooleanAggregations]
    <3>1. d.guardrails \in Seq(S)
      BY GradedAssumption
    <3>2. \A x \in S : x.threshold \in Int
      OBVIOUS
    <3> HIDE DEF S
    <3>3. d.guardrails \in [1..Len(d.guardrails) -> S]
      BY <3>1, SeqIsFunction
    <3> QED
      BY <3>2, <3>3
  <2> DEFINE b == guard.threshold
  <2>3. ~(Unit(R) * s > b * Unit(R))
    BY <1>4, <1>11, <2>1
  <2> HIDE DEF s, b, R, T
  <2>4. s <= b
    <3> SUFFICES ASSUME ~(s <= b) PROVE FALSE
      OBVIOUS
    <3> DEFINE u == Unit(R)
    <3>1. u \in Nat \ {0}
      BY <1>3 DEF Unit
    <3> HIDE DEF u
    <3>2. b \in Int /\ s - b \in Nat \ {0} /\ s = b + (s - b)
      BY <2>1, <2>2 DEF b
    <3>3. u * s = u * b + u * (s - b) /\ u * (s - b) > 0 /\ u * b \in Int /\ u * b = b * u
      BY <2>1, <3>1, <3>2
    <3>4. ~(u * s > b * u)
      BY <2>3 DEF u
    <3> QED
      BY <2>1, <3>1, <3>2, <3>3, <3>4
  <2> QED
    BY <1>11, <2>4 DEF s, b
<1> QED
  BY <1>9, <1>10, <1>11

(* Every verdict ever recorded was reached by an even-handed rule, for any *)
(* designs and whatever is measured.                                       *)
THEOREM VerdictsAreMirrored == Spec => []Mirrored
<1>1. Mirrored
  BY EvenHanded DEF Mirrored
<1> QED
  BY <1>1, PTL

(* None was improved by the rule over a guardrail that regressed.          *)
THEOREM NoneImprovesOverGuardrails == Spec => []GuardrailsDefeat
<1>1. GuardrailsDefeat
  BY GuardrailsHold DEF GuardrailsDefeat
<1> QED
  BY <1>1, PTL
===============================================================================
