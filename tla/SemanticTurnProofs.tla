-------------------------- MODULE SemanticTurnProofs --------------------------
(***************************************************************************)
(* Egress is accounted for, and a turn's receipt is last, for any hosts,   *)
(* plans, windows and answers.                                             *)
(*                                                                         *)
(* The argument has two halves.  Every record is written once, so whatever *)
(* a host has seen of the store stays true (Grows): what is known of the   *)
(* other hosts survives any step (OthersKeep).  What remains is the host   *)
(* that acts: at each point of its call it stands on the records its call  *)
(* has written or found (Standing), and with them the records themselves   *)
(* agree (Bound) and the calls made are the dispatches won (OneCaller).    *)
(***************************************************************************)
EXTENDS SemanticTurn, TLAPS

Locked    == {"authorize", "attempt", "again", "claim", "dispatch"}
Attempted == {"again", "claim", "dispatch"}
Calling   == {"invoke", "await"}
OwnSteps  == {"revalidate", "reserve", "lock", "existing"} \cup Locked \cup Calling
Writing   == {"put_result", "put_sidecar", "put_child", "put_index", "put_turn"}
Reading   == {"classify", "answered", "terminal", "intent"}

(* What holds of a call at each of its steps.                              *)
RunStanding(h) ==
  /\ mode[h] \in {"inner", "run"} =>
       ours[h] # None /\ grant[h] \in Granted(ours[h])
  /\ pc[h] = "load" => mode[h] = "inner"
  /\ pc[h] = "find" => mode[h] # "run"
  /\ pc[h] \in OwnSteps => mode[h] = "run" /\ plan[h] = ours[h]
  /\ mode[h] = "run" => plan[h] = ours[h]
  /\ pc[h] = "authorize" => Outbound

Reserved(h) ==
  /\ pc[h] \in {"lock"} \cup Locked => reserved[ours[h].turn] = ours[h]
  /\ pc[h] \in Locked => locked = ours[h]
  /\ pc[h] \in Locked \ {"authorize"} => granted[ours[h].turn] = grant[h]
  /\ pc[h] \in Attempted => attempt = ours[h]
  /\ pc[h] = "dispatch" =>
       /\ marker[h] # None /\ InWindow(marker[h])
       /\ marker[h].plan = ours[h] /\ marker[h].auth = grant[h]
  /\ pc[h] \in Calling \cup {"existing"} => dispatched[ours[h].turn] # None

AnswerStanding(h) ==
  /\ pc[h] \in Reading \cup Writing \cup {"put_intent"} => plan[h] # None
  /\ pc[h] = "await" => calls[ours[h].turn] > 0
  /\ pc[h] = "terminal" => results[plan[h].turn] # None
  /\ pc[h] = "intent" => seen[h] \in Known \cup {"not_dispatched"}
  /\ pc[h] = "intent" /\ seen[h] = "result_recorded" =>
       results[plan[h].turn] # None
  /\ pc[h] \in Writing \cup {"put_intent"} =>
       doing[h] # None /\ calls[plan[h].turn] > 0
  /\ pc[h] \in Writing /\ doing[h] = "completed" => intent = plan[h].turn
  /\ pc[h] = "put_turn" => plan[h].turn \in indexed /\ Whole(plan[h].turn, doing[h])

Standing(h) == RunStanding(h) /\ Reserved(h) /\ AnswerStanding(h)

(* The records that precede egress name one another.                       *)
Bound ==
  /\ locked # None => reserved[locked.turn] = locked
  /\ attempt # None => locked = attempt
  /\ ~Outbound => \A t \in Turns : granted[t] = None
  /\ \A t \in Turns : dispatched[t] # None =>
       LET d == dispatched[t]
       IN  /\ d.plan.turn = t /\ attempt = d.plan
           /\ granted[t] = d.auth /\ (Outbound <=> d.auth # None)
           /\ InWindow(d)

(* A call stands on a dispatch, and one host at most is about to make it.  *)
OneCaller ==
  /\ \A t \in Turns : calls[t] <= 1 /\ (calls[t] > 0 => dispatched[t] # None)
  /\ \A h \in Hosts : pc[h] = "invoke" => calls[ours[h].turn] = 0
  /\ \A g, h \in Hosts : pc[g] = "invoke" /\ pc[h] = "invoke" => g = h

(* What is known of an answer came from a call.                            *)
Facts ==
  /\ intent # None => calls[intent] > 0
  /\ \A t \in Turns : results[t] # None =>
       calls[t] > 0 /\ (results[t] = "completed" => intent = t)
  /\ TurnLast

(* The typing of the calls, apart from that of the records.                *)
LocalType ==
  /\ pc \in [Hosts -> Steps]
  /\ mode \in [Hosts -> {"none", "inner", "run", "recover"}]
  /\ ours \in [Hosts -> Plans \cup {None}]
  /\ plan \in [Hosts -> Plans \cup {None}]
  /\ grant \in [Hosts -> Windows \cup {None}]
  /\ marker \in [Hosts -> DispatchMarker \cup {None}]
  /\ seen \in [Hosts -> Known \cup {"not_dispatched", None}]
  /\ doing \in [Hosts -> Statuses \cup {None}]
  /\ outcome \in [Hosts -> Outcomes]

RecordType ==
  /\ [lane |-> lane, transport |-> transport] \in Definitions /\ now \in 0..Horizon
  /\ reserved \in Reservations /\ locked \in PlanLocks
  /\ granted \in Authorizations /\ attempt \in Attempts
  /\ dispatched \in [Turns -> DispatchMarker \cup {None}]
  /\ intent \in CompletionIntents /\ results \in ResultBindings
  /\ sidecars \in IF lane = "generation" THEN Executions ELSE Assessments
  /\ child \subseteq {ChildKinds[k] : k \in DOMAIN ChildKinds}
  /\ indexed \subseteq Turns /\ terminals \in TurnReceipts
  /\ calls \in [Turns -> Nat]

(* All that is typed but the size of the answer.                           *)
Typed == LocalType /\ RecordType

IInv ==
  /\ Typed
  /\ \A h \in Hosts : Standing(h)
  /\ Bound /\ OneCaller /\ Facts

-------------------------------------------------------------------------------
(* Every record stays as it was first written.                             *)
Once(before, after) == \A t \in Turns : before[t] # None => after[t] = before[t]

Grows ==
  /\ lane' = lane /\ transport' = transport
  /\ Once(reserved, reserved') /\ Once(granted, granted')
  /\ Once(dispatched, dispatched') /\ Once(results, results')
  /\ Once(terminals, terminals')
  /\ ~Outbound => granted' = granted
  /\ locked # None => locked' = locked
  /\ attempt # None => attempt' = attempt
  /\ intent # None => intent' = intent
  /\ sidecars \subseteq sidecars' /\ child \subseteq child'
  /\ indexed \subseteq indexed'
  /\ \A t \in Turns : calls'[t] >= calls[t]

(* A step that leaves a call's own state alone.                            *)
Untouched(g) ==
  /\ pc'[g] = pc[g] /\ mode'[g] = mode[g] /\ ours'[g] = ours[g]
  /\ plan'[g] = plan[g] /\ grant'[g] = grant[g] /\ marker'[g] = marker[g]
  /\ seen'[g] = seen[g] /\ doing'[g] = doing[g]

-------------------------------------------------------------------------------
(* A plan belongs to a turn, and no plan is missing.                       *)
LEMMA PlansHaveTurns ==
  (\A p \in Plans : p.turn \in Turns /\ p # None) /\ None \notin Turns
BY TurnAssumption, AbsenceAssumption DEF Turns

(* An answer is graded to one of the statuses a result may have.           *)
LEMMA GradeHasStatus ==
  ASSUME NEW limit, NEW a \in Answers
  PROVE  Grade(limit, a).status \in Statuses
<1>1. a \in Answer
  BY TurnAssumption
<1>2. Parses(a) => a.envelope \in Envelopes
  BY <1>1 DEF Parses, Answer
<1> QED
  BY <1>2 DEF Grade, Statuses, Envelopes

(* The facts a call stands on survive the steps of others, since no record *)
(* is ever rewritten.                                                      *)
LEMMA OthersKeep ==
  ASSUME Typed, NEW g \in Hosts, Standing(g), Grows, Untouched(g), Typed'
  PROVE  Standing(g)'
<1>1. RunStanding(g)'
  BY DEF Standing, RunStanding, Grows, Untouched, Granted, Outbound, Grants
<1>2. /\ ours[g] # None => ours[g] \in Plans /\ ours[g].turn \in Turns
      /\ plan[g] # None => plan[g] \in Plans /\ plan[g].turn \in Turns
  BY PlansHaveTurns DEF Typed, LocalType
<1>3. pc[g] \in OwnSteps => ours[g] \in Plans /\ ours[g].turn \in Turns
  BY <1>2 DEF Standing, RunStanding
<1>4. Reserved(g)'
  <2>1. pc[g] \in OwnSteps => ours[g] # None
    BY <1>3, PlansHaveTurns
  <2>2. (pc[g] \in {"lock"} \cup Locked => reserved[ours[g].turn] = ours[g])'
    BY <1>3, <2>1 DEF Standing, Reserved, Grows, Once, Untouched, OwnSteps
  <2>3. (pc[g] \in Locked => locked = ours[g])'
    BY <2>1 DEF Standing, Reserved, Grows, Untouched, OwnSteps
  <2>4. (pc[g] \in Attempted => attempt = ours[g])'
    BY <2>1 DEF Standing, Reserved, Grows, Untouched, OwnSteps, Attempted, Locked
  <2>5. (pc[g] = "dispatch" =>
           /\ marker[g] # None /\ InWindow(marker[g])
           /\ marker[g].plan = ours[g] /\ marker[g].auth = grant[g])'
    BY DEF Standing, Reserved, Untouched, InWindow
  <2>6. (pc[g] \in Calling \cup {"existing"} => dispatched[ours[g].turn] # None)'
    BY <1>3, <2>1 DEF Standing, Reserved, Grows, Once, Untouched, OwnSteps
  <2>7. (pc[g] \in Locked \ {"authorize"} => granted[ours[g].turn] = grant[g])'
    <3>1. pc[g] \in Locked => mode[g] = "run" /\ grant[g] \in Granted(ours[g])
      BY DEF Standing, RunStanding, OwnSteps
    <3>2. Outbound /\ pc[g] \in Locked => grant[g] # None
      BY <3>1, AbsenceAssumption DEF Granted, Grants
    <3> QED
      BY <1>3, <3>2 DEF Standing, Reserved, Grows, Once, Untouched, OwnSteps
  <2> QED
    BY <2>2, <2>3, <2>4, <2>5, <2>6, <2>7 DEF Reserved
<1>5. AnswerStanding(g)'
  <2>1. (pc[g] \in Reading \cup Writing \cup {"put_intent"} => plan[g] # None)'
    BY DEF Standing, AnswerStanding, Untouched
  <2>2. (pc[g] = "await" => calls[ours[g].turn] > 0)'
    BY <1>3
    DEF Standing, AnswerStanding, Untouched, Grows, OwnSteps, Calling, Typed,
        RecordType
  <2>3. /\ (pc[g] = "intent" => seen[g] \in Known \cup {"not_dispatched"})'
        /\ (pc[g] = "terminal" => results[plan[g].turn] # None)'
        /\ (pc[g] = "intent" /\ seen[g] = "result_recorded" =>
              results[plan[g].turn] # None)'
    BY <1>2 DEF Standing, AnswerStanding, Untouched, Grows, Once, Reading
  <2>4. (pc[g] \in Writing \cup {"put_intent"} =>
           doing[g] # None /\ calls[plan[g].turn] > 0)'
    BY <1>2 DEF Standing, AnswerStanding, Untouched, Grows, Typed, RecordType
  <2>5. (pc[g] \in Writing /\ doing[g] = "completed" => intent = plan[g].turn)'
    BY <1>2, PlansHaveTurns DEF Standing, AnswerStanding, Untouched, Grows
  <2>6. (pc[g] = "put_turn" =>
           plan[g].turn \in indexed /\ Whole(plan[g].turn, doing[g]))'
    BY <1>2
    DEF Standing, AnswerStanding, Untouched, Grows, Once, Whole, Writing,
        GenerationWhole, AdvisoryWhole
  <2> QED
    BY <2>1, <2>2, <2>3, <2>4, <2>5, <2>6 DEF AnswerStanding
<1> QED
  BY <1>1, <1>4, <1>5 DEF Standing

-------------------------------------------------------------------------------
LEMMA Typing == Typed <=> LocalType /\ RecordType
BY DEF Typed

(* Only the call of h has moved.                                           *)
Alone(h) == \A g \in Hosts \ {h} : Untouched(g)

(* A step of h that is sound for h and for the records is sound for all.   *)
LEMMA StepKeeps ==
  ASSUME IInv, NEW h \in Hosts, LocalType', RecordType', Grows, Alone(h),
         Standing(h)', Bound', OneCaller', Facts'
  PROVE  IInv'
<1>1. Typed'
  BY DEF Typed, LocalType, RecordType
<1>2. ASSUME NEW g \in Hosts PROVE Standing(g)'
  <2>1. CASE g = h
    BY <2>1
  <2>2. CASE g # h
    BY <1>1, <2>2, OthersKeep DEF IInv, Alone
  <2> QED
    BY <2>1, <2>2
<1> QED
  BY <1>1, <1>2 DEF IInv

(* A step that touches no record, and calls no provider next.              *)
LEMMA LocalStepKeeps ==
  ASSUME IInv, NEW h \in Hosts, UNCHANGED <<fixed, now, intents, facts, calls>>,
         LocalType', Alone(h), Standing(h)', pc'[h] # "invoke"
  PROVE  IInv'
<1>1. RecordType'
  BY Typing DEF IInv, RecordType, fixed, intents, facts
<1>2. Grows
  BY Typing DEF IInv, RecordType, Grows, Once, fixed, intents, facts, Outbound
<1>3. Bound'
  BY DEF IInv, Bound, fixed, intents, Outbound, InWindow
<1>4. OneCaller'
  BY DEF IInv, OneCaller, fixed, intents, Alone, Untouched
<1>5. Facts'
  BY DEF IInv, Facts, TurnLast, fixed, facts
<1> QED
  BY <1>1, <1>2, <1>3, <1>4, <1>5, StepKeeps

(* However a call ends, nothing is asked of an idle host.                  *)
LEMMA EndKeeps ==
  ASSUME LocalType, NEW h \in Hosts, NEW r \in Outcomes, End(h, r)
  PROVE  LocalType' /\ Alone(h) /\ Standing(h)' /\ pc'[h] = "idle"
<1>1. LocalType'
  BY DEF End, Goto, LocalType, Steps
<1>2. Alone(h)
  BY DEF End, Goto, LocalType, Alone, Untouched
<1>3. pc'[h] = "idle" /\ mode'[h] = "none"
  BY DEF End, Goto, LocalType
<1>4. Standing(h)'
  BY <1>3
  DEF Standing, RunStanding, Reserved, AnswerStanding, OwnSteps, Locked,
      Attempted, Calling, Reading, Writing
<1> QED
  BY <1>1, <1>2, <1>3, <1>4

LEMMA ThrowKeeps ==
  ASSUME LocalType, NEW h \in Hosts, NEW e \in Errors, Throw(h, e)
  PROVE  LocalType' /\ Alone(h) /\ Standing(h)' /\ pc'[h] = "idle"
<1>1. Failed(e) \in Outcomes
  BY DEF Failed, Report, Outcomes
<1> QED
  BY <1>1, EndKeeps DEF Throw

LEMMA FinishKeeps ==
  ASSUME LocalType, NEW h \in Hosts,
         NEW s \in Statuses \cup {"outcome_unknown", None},
         NEW p \in {"committed", "existing", "dispatch_only"}, Finish(h, s, p)
  PROVE  LocalType' /\ Alone(h) /\ Standing(h)' /\ pc'[h] = "idle"
<1>1. Report(s, p) \in Outcomes /\ Report(s, "existing") \in Outcomes
  BY DEF Report, Outcomes
<1>2. CASE mode[h] = "inner" /\ ours[h] # attempt
  BY <1>2, ThrowKeeps DEF Finish, Errors
<1>3. CASE mode[h] = "inner" /\ ours[h] = attempt
  BY <1>1, <1>3, EndKeeps DEF Finish
<1>4. CASE mode[h] # "inner"
  BY <1>1, <1>4, EndKeeps DEF Finish
<1> QED
  BY <1>2, <1>3, <1>4

-------------------------------------------------------------------------------
(* Steps that write no record.                                             *)
LEMMA RunKeeps == ASSUME IInv, NEW h \in Hosts, Run(h) PROVE IInv'
<1>1. UNCHANGED <<fixed, now, intents, facts, calls>> /\ LocalType
  BY Typing DEF Run, IInv
<1>2. PICK p \in Plans, w \in Windows \cup {None} :
        /\ w \in Granted(p)
        /\ ours' = [ours EXCEPT ![h] = p]
        /\ grant' = [grant EXCEPT ![h] = w]
  BY DEF Run
<1>3. LocalType'
  BY <1>1, <1>2
  DEF Run, Goto, LocalType, Steps, Silent, Report, Outcomes
<1>4. Alone(h)
  BY <1>1, <1>2 DEF Run, Goto, LocalType, Alone, Untouched
<1>5. /\ pc'[h] = "load" /\ mode'[h] = "inner" /\ ours'[h] # None
      /\ (grant[h] \in Granted(ours[h]))'
  BY <1>1, <1>2, PlansHaveTurns
  DEF Run, Goto, LocalType, fixed, Granted, Grants, Outbound
<1>6. Standing(h)'
  BY <1>5
  DEF Standing, RunStanding, Reserved, AnswerStanding, OwnSteps, Locked,
      Attempted, Calling, Reading, Writing
<1> QED
  BY <1>1, <1>3, <1>4, <1>5, <1>6, LocalStepKeeps

LEMMA RecoverKeeps == ASSUME IInv, NEW h \in Hosts, Recover(h) PROVE IInv'
<1>1. UNCHANGED <<fixed, now, intents, facts, calls>> /\ LocalType
  BY Typing DEF Recover, IInv
<1>2. LocalType'
  BY <1>1 DEF Recover, Goto, LocalType, Steps, Silent, Report, Outcomes
<1>3. Alone(h)
  BY <1>1 DEF Recover, Goto, LocalType, Alone, Untouched
<1>4. pc'[h] = "find" /\ mode'[h] = "recover"
  BY <1>1 DEF Recover, Goto, LocalType
<1>5. Standing(h)'
  BY <1>4
  DEF Standing, RunStanding, Reserved, AnswerStanding, OwnSteps, Locked,
      Attempted, Calling, Reading, Writing
<1> QED
  BY <1>1, <1>2, <1>3, <1>4, <1>5, LocalStepKeeps

LEMMA LoadAttemptKeeps == ASSUME IInv, NEW h \in Hosts, LoadAttempt(h) PROVE IInv'
<1>1. UNCHANGED <<fixed, now, intents, facts, calls>> /\ LocalType
  BY Typing DEF LoadAttempt, IInv
<1>2. CASE Conflicts(attempt, ours[h])
  BY <1>1, <1>2, ThrowKeeps, LocalStepKeeps DEF LoadAttempt, Errors
<1>3. CASE ~Conflicts(attempt, ours[h])
  <2>1. LocalType' /\ Alone(h) /\ pc'[h] = "find"
    BY <1>1, <1>3
    DEF LoadAttempt, Goto, LocalType, Alone, Untouched, Steps, local
  <2>2. RunStanding(h)'
    BY <1>1, <1>3, <2>1
    DEF LoadAttempt, IInv, Standing, RunStanding, local, fixed, Granted, Grants,
        Outbound, OwnSteps, Locked, Calling
  <2>3. Standing(h)'
    BY <2>1, <2>2
    DEF Standing, Reserved, AnswerStanding, OwnSteps, Locked,
        Attempted, Calling, Reading, Writing
  <2> QED
    BY <1>1, <2>1, <2>3, LocalStepKeeps
<1> QED
  BY <1>2, <1>3

(* The ways a call goes on: it moves, keeping or changing some of what it  *)
(* remembers.                                                              *)
Same(h) ==
  /\ mode'[h] = mode[h] /\ ours'[h] = ours[h] /\ plan'[h] = plan[h]
  /\ grant'[h] = grant[h]

LEMMA ProceedMoves ==
  ASSUME LocalType, NEW h \in Hosts, NEW s \in Steps, Proceed(h, s)
  PROVE  /\ LocalType' /\ Alone(h) /\ pc'[h] = s /\ Same(h)
         /\ marker'[h] = marker[h] /\ seen'[h] = seen[h] /\ doing'[h] = doing[h]
BY DEF Proceed, Goto, local, LocalType, Alone, Untouched, Same

LEMMA SawMoves ==
  ASSUME LocalType, NEW h \in Hosts, NEW s \in Steps,
         NEW x \in Known \cup {"not_dispatched"}, Saw(h, x, s)
  PROVE  /\ LocalType' /\ Alone(h) /\ pc'[h] = s /\ Same(h)
         /\ seen'[h] = x /\ doing'[h] = doing[h]
BY DEF Saw, Goto, LocalType, Alone, Untouched, Same

LEMMA CompleteMoves ==
  ASSUME LocalType, NEW h \in Hosts, NEW s \in Steps, NEW x \in Statuses,
         CompleteWith(h, x, s)
  PROVE  /\ LocalType' /\ Alone(h) /\ pc'[h] = s /\ Same(h)
         /\ seen'[h] = seen[h] /\ doing'[h] = x
BY DEF CompleteWith, Goto, LocalType, Alone, Untouched, Same

(* The mode of a run keeps its meaning while its records stay.             *)
LEMMA SameRun ==
  ASSUME NEW h \in Hosts, RunStanding(h), Same(h), fixed' = fixed,
         pc'[h] \notin {"load", "find"}, pc'[h] \in OwnSteps => mode[h] = "run",
         pc'[h] # "authorize"
  PROVE  RunStanding(h)'
BY DEF RunStanding, Same, fixed, Granted, Grants, Outbound

(* Nothing dispatched: a run inside its recovery becomes the run itself.   *)
LEMMA NotDispatchedKeeps ==
  ASSUME IInv, NEW h \in Hosts, UNCHANGED <<fixed, now, intents, facts, calls>>,
         NotDispatched(h)
  PROVE  IInv'
<1>1. LocalType /\ Standing(h)
  BY Typing DEF IInv
<1>2. CASE mode[h] = "inner"
  <2>1. LocalType' /\ Alone(h) /\ pc'[h] = "revalidate"
    BY <1>1, <1>2 DEF NotDispatched, Goto, LocalType, Alone, Untouched, Steps
  <2>2. /\ mode'[h] = "run" /\ plan'[h] = ours[h] /\ ours'[h] = ours[h]
        /\ grant'[h] = grant[h]
    BY <1>1, <1>2 DEF NotDispatched, LocalType
  <2>3. Standing(h)'
    BY <1>1, <1>2, <2>1, <2>2
    DEF Standing, RunStanding, Reserved, AnswerStanding, OwnSteps, Locked,
        Attempted, Calling, Reading, Writing, fixed, Granted, Grants, Outbound
  <2> QED
    BY <2>1, <2>3, LocalStepKeeps
<1>3. CASE mode[h] # "inner"
  <2>1. Report("not_dispatched", "not_dispatched") \in Outcomes
    BY DEF Report, Outcomes
  <2> QED
    BY <1>1, <1>3, <2>1, EndKeeps, LocalStepKeeps DEF NotDispatched
<1> QED
  BY <1>2, <1>3

LEMMA FindAttemptKeeps == ASSUME IInv, NEW h \in Hosts, FindAttempt(h) PROVE IInv'
<1>1. UNCHANGED <<fixed, now, intents, facts, calls>> /\ LocalType /\ Standing(h)
  BY Typing DEF FindAttempt, IInv
<1>2. CASE attempt = None
  BY <1>1, <1>2, NotDispatchedKeeps DEF FindAttempt
<1>3. CASE attempt # None /\ (reserved[attempt.turn] # attempt \/ locked # attempt)
  BY <1>1, <1>3, ThrowKeeps, LocalStepKeeps DEF FindAttempt, Errors
<1>4. CASE attempt # None /\ ~(reserved[attempt.turn] # attempt \/ locked # attempt)
  <2>1. attempt \in Plans
    BY <1>4 DEF IInv, Typed, RecordType, Attempts
  <2>2. LocalType' /\ Alone(h) /\ pc'[h] = "classify"
    BY <1>1, <1>4, <2>1
    DEF FindAttempt, Goto, LocalType, Alone, Untouched, Steps
  <2>3. /\ mode'[h] = mode[h] /\ ours'[h] = ours[h] /\ grant'[h] = grant[h]
        /\ plan'[h] = attempt /\ mode[h] # "run"
    BY <1>1, <1>4 DEF FindAttempt, LocalType, Standing, RunStanding
  <2>4. Standing(h)'
    BY <1>1, <1>4, <2>1, <2>2, <2>3
    DEF Standing, RunStanding, Reserved, AnswerStanding, OwnSteps, Locked,
        Attempted, Calling, Reading, Writing, fixed, Granted, Grants, Outbound
  <2> QED
    BY <1>1, <2>2, <2>4, LocalStepKeeps
<1> QED
  BY <1>2, <1>3, <1>4

LEMMA ClassifyDispatchKeeps ==
  ASSUME IInv, NEW h \in Hosts, ClassifyDispatch(h) PROVE IInv'
<1>1. UNCHANGED <<fixed, now, intents, facts, calls>> /\ LocalType /\ Standing(h)
  BY Typing DEF ClassifyDispatch, IInv
<1>2. /\ LocalType' /\ Alone(h) /\ Same(h) /\ plan[h] # None
      /\ \/ pc'[h] = "intent" /\ seen'[h] = "not_dispatched"
         \/ pc'[h] = "answered" /\ seen'[h] = "outcome_unknown"
  BY <1>1, SawMoves
  DEF ClassifyDispatch, Steps, Known, Standing, AnswerStanding, Reading
<1>3. RunStanding(h)'
  BY <1>1, <1>2, SameRun DEF Standing, OwnSteps, Locked, Calling
<1>4. Standing(h)'
  BY <1>2, <1>3
  DEF Standing, Reserved, AnswerStanding, OwnSteps, Locked, Attempted, Calling,
      Reading, Writing, Same, Known
<1> QED
  BY <1>1, <1>2, <1>4, LocalStepKeeps

(* What is known of a turn that was not completed is committed as it is.   *)
LEMMA CommitNoncompletedKeeps ==
  ASSUME IInv, NEW h \in Hosts, UNCHANGED <<fixed, now, intents, facts, calls>>,
         plan[h] # None, results[plan[h].turn] # None,
         CommitNoncompleted(h, results[plan[h].turn])
  PROVE  IInv'
<1>1. LocalType /\ Standing(h) /\ plan[h].turn \in Turns
  BY Typing, PlansHaveTurns DEF IInv, LocalType
<1>2. results[plan[h].turn] \in Statuses /\ calls[plan[h].turn] > 0
  BY <1>1, Typing DEF IInv, Facts, RecordType, ResultBindings
<1>3. CASE results[plan[h].turn] = "completed"
  BY <1>1, <1>3, ThrowKeeps, LocalStepKeeps DEF CommitNoncompleted, Errors
<1>4. CASE results[plan[h].turn] # "completed"
  <2>1. /\ LocalType' /\ Alone(h) /\ pc'[h] = "put_result" /\ Same(h)
        /\ doing'[h] = results[plan[h].turn]
    BY <1>1, <1>2, <1>4, CompleteMoves DEF CommitNoncompleted, Steps
  <2>2. RunStanding(h)'
    BY <1>1, <2>1, SameRun DEF Standing, OwnSteps, Locked, Calling
  <2>3. doing'[h] # None
    BY <1>2, <2>1, TurnAssumption
  <2>4. Standing(h)'
    BY <1>2, <1>4, <2>1, <2>2, <2>3
    DEF Standing, Reserved, AnswerStanding, OwnSteps, Locked, Attempted,
        Calling, Reading, Writing, Same
  <2> QED
    BY <2>1, <2>4, LocalStepKeeps
<1> QED
  BY <1>3, <1>4

(* A call that holds the intent of its turn completes it.                  *)
LEMMA CompletionKeeps ==
  ASSUME IInv, NEW h \in Hosts, UNCHANGED <<fixed, now, intents, facts, calls>>,
         plan[h] # None, intent = plan[h].turn,
         CompleteWith(h, "completed", "put_result")
  PROVE  IInv'
<1>1. LocalType /\ Standing(h) /\ plan[h].turn \in Turns /\ plan[h].turn # None
  BY Typing, PlansHaveTurns DEF IInv, LocalType
<1>2. calls[plan[h].turn] > 0 /\ intent' = intent
  BY <1>1 DEF IInv, Facts, facts
<1>3. /\ LocalType' /\ Alone(h) /\ pc'[h] = "put_result" /\ Same(h)
      /\ doing'[h] = "completed"
  BY <1>1, CompleteMoves DEF Steps, Statuses, Envelopes
<1>4. RunStanding(h)'
  BY <1>1, <1>3, SameRun DEF Standing, OwnSteps, Locked, Calling
<1>5. doing'[h] # None
  BY <1>3, TurnAssumption DEF Statuses, Envelopes
<1>6. Standing(h)'
  BY <1>2, <1>3, <1>4, <1>5
  DEF Standing, Reserved, AnswerStanding, OwnSteps, Locked, Attempted,
      Calling, Reading, Writing, Same
<1> QED
  BY <1>3, <1>6, LocalStepKeeps

LEMMA ClassifyResultKeeps ==
  ASSUME IInv, NEW h \in Hosts, ClassifyResult(h) PROVE IInv'
<1>1. UNCHANGED <<fixed, now, intents, facts, calls>> /\ LocalType /\ Standing(h)
  BY Typing DEF ClassifyResult, IInv
<1>2. CASE results[plan[h].turn] = None /\ mode[h] = "run"
  <2>1. Report("outcome_unknown", "dispatch_only") \in Outcomes
    BY DEF Report, Outcomes
  <2> QED
    BY <1>1, <1>2, <2>1, EndKeeps, LocalStepKeeps DEF ClassifyResult
<1>3. CASE results[plan[h].turn] # None \/ mode[h] # "run"
  <2>1. /\ LocalType' /\ Alone(h) /\ Same(h) /\ plan[h] # None
        /\ \/ /\ pc'[h] = "intent" /\ seen'[h] = "outcome_unknown"
           \/ /\ pc'[h] = "terminal" /\ seen'[h] = "result_recorded"
              /\ results[plan[h].turn] # None
    BY <1>1, <1>3, SawMoves
    DEF ClassifyResult, Steps, Known, Standing, AnswerStanding, Reading
  <2>2. RunStanding(h)'
    BY <1>1, <2>1, SameRun DEF Standing, OwnSteps, Locked, Calling
  <2>3. results' = results
    BY <1>1 DEF facts
  <2>4. Standing(h)'
    BY <2>1, <2>2, <2>3
    DEF Standing, Reserved, AnswerStanding, OwnSteps, Locked, Attempted,
        Calling, Reading, Writing, Same, Known
  <2> QED
    BY <1>1, <2>1, <2>4, LocalStepKeeps
<1> QED
  BY <1>2, <1>3

LEMMA ClassifyTerminalKeeps ==
  ASSUME IInv, NEW h \in Hosts, ClassifyTerminal(h) PROVE IInv'
<1> DEFINE t == plan[h].turn
<1>1. UNCHANGED <<fixed, now, intents, facts, calls>> /\ LocalType /\ Standing(h)
  BY Typing DEF ClassifyTerminal, IInv
<1>2. plan[h] # None /\ results[t] # None /\ t \in Turns
  BY <1>1, PlansHaveTurns
  DEF ClassifyTerminal, Standing, AnswerStanding, Reading, LocalType
<1>3. CASE Listed(t) /\ ~Sound(t)
  BY <1>1, <1>3, ThrowKeeps, LocalStepKeeps DEF ClassifyTerminal, Errors
<1>4. CASE ~(Listed(t) /\ ~Sound(t)) /\ mode[h] = "run" /\ Listed(t)
  <2>1. results[t] \in Statuses
    BY <1>2, Typing DEF IInv, RecordType, ResultBindings
  <2> QED
    BY <1>1, <1>4, <2>1, FinishKeeps, LocalStepKeeps DEF ClassifyTerminal
<1>5. CASE ~(Listed(t) /\ ~Sound(t)) /\ mode[h] = "run" /\ ~Listed(t)
  BY <1>1, <1>2, <1>5, CommitNoncompletedKeeps DEF ClassifyTerminal
<1>6. CASE ~(Listed(t) /\ ~Sound(t)) /\ mode[h] # "run"
  <2>1. /\ LocalType' /\ Alone(h) /\ Same(h) /\ pc'[h] = "intent"
        /\ seen'[h] \in {"committed", "result_recorded"}
    BY <1>1, <1>6, SawMoves DEF ClassifyTerminal, Steps, Known
  <2>2. RunStanding(h)'
    BY <1>1, <2>1, SameRun DEF Standing, OwnSteps, Locked, Calling
  <2>3. results' = results /\ seen'[h] \in Known \cup {"not_dispatched"}
    BY <1>1, <2>1 DEF facts, Known
  <2>4. Standing(h)'
    BY <1>2, <2>1, <2>2, <2>3
    DEF Standing, Reserved, AnswerStanding, OwnSteps, Locked, Attempted,
        Calling, Reading, Writing, Same
  <2> QED
    BY <1>1, <2>1, <2>4, LocalStepKeeps
<1> QED
  BY <1>3, <1>4, <1>5, <1>6

LEMMA ResumeKeeps == ASSUME IInv, NEW h \in Hosts, Resume(h) PROVE IInv'
<1> DEFINE t == plan[h].turn
<1>1. UNCHANGED <<fixed, now, intents, facts, calls>> /\ LocalType /\ Standing(h)
  BY Typing DEF Resume, IInv
<1>2. plan[h] # None /\ t \in Turns
      /\ seen[h] \in Known \cup {"not_dispatched"}
  BY <1>1, PlansHaveTurns DEF Resume, Standing, AnswerStanding, Reading, LocalType
<1>3. CASE seen[h] = "not_dispatched"
  <2>1. NotDispatched(h) \/ Throw(h, "store.corrupt")
    BY <1>3 DEF Resume
  <2> QED
    BY <1>1, <2>1, NotDispatchedKeeps, ThrowKeeps, LocalStepKeeps DEF Errors
<1>4. CASE seen[h] = "outcome_unknown"
  <2>1. \/ intent = t /\ CompleteWith(h, "completed", "put_result")
        \/ Finish(h, "outcome_unknown", "dispatch_only")
    BY <1>4 DEF Resume
  <2>2. CASE intent = t /\ CompleteWith(h, "completed", "put_result")
    BY <1>1, <1>2, <2>2, CompletionKeeps
  <2>3. CASE Finish(h, "outcome_unknown", "dispatch_only")
    BY <1>1, <2>3, FinishKeeps, LocalStepKeeps
  <2> QED
    BY <2>1, <2>2, <2>3
<1>5. CASE seen[h] = "result_recorded"
  <2>1. results[t] # None
    BY <1>1, <1>5 DEF Resume, Standing, AnswerStanding
  <2>2. \/ CommitNoncompleted(h, results[t])
        \/ intent = t /\ CompleteWith(h, "completed", "put_result")
        \/ Throw(h, "store.corrupt")
    BY <1>5 DEF Resume
  <2>3. CASE CommitNoncompleted(h, results[t])
    BY <1>1, <1>2, <2>1, <2>3, CommitNoncompletedKeeps
  <2>4. CASE intent = t /\ CompleteWith(h, "completed", "put_result")
    BY <1>1, <1>2, <2>4, CompletionKeeps
  <2>5. CASE Throw(h, "store.corrupt")
    BY <1>1, <2>5, ThrowKeeps, LocalStepKeeps DEF Errors
  <2> QED
    BY <2>2, <2>3, <2>4, <2>5
<1>6. CASE seen[h] = "committed"
  <2>1. Finish(h, terminals[t], "existing")
    BY <1>6 DEF Resume
  <2>2. terminals[t] \in Statuses \cup {None}
    BY <1>2, Typing DEF IInv, RecordType, TurnReceipts
  <2> QED
    BY <1>1, <2>1, <2>2, FinishKeeps, LocalStepKeeps
<1> QED
  BY <1>1, <1>2, <1>3, <1>4, <1>5, <1>6 DEF LocalType, Known

LEMMA RevalidateKeeps == ASSUME IInv, NEW h \in Hosts, Revalidate(h) PROVE IInv'
<1>1. UNCHANGED <<fixed, now, intents, facts, calls>> /\ LocalType /\ Standing(h)
  BY Typing DEF Revalidate, IInv
<1>2. \/ Throw(h, "expired") \/ Throw(h, "refused")
      \/ pc[h] = "again" /\ Proceed(h, "claim")
      \/ pc[h] = "revalidate" /\ Proceed(h, "reserve")
  BY DEF Revalidate
<1>3. CASE Throw(h, "expired") \/ Throw(h, "refused")
  BY <1>1, <1>3, ThrowKeeps, LocalStepKeeps DEF Errors
<1>4. CASE pc[h] = "again" /\ Proceed(h, "claim")
  <2>1. LocalType' /\ Alone(h) /\ pc'[h] = "claim" /\ Same(h)
    BY <1>1, <1>4, ProceedMoves DEF Steps
  <2>2. RunStanding(h)'
    BY <1>1, <1>4, <2>1, SameRun
    DEF Standing, RunStanding, OwnSteps, Locked, Calling
  <2>3. Standing(h)'
    BY <1>1, <1>4, <2>1, <2>2
    DEF Standing, Reserved, AnswerStanding, OwnSteps, Locked, Attempted,
        Calling, Reading, Writing, Same, intents
  <2> QED
    BY <1>1, <2>1, <2>3, LocalStepKeeps
<1>5. CASE pc[h] = "revalidate" /\ Proceed(h, "reserve")
  <2>1. LocalType' /\ Alone(h) /\ pc'[h] = "reserve" /\ Same(h)
    BY <1>1, <1>5, ProceedMoves DEF Steps
  <2>2. RunStanding(h)'
    BY <1>1, <1>5, <2>1, SameRun
    DEF Standing, RunStanding, OwnSteps, Locked, Calling
  <2>3. Standing(h)'
    BY <2>1, <2>2
    DEF Standing, Reserved, AnswerStanding, OwnSteps, Locked, Attempted,
        Calling, Reading, Writing
  <2> QED
    BY <1>1, <2>1, <2>3, LocalStepKeeps
<1> QED
  BY <1>2, <1>3, <1>4, <1>5

(* Outside a run's own steps ours and grant mean nothing; inside, they are *)
(* a plan and the window it was granted.                                   *)
LEMMA OwnPlan ==
  ASSUME IInv, NEW h \in Hosts, pc[h] \in OwnSteps
  PROVE  /\ mode[h] = "run" /\ plan[h] = ours[h]
         /\ ours[h] \in Plans /\ ours[h].turn \in Turns /\ ours[h] # None
         /\ grant[h] \in Windows \cup {None}
         /\ Outbound <=> grant[h] # None
<1>1. LocalType /\ RunStanding(h)
  BY Typing DEF IInv, Standing
<1>2. ours[h] \in Plans /\ grant[h] \in Granted(ours[h])
  BY <1>1 DEF RunStanding, LocalType
<1> QED
  BY <1>1, <1>2, PlansHaveTurns, AbsenceAssumption
  DEF RunStanding, LocalType, Granted, Grants

LEMMA ClaimKeeps == ASSUME IInv, NEW h \in Hosts, Claim(h) PROVE IInv'
<1> DEFINE p   == ours[h]
           d   == dispatched[p.turn]
           new == [plan |-> p, auth |-> grant[h], at |-> now]
<1>1. UNCHANGED <<fixed, now, intents, facts, calls>> /\ LocalType /\ Standing(h)
  BY Typing DEF Claim, IInv
<1>2. pc[h] = "claim" /\ pc[h] \in OwnSteps
  BY DEF Claim, OwnSteps, Locked
<1>3. CASE \/ d # None /\ ~BoundTo(d, p, grant[h])
           \/ d = None /\ ~InWindow(new)
  BY <1>1, <1>3, ThrowKeeps, LocalStepKeeps DEF Claim, Errors
<1>4. CASE d # None /\ BoundTo(d, p, grant[h])
  <2>1. LocalType' /\ Alone(h) /\ pc'[h] = "existing" /\ Same(h)
    BY <1>1, <1>4, SawMoves DEF Claim, Steps, Known
  <2>2. RunStanding(h)'
    BY <1>1, <1>2, <2>1, OwnPlan, SameRun DEF Standing
  <2>3. Standing(h)'
    BY <1>1, <1>4, <2>1, <2>2
    DEF Standing, Reserved, AnswerStanding, OwnSteps, Locked, Attempted,
        Calling, Reading, Writing, Same, intents
  <2> QED
    BY <1>1, <2>1, <2>3, LocalStepKeeps
<1>5. CASE d = None /\ InWindow(new)
  <2>1. new \in DispatchMarker /\ new # None
    BY <1>2, OwnPlan, AbsenceAssumption, Typing
    DEF IInv, RecordType, DispatchMarker
  <2>2. LocalType' /\ Alone(h) /\ pc'[h] = "dispatch" /\ Same(h) /\ marker'[h] = new
    BY <1>1, <1>5, <2>1
    DEF Claim, Goto, LocalType, Alone, Untouched, Same, Steps
  <2>3. RunStanding(h)'
    BY <1>1, <1>2, <2>2, OwnPlan, SameRun DEF Standing
  <2>4. InWindow(marker'[h]) /\ marker'[h] # None
        /\ marker'[h].plan = p /\ marker'[h].auth = grant[h]
    BY <1>5, <2>1, <2>2
  <2>5. Standing(h)'
    BY <1>1, <1>2, <2>2, <2>3, <2>4
    DEF Standing, Reserved, AnswerStanding, OwnSteps, Locked, Attempted,
        Calling, Reading, Writing, Same, intents, InWindow
  <2> QED
    BY <1>1, <2>2, <2>5, LocalStepKeeps
<1> QED
  BY <1>3, <1>4, <1>5

LEMMA ExistingKeeps == ASSUME IInv, NEW h \in Hosts, Existing(h) PROVE IInv'
<1>1. UNCHANGED <<fixed, now, intents, facts, calls>> /\ LocalType /\ Standing(h)
  BY Typing DEF Existing, IInv
<1>2. plan[h] = ours[h] /\ plan[h] # None
  BY OwnPlan DEF Existing, OwnSteps
<1>3. CASE intent = ours[h].turn
  BY <1>1, <1>2, <1>3, CompletionKeeps DEF Existing
<1>4. CASE intent # ours[h].turn
  <2>1. LocalType' /\ Alone(h) /\ pc'[h] = "answered" /\ Same(h)
    BY <1>1, <1>4, ProceedMoves DEF Existing, Steps
  <2>2. RunStanding(h)'
    BY <1>1, <2>1, SameRun DEF Standing, OwnSteps, Locked, Calling
  <2>3. Standing(h)'
    BY <1>2, <2>1, <2>2
    DEF Standing, Reserved, AnswerStanding, OwnSteps, Locked, Attempted,
        Calling, Reading, Writing, Same
  <2> QED
    BY <1>1, <2>1, <2>3, LocalStepKeeps
<1> QED
  BY <1>3, <1>4

LEMMA SettleKeeps == ASSUME IInv, NEW h \in Hosts, Settle(h) PROVE IInv'
<1>1. UNCHANGED <<fixed, now, intents, facts, calls>> /\ LocalType /\ Standing(h)
  BY Typing DEF Settle, IInv
<1>2. pc[h] = "await" /\ calls[plan[h].turn] > 0 /\ plan[h] # None
  BY <1>1, OwnPlan
  DEF Settle, Standing, AnswerStanding, OwnSteps, Calling
<1>3. PICK limit \in CostLimits, a \in Answers, z \in Sizes :
        LET r == Grade(limit, a)
        IN  IF ~Storable(limit, a, r, z) THEN Throw(h, "unstorable")
            ELSE CompleteWith(h, r.status,
                   IF r.status = "completed" THEN "put_intent" ELSE "put_result")
  BY DEF Settle, SizesOf, Sizes
<1>4. CASE Throw(h, "unstorable")
  BY <1>1, <1>4, ThrowKeeps, LocalStepKeeps DEF Errors
<1>5. CASE ~Throw(h, "unstorable")
  <2> DEFINE s == Grade(limit, a).status
  <2>1. s \in Statuses /\ s # None
    BY GradeHasStatus, TurnAssumption
  <2>2. CompleteWith(h, s, IF s = "completed" THEN "put_intent" ELSE "put_result")
    BY <1>3, <1>5
  <2> HIDE DEF s
  <2>3. /\ LocalType' /\ Alone(h) /\ Same(h) /\ doing'[h] = s
        /\ pc'[h] = (IF s = "completed" THEN "put_intent" ELSE "put_result")
    BY <1>1, <2>1, <2>2, CompleteMoves DEF Steps
  <2>4. RunStanding(h)'
    BY <1>1, <2>3, SameRun DEF Standing, OwnSteps, Locked, Calling
  <2>5. Standing(h)'
    BY <1>1, <1>2, <2>1, <2>3, <2>4
    DEF Standing, Reserved, AnswerStanding, OwnSteps, Locked, Attempted,
        Calling, Reading, Writing, Same
  <2> QED
    BY <1>1, <2>3, <2>5, LocalStepKeeps
<1> QED
  BY <1>4, <1>5

(* Calls that end without a record.                                        *)
LEMMA EndingsKeep ==
  ASSUME IInv, NEW h \in Hosts, Unknown(h) \/ Drift(h) \/ Crash(h) PROVE IInv'
<1>1. UNCHANGED <<fixed, now, intents, facts, calls>> /\ LocalType
  BY Typing DEF Unknown, Drift, Crash, IInv
<1>2. Silent \in Outcomes /\ Report("outcome_unknown", "dispatch_only") \in Outcomes
      /\ Failed("refused") \in Outcomes
  BY DEF Silent, Failed, Report, Outcomes, Errors
<1> QED
  BY <1>1, <1>2, EndKeeps, LocalStepKeeps DEF Unknown, Drift, Crash, Throw

(* Reads change what the host reports, and nothing else.                   *)
LEMMA ViewsKeep ==
  ASSUME IInv, NEW h \in Hosts, Prepare(h) \/ ViewTurn(h) \/ ViewChild(h)
  PROVE  IInv'
<1>1. /\ UNCHANGED <<fixed, now, intents, facts, calls, pc, mode, ours, plan,
                     grant, marker, seen, doing>>
      /\ LocalType /\ Standing(h) /\ pc[h] = "idle"
  BY Typing DEF Prepare, ViewTurn, ViewChild, IInv
<1>2. \A t \in Turns : Listed(t) => terminals[t] \in Statuses
  BY Typing DEF IInv, RecordType, TurnReceipts, Listed
<1>3. outcome' \in [Hosts -> Outcomes]
  BY <1>1, <1>2
  DEF Prepare, ViewTurn, ViewChild, LocalType, Report, Failed, Errors, Outcomes
<1>4. LocalType' /\ Alone(h)
  BY <1>1, <1>3 DEF LocalType, Alone, Untouched
<1>5. Standing(h)'
  BY <1>1
  DEF Standing, RunStanding, Reserved, AnswerStanding, OwnSteps, Locked,
      Attempted, Calling, Reading, Writing, fixed, Granted, Grants, Outbound
<1> QED
  BY <1>1, <1>4, <1>5, LocalStepKeeps

-------------------------------------------------------------------------------
(* Steps that write a record that precedes egress, or call the provider.   *)
LEMMA ReserveKeeps == ASSUME IInv, NEW h \in Hosts, Reserve(h) PROVE IInv'
<1> DEFINE p == ours[h]
<1>1. /\ UNCHANGED <<fixed, now, locked, granted, attempt, dispatched, facts, calls>>
      /\ LocalType /\ RecordType /\ Standing(h) /\ Bound /\ OneCaller /\ Facts
  BY Typing DEF Reserve, IInv
<1>2. /\ mode[h] = "run" /\ p \in Plans /\ p.turn \in Turns /\ p # None
  BY OwnPlan DEF Reserve, OwnSteps
<1>3. CASE Conflicts(reserved[p.turn], p)
  <2>1. UNCHANGED <<fixed, now, intents, facts, calls>> /\ Throw(h, "store.conflict")
    BY <1>1, <1>3 DEF Reserve, intents
  <2> QED
    BY <1>1, <2>1, ThrowKeeps, LocalStepKeeps DEF Errors
<1>4. CASE ~Conflicts(reserved[p.turn], p)
  <2>1. reserved' = [reserved EXCEPT ![p.turn] = p] /\ Proceed(h, "lock")
        /\ reserved[p.turn] \in {None, p}
    BY <1>4 DEF Reserve, Conflicts
  <2>2. LocalType' /\ Alone(h) /\ pc'[h] = "lock" /\ Same(h)
    BY <1>1, <2>1, ProceedMoves DEF Steps
  <2>3. RecordType'
    BY <1>1, <1>2, <2>1 DEF RecordType, Reservations, fixed, facts
  <2>4. Grows
    BY <1>1, <1>2, <2>1
    DEF RecordType, Reservations, Grows, Once, fixed, facts, Outbound
  <2>5. RunStanding(h)'
    BY <1>1, <1>2, <2>2, SameRun DEF Standing
  <2>6. Standing(h)'
    BY <1>1, <1>2, <2>1, <2>2, <2>5
    DEF Standing, Reserved, AnswerStanding, OwnSteps, Locked, Attempted,
        Calling, Reading, Writing, Same, RecordType, Reservations
  <2>7. Bound'
    BY <1>1, <1>2, <2>1, PlansHaveTurns
    DEF Bound, RecordType, Reservations, PlanLocks, fixed, Outbound, InWindow
  <2>8. OneCaller'
    BY <1>1, <2>2 DEF OneCaller, Alone, Untouched
  <2>9. Facts'
    BY <1>1 DEF Facts, TurnLast, facts, fixed
  <2> QED
    BY <2>2, <2>3, <2>4, <2>6, <2>7, <2>8, <2>9, StepKeeps
<1> QED
  BY <1>3, <1>4

LEMMA LockPlanKeeps == ASSUME IInv, NEW h \in Hosts, LockPlan(h) PROVE IInv'
<1> DEFINE p == ours[h]
<1>1. /\ UNCHANGED <<fixed, now, reserved, granted, attempt, dispatched, facts, calls>>
      /\ LocalType /\ RecordType /\ Standing(h) /\ Bound /\ OneCaller /\ Facts
  BY Typing DEF LockPlan, IInv
<1>2. /\ mode[h] = "run" /\ p \in Plans /\ p.turn \in Turns /\ p # None
      /\ (Outbound <=> grant[h] # None) /\ reserved[p.turn] = p
  BY <1>1, OwnPlan DEF LockPlan, OwnSteps, Standing, Reserved
<1>3. CASE Conflicts(locked, p)
  <2>1. UNCHANGED <<fixed, now, intents, facts, calls>> /\ Throw(h, "store.conflict")
    BY <1>1, <1>3 DEF LockPlan, intents
  <2> QED
    BY <1>1, <2>1, ThrowKeeps, LocalStepKeeps DEF Errors
<1>4. CASE ~Conflicts(locked, p)
  <2>1. /\ locked' = p /\ locked \in {None, p}
        /\ Proceed(h, IF Outbound THEN "authorize" ELSE "attempt")
    BY <1>4 DEF LockPlan, Conflicts
  <2>2. /\ LocalType' /\ Alone(h) /\ Same(h)
        /\ pc'[h] = (IF Outbound THEN "authorize" ELSE "attempt")
    BY <1>1, <2>1, ProceedMoves DEF Steps
  <2>3. RecordType'
    BY <1>1, <1>2, <2>1 DEF RecordType, PlanLocks, fixed, facts
  <2>4. Grows
    BY <1>1, <1>2, <2>1 DEF RecordType, Grows, Once, fixed, facts, Outbound
  <2>5. RunStanding(h)'
    BY <1>1, <1>2, <2>2
    DEF Standing, RunStanding, Same, fixed, Granted, Grants, Outbound
  <2>6. ~Outbound => granted[p.turn] = grant[h]
    BY <1>1, <1>2 DEF Bound
  <2>7. Standing(h)'
    BY <1>1, <1>2, <2>1, <2>2, <2>5, <2>6
    DEF Standing, Reserved, AnswerStanding, OwnSteps, Locked, Attempted,
        Calling, Reading, Writing, Same
  <2>8. Bound'
    BY <1>1, <1>2, <2>1
    DEF Bound, RecordType, PlanLocks, fixed, Outbound, InWindow
  <2>9. OneCaller' /\ Facts'
    BY <1>1, <2>2 DEF OneCaller, Alone, Untouched, Facts, TurnLast, facts, fixed
  <2> QED
    BY <2>2, <2>3, <2>4, <2>7, <2>8, <2>9, StepKeeps
<1> QED
  BY <1>3, <1>4

LEMMA AuthorizeKeeps == ASSUME IInv, NEW h \in Hosts, Authorize(h) PROVE IInv'
<1> DEFINE p == ours[h]
<1>1. /\ UNCHANGED <<fixed, now, reserved, locked, attempt, dispatched, facts, calls>>
      /\ LocalType /\ RecordType /\ Standing(h) /\ Bound /\ OneCaller /\ Facts
  BY Typing DEF Authorize, IInv
<1>2. /\ mode[h] = "run" /\ p \in Plans /\ p.turn \in Turns /\ p # None
      /\ Outbound /\ grant[h] \in Windows /\ grant[h] # None
      /\ reserved[p.turn] = p /\ locked = p
  BY <1>1, OwnPlan, AbsenceAssumption
  DEF Authorize, OwnSteps, Locked, Standing, RunStanding, Reserved
<1>3. CASE Conflicts(granted[p.turn], grant[h])
  <2>1. UNCHANGED <<fixed, now, intents, facts, calls>> /\ Throw(h, "store.conflict")
    BY <1>1, <1>3 DEF Authorize, intents
  <2> QED
    BY <1>1, <2>1, ThrowKeeps, LocalStepKeeps DEF Errors
<1>4. CASE ~Conflicts(granted[p.turn], grant[h])
  <2>1. /\ granted' = [granted EXCEPT ![p.turn] = grant[h]]
        /\ granted[p.turn] \in {None, grant[h]} /\ Proceed(h, "attempt")
    BY <1>4 DEF Authorize, Conflicts
  <2>2. LocalType' /\ Alone(h) /\ Same(h) /\ pc'[h] = "attempt"
    BY <1>1, <2>1, ProceedMoves DEF Steps
  <2>3. RecordType'
    BY <1>1, <1>2, <2>1 DEF RecordType, Authorizations, fixed, facts
  <2>4. Grows
    BY <1>1, <1>2, <2>1
    DEF RecordType, Authorizations, Grows, Once, fixed, facts, Outbound
  <2>5. RunStanding(h)'
    BY <1>1, <1>2, <2>2, SameRun DEF Standing
  <2>6. Standing(h)'
    BY <1>1, <1>2, <2>1, <2>2, <2>5
    DEF Standing, Reserved, AnswerStanding, OwnSteps, Locked, Attempted,
        Calling, Reading, Writing, Same, RecordType, Authorizations
  <2>7. Bound'
    BY <1>1, <1>2, <2>1
    DEF Bound, RecordType, Authorizations, fixed, Outbound, InWindow
  <2>8. OneCaller' /\ Facts'
    BY <1>1, <2>2 DEF OneCaller, Alone, Untouched, Facts, TurnLast, facts, fixed
  <2> QED
    BY <2>2, <2>3, <2>4, <2>6, <2>7, <2>8, StepKeeps
<1> QED
  BY <1>3, <1>4

LEMMA IndexAttemptKeeps == ASSUME IInv, NEW h \in Hosts, IndexAttempt(h) PROVE IInv'
<1> DEFINE p == ours[h]
<1>1. /\ UNCHANGED <<fixed, now, reserved, locked, granted, dispatched, facts, calls>>
      /\ LocalType /\ RecordType /\ Standing(h) /\ Bound /\ OneCaller /\ Facts
  BY Typing DEF IndexAttempt, IInv
<1>2. /\ mode[h] = "run" /\ p \in Plans /\ p # None
      /\ reserved[p.turn] = p /\ locked = p /\ granted[p.turn] = grant[h]
  BY <1>1, OwnPlan DEF IndexAttempt, OwnSteps, Locked, Standing, Reserved
<1>3. CASE Conflicts(attempt, p)
  <2>1. UNCHANGED <<fixed, now, intents, facts, calls>> /\ Throw(h, "store.conflict")
    BY <1>1, <1>3 DEF IndexAttempt, intents
  <2> QED
    BY <1>1, <2>1, ThrowKeeps, LocalStepKeeps DEF Errors
<1>4. CASE ~Conflicts(attempt, p)
  <2>1. attempt' = p /\ attempt \in {None, p} /\ Proceed(h, "again")
    BY <1>4 DEF IndexAttempt, Conflicts
  <2>2. LocalType' /\ Alone(h) /\ Same(h) /\ pc'[h] = "again"
    BY <1>1, <2>1, ProceedMoves DEF Steps
  <2>3. RecordType'
    BY <1>1, <1>2, <2>1 DEF RecordType, Attempts, fixed, facts
  <2>4. Grows
    BY <1>1, <1>2, <2>1 DEF RecordType, Grows, Once, fixed, facts, Outbound
  <2>5. RunStanding(h)'
    BY <1>1, <1>2, <2>2, SameRun DEF Standing
  <2>6. Standing(h)'
    BY <1>1, <1>2, <2>1, <2>2, <2>5
    DEF Standing, Reserved, AnswerStanding, OwnSteps, Locked, Attempted,
        Calling, Reading, Writing, Same
  <2>7. Bound'
    <3>1. (locked # None => reserved[locked.turn] = locked)'
          /\ (attempt # None => locked = attempt)'
      BY <1>1, <1>2, <2>1 DEF Bound
    <3>2. (~Outbound => \A t \in Turns : granted[t] = None)'
      BY <1>1 DEF Bound, fixed, Outbound
    <3>3. ASSUME NEW t \in Turns, dispatched[t] # None
          PROVE  attempt' = dispatched[t].plan
      <4>1. dispatched[t] \in DispatchMarker /\ attempt = dispatched[t].plan
        BY <1>1, <3>3 DEF Bound, RecordType
      <4>2. attempt # None
        BY <4>1, TurnAssumption DEF DispatchMarker
      <4> QED
        BY <2>1, <4>1, <4>2
    <3> QED
      BY <1>1, <3>1, <3>2, <3>3 DEF Bound, fixed, Outbound, InWindow
  <2>8. OneCaller' /\ Facts'
    BY <1>1, <2>2 DEF OneCaller, Alone, Untouched, Facts, TurnLast, facts, fixed
  <2> QED
    BY <2>2, <2>3, <2>4, <2>6, <2>7, <2>8, StepKeeps
<1> QED
  BY <1>3, <1>4

(* The create of a dispatch: by then every record it names is there, and   *)
(* nobody else can be about to call.                                       *)
LEMMA DispatchKeeps == ASSUME IInv, NEW h \in Hosts, Dispatch(h) PROVE IInv'
<1> DEFINE p == ours[h]
           t == p.turn
           m == marker[h]
<1>1. /\ UNCHANGED <<fixed, now, reserved, locked, granted, attempt, facts, calls>>
      /\ LocalType /\ RecordType /\ Standing(h) /\ Bound /\ OneCaller /\ Facts
  BY Typing DEF Dispatch, IInv
<1>2. /\ mode[h] = "run" /\ p \in Plans /\ t \in Turns /\ p # None /\ plan[h] = p
      /\ (Outbound <=> grant[h] # None)
      /\ granted[t] = grant[h] /\ attempt = p
      /\ m # None /\ m \in DispatchMarker /\ InWindow(m)
      /\ m.plan = p /\ m.auth = grant[h]
  BY <1>1, OwnPlan
  DEF Dispatch, OwnSteps, Locked, Attempted, Standing, Reserved, LocalType
<1>3. CASE dispatched[t] # None /\ ~BoundTo(dispatched[t], p, grant[h])
  <2>1. UNCHANGED <<fixed, now, intents, facts, calls>> /\ Throw(h, "schema.corrupt")
    BY <1>1, <1>3 DEF Dispatch, intents
  <2> QED
    BY <1>1, <2>1, ThrowKeeps, LocalStepKeeps DEF Errors
<1>4. CASE dispatched[t] # None /\ BoundTo(dispatched[t], p, grant[h])
  <2>1. UNCHANGED <<fixed, now, intents, facts, calls>>
    BY <1>1, <1>4 DEF Dispatch, intents
  <2>2. LocalType' /\ Alone(h) /\ pc'[h] = "existing" /\ Same(h)
    BY <1>1, <1>4
    DEF Dispatch, Goto, LocalType, Alone, Untouched, Same, Steps, Known
  <2>3. RunStanding(h)'
    BY <1>1, <1>2, <2>2, SameRun DEF Standing
  <2>4. Standing(h)'
    BY <1>4, <2>1, <2>2, <2>3
    DEF Standing, Reserved, AnswerStanding, OwnSteps, Locked, Attempted,
        Calling, Reading, Writing, Same, intents
  <2> QED
    BY <2>1, <2>2, <2>4, LocalStepKeeps
<1>5. CASE dispatched[t] = None
  <2>1. dispatched' = [dispatched EXCEPT ![t] = m]
    BY <1>5 DEF Dispatch
  <2>2. LocalType' /\ Alone(h) /\ pc'[h] = "invoke" /\ Same(h)
    BY <1>1, <1>5
    DEF Dispatch, Goto, LocalType, Alone, Untouched, Same, Steps
  <2>3. RecordType'
    BY <1>1, <1>2, <2>1 DEF RecordType, fixed, facts
  <2>4. Grows
    BY <1>1, <1>2, <1>5, <2>1 DEF RecordType, Grows, Once, fixed, facts, Outbound
  <2>5. RunStanding(h)'
    BY <1>1, <1>2, <2>2, SameRun DEF Standing
  <2>6. dispatched'[t] = m
    BY <1>1, <1>2, <2>1 DEF RecordType
  <2>7. Standing(h)'
    BY <1>2, <2>2, <2>5, <2>6
    DEF Standing, Reserved, AnswerStanding, OwnSteps, Locked, Attempted,
        Calling, Reading, Writing, Same
  <2>8. Bound'
    <3>1. ASSUME NEW u \in Turns, u # t PROVE dispatched'[u] = dispatched[u]
      BY <1>1, <2>1, <3>1 DEF RecordType
    <3> QED
      BY <1>1, <1>2, <2>6, <3>1 DEF Bound, fixed, Outbound, InWindow
  <2>9. OneCaller'
    <3>1. calls[t] = 0
      BY <1>1, <1>2, <1>5 DEF OneCaller, RecordType
    <3>2. ASSUME NEW g \in Hosts, pc[g] = "invoke" PROVE FALSE
      <4>1. pc[g] \in OwnSteps /\ RunStanding(g) /\ Reserved(g)
        BY <3>2 DEF IInv, Standing, OwnSteps, Calling
      <4>2. ours[g].turn \in Turns /\ dispatched[ours[g].turn] # None
        BY <3>2, <4>1, OwnPlan DEF Reserved, Calling
      <4>3. dispatched[ours[g].turn].plan.turn = ours[g].turn
            /\ dispatched[ours[g].turn].plan = attempt
        BY <1>1, <4>2 DEF Bound
      <4> QED
        BY <1>2, <1>5, <4>2, <4>3
    <3>3. \A g \in Hosts : pc'[g] = "invoke" => g = h
      BY <2>2, <3>2 DEF Alone, Untouched
    <3>4. \A u \in Turns : dispatched[u] # None => dispatched'[u] # None
      BY <2>4 DEF Grows, Once
    <3> QED
      BY <1>1, <2>2, <3>1, <3>3, <3>4 DEF OneCaller, Same
  <2>10. Facts'
    BY <1>1 DEF Facts, TurnLast, facts, fixed
  <2> QED
    BY <2>2, <2>3, <2>4, <2>7, <2>8, <2>9, <2>10, StepKeeps
<1> QED
  BY <1>3, <1>4, <1>5

LEMMA InvokeKeeps == ASSUME IInv, NEW h \in Hosts, Invoke(h) PROVE IInv'
<1> DEFINE t == ours[h].turn
<1>1. /\ UNCHANGED <<fixed, now, intents, facts>> /\ Proceed(h, "await")
      /\ calls' = [calls EXCEPT ![t] = @ + 1] /\ pc[h] = "invoke"
      /\ LocalType /\ RecordType /\ Standing(h) /\ Bound /\ OneCaller /\ Facts
  BY Typing DEF Invoke, IInv
<1>2. mode[h] = "run" /\ t \in Turns /\ plan[h] = ours[h]
  BY <1>1, OwnPlan DEF OwnSteps, Calling
<1>3. LocalType' /\ Alone(h) /\ pc'[h] = "await" /\ Same(h)
  BY <1>1, ProceedMoves DEF Steps
<1>4. calls[t] = 0 /\ calls'[t] = 1 /\ \A u \in Turns : u # t => calls'[u] = calls[u]
  BY <1>1, <1>2 DEF OneCaller, RecordType
<1>5. RecordType'
  BY <1>1, <1>2 DEF RecordType, fixed, intents, facts
<1>6. Grows
  BY <1>1, <1>2, <1>4
  DEF RecordType, Grows, Once, fixed, intents, facts, Outbound
<1>7. RunStanding(h)'
  BY <1>1, <1>2, <1>3, SameRun DEF Standing
<1>8. Standing(h)'
  BY <1>1, <1>3, <1>4, <1>7
  DEF Standing, Reserved, AnswerStanding, OwnSteps, Locked, Attempted,
      Calling, Reading, Writing, Same, intents
<1>9. Bound'
  BY <1>1 DEF Bound, fixed, intents, Outbound, InWindow
<1>10. OneCaller'
  <2>1. dispatched[t] # None /\ dispatched' = dispatched
    BY <1>1 DEF Standing, Reserved, Calling, intents
  <2>2. \A g \in Hosts : pc'[g] # "invoke"
    BY <1>1, <1>3 DEF OneCaller, Alone, Untouched
  <2> QED
    BY <1>1, <1>4, <2>1, <2>2 DEF OneCaller, RecordType
<1>11. Facts'
  BY <1>1, <1>4, <1>6
  DEF Facts, TurnLast, facts, fixed, Grows, RecordType, CompletionIntents
<1> QED
  BY <1>3, <1>5, <1>6, <1>8, <1>9, <1>10, <1>11, StepKeeps

-------------------------------------------------------------------------------
(* Steps that make durable what is known of an answer.                     *)
LEMMA PutIntentKeeps == ASSUME IInv, NEW h \in Hosts, PutIntent(h) PROVE IInv'
<1> DEFINE t == plan[h].turn
<1>1. /\ UNCHANGED <<fixed, now, intents, results, sidecars, child, indexed,
                     terminals, calls>>
      /\ LocalType /\ RecordType /\ Standing(h) /\ Bound /\ OneCaller /\ Facts
      /\ pc[h] = "put_intent"
  BY Typing DEF PutIntent, IInv
<1>2. plan[h] # None /\ t \in Turns /\ t # None /\ calls[t] > 0 /\ doing[h] # None
  BY <1>1, PlansHaveTurns DEF Standing, AnswerStanding, LocalType
<1>3. CASE Conflicts(intent, t)
  <2>1. UNCHANGED <<fixed, now, intents, facts, calls>> /\ Throw(h, "store.conflict")
    BY <1>1, <1>3 DEF PutIntent, facts
  <2> QED
    BY <1>1, <2>1, ThrowKeeps, LocalStepKeeps DEF Errors
<1>4. CASE ~Conflicts(intent, t)
  <2>1. intent' = t /\ intent \in {None, t} /\ Proceed(h, "put_result")
    BY <1>4 DEF PutIntent, Conflicts
  <2>2. /\ LocalType' /\ Alone(h) /\ Same(h) /\ pc'[h] = "put_result"
        /\ doing'[h] = doing[h]
    BY <1>1, <2>1, ProceedMoves DEF Steps
  <2>3. RecordType'
    BY <1>1, <1>2, <2>1 DEF RecordType, CompletionIntents, fixed, intents
  <2>4. Grows
    BY <1>1, <1>2, <2>1 DEF RecordType, Grows, Once, fixed, intents, Outbound
  <2>5. RunStanding(h)'
    BY <1>1, <2>2, SameRun DEF Standing, OwnSteps, Locked, Calling
  <2>6. Standing(h)'
    BY <1>1, <1>2, <2>1, <2>2, <2>5
    DEF Standing, Reserved, AnswerStanding, OwnSteps, Locked, Attempted,
        Calling, Reading, Writing, Same
  <2>7. Bound' /\ OneCaller'
    BY <1>1, <2>2
    DEF Bound, OneCaller, Alone, Untouched, fixed, intents, Outbound, InWindow
  <2>8. Facts'
    BY <1>1, <1>2, <2>1, PlansHaveTurns DEF Facts, TurnLast, fixed
  <2> QED
    BY <2>2, <2>3, <2>4, <2>6, <2>7, <2>8, StepKeeps
<1> QED
  BY <1>3, <1>4

LEMMA PutResultKeeps == ASSUME IInv, NEW h \in Hosts, PutResult(h) PROVE IInv'
<1> DEFINE t == plan[h].turn
           s == doing[h]
<1>1. /\ UNCHANGED <<fixed, now, intents, intent, sidecars, child, indexed,
                     terminals, calls>>
      /\ LocalType /\ RecordType /\ Standing(h) /\ Bound /\ OneCaller /\ Facts
      /\ pc[h] = "put_result"
  BY Typing DEF PutResult, IInv
<1>2. /\ plan[h] # None /\ t \in Turns /\ calls[t] > 0
      /\ s # None /\ s \in Statuses /\ (s = "completed" => intent = t)
  BY <1>1, PlansHaveTurns DEF Standing, AnswerStanding, Writing, LocalType
<1> DEFINE tooLarge == s = "completed" /\ size = "record"
<1>3. CASE tooLarge \/ Conflicts(results[t], s)
  <2>1. /\ UNCHANGED <<fixed, now, intents, facts, calls>>
        /\ Throw(h, "unstorable") \/ Throw(h, "store.conflict")
    BY <1>1, <1>3 DEF PutResult, facts
  <2> QED
    BY <1>1, <2>1, ThrowKeeps, LocalStepKeeps DEF Errors
<1>4. CASE ~(tooLarge \/ Conflicts(results[t], s))
  <2>1. /\ results' = [results EXCEPT ![t] = s] /\ results[t] \in {None, s}
        /\ Proceed(h, IF s = "completed" THEN "put_sidecar" ELSE "put_index")
    BY <1>4 DEF PutResult, Conflicts
  <2>2. /\ LocalType' /\ Alone(h) /\ Same(h) /\ doing'[h] = s
        /\ pc'[h] = (IF s = "completed" THEN "put_sidecar" ELSE "put_index")
    BY <1>1, <2>1, ProceedMoves DEF Steps
  <2>3. RecordType'
    BY <1>1, <1>2, <2>1 DEF RecordType, ResultBindings, fixed, intents
  <2>4. Grows
    BY <1>1, <1>2, <2>1
    DEF RecordType, ResultBindings, Grows, Once, fixed, intents, Outbound
  <2>5. RunStanding(h)'
    BY <1>1, <2>2, SameRun DEF Standing, OwnSteps, Locked, Calling
  <2>6. Standing(h)'
    BY <1>1, <1>2, <2>1, <2>2, <2>5
    DEF Standing, Reserved, AnswerStanding, OwnSteps, Locked, Attempted,
        Calling, Reading, Writing, Same
  <2>7. Bound' /\ OneCaller'
    BY <1>1, <2>2
    DEF Bound, OneCaller, Alone, Untouched, fixed, intents, Outbound, InWindow
  <2>8. results'[t] = s /\ \A u \in Turns : u # t => results'[u] = results[u]
    BY <1>1, <1>2, <2>1 DEF RecordType, ResultBindings
  <2>9. Facts'
    BY <1>1, <1>2, <2>1, <2>8 DEF Facts, TurnLast, fixed
  <2> QED
    BY <2>2, <2>3, <2>4, <2>6, <2>7, <2>9, StepKeeps
<1> QED
  BY <1>3, <1>4

LEMMA PutSidecarKeeps ==
  ASSUME IInv, NEW h \in Hosts, PutExecution(h) \/ PutAssessment(h) PROVE IInv'
<1> DEFINE t == plan[h].turn
           s == IF lane = "generation" THEN "put_child" ELSE "put_index"
<1>1. /\ UNCHANGED <<fixed, now, intents, intent, results, child, indexed,
                     terminals, calls>>
      /\ LocalType /\ RecordType /\ Standing(h) /\ Bound /\ OneCaller /\ Facts
      /\ pc[h] = "put_sidecar" /\ sidecars' = sidecars \cup {t} /\ Proceed(h, s)
  BY Typing DEF PutExecution, PutAssessment, IInv
<1>2. plan[h] # None /\ t \in Turns
  BY <1>1, PlansHaveTurns DEF Standing, AnswerStanding, Writing, LocalType
<1>3. /\ LocalType' /\ Alone(h) /\ Same(h) /\ doing'[h] = doing[h]
      /\ pc'[h] \in {"put_child", "put_index"}
  BY <1>1, ProceedMoves DEF Steps
<1>4. RecordType'
  BY <1>1, <1>2 DEF RecordType, Executions, Assessments, fixed, intents
<1>5. Grows
  BY <1>1, <1>2 DEF RecordType, Grows, Once, fixed, intents, Outbound
<1>6. RunStanding(h)'
  BY <1>1, <1>3, SameRun DEF Standing, OwnSteps, Locked, Calling
<1>7. Standing(h)'
  BY <1>1, <1>3, <1>6
  DEF Standing, Reserved, AnswerStanding, OwnSteps, Locked, Attempted,
      Calling, Reading, Writing, Same
<1>8. Bound' /\ OneCaller'
  BY <1>1, <1>3
  DEF Bound, OneCaller, Alone, Untouched, fixed, intents, Outbound, InWindow
<1>9. Facts'
  BY <1>1 DEF Facts, TurnLast, fixed
<1> QED
  BY <1>3, <1>4, <1>5, <1>7, <1>8, <1>9, StepKeeps

LEMMA PutChildKeeps == ASSUME IInv, NEW h \in Hosts, PutChild(h) PROVE IInv'
<1>1. /\ UNCHANGED <<fixed, now, intents, intent, results, sidecars, indexed,
                     terminals, calls>>
      /\ LocalType /\ RecordType /\ Standing(h) /\ Bound /\ OneCaller /\ Facts
      /\ pc[h] = "put_child"
  BY Typing DEF PutChild, IInv
<1>2. /\ \/ Proceed(h, "put_index")
         \/ UNCHANGED <<pc, local>>
      /\ child \subseteq child'
      /\ child' \subseteq {ChildKinds[k] : k \in DOMAIN ChildKinds}
  BY <1>1 DEF PutChild, Missing, RecordType
<1>3. /\ LocalType' /\ Alone(h) /\ Same(h) /\ doing'[h] = doing[h]
      /\ pc'[h] \in {"put_child", "put_index"}
  <2>1. CASE Proceed(h, "put_index")
    BY <1>1, <2>1, ProceedMoves DEF Steps
  <2>2. CASE UNCHANGED <<pc, local>>
    BY <1>1, <2>2 DEF LocalType, Alone, Untouched, Same, local
  <2> QED
    BY <1>2, <2>1, <2>2
<1>4. RecordType' /\ Grows
  BY <1>1, <1>2
  DEF RecordType, Executions, Assessments, Grows, Once, fixed, intents, Outbound
<1>5. RunStanding(h)'
  BY <1>1, <1>3, SameRun DEF Standing, OwnSteps, Locked, Calling
<1>6. Standing(h)'
  BY <1>1, <1>3, <1>5
  DEF Standing, Reserved, AnswerStanding, OwnSteps, Locked, Attempted,
      Calling, Reading, Writing, Same
<1>7. Bound' /\ OneCaller'
  BY <1>1, <1>3
  DEF Bound, OneCaller, Alone, Untouched, fixed, intents, Outbound, InWindow
<1>8. Facts'
  BY <1>1, <1>2 DEF Facts, TurnLast, fixed, Receipt
<1> QED
  BY <1>3, <1>4, <1>6, <1>7, <1>8, StepKeeps

LEMMA PutIndexKeeps == ASSUME IInv, NEW h \in Hosts, PutIndex(h) PROVE IInv'
<1> DEFINE t == plan[h].turn
<1>1. /\ UNCHANGED <<fixed, now, intents, intent, results, sidecars, child,
                     terminals, calls>>
      /\ LocalType /\ RecordType /\ Standing(h) /\ Bound /\ OneCaller /\ Facts
      /\ pc[h] = "put_index"
  BY Typing DEF PutIndex, IInv
<1>2. plan[h] # None /\ t \in Turns
  BY <1>1, PlansHaveTurns DEF Standing, AnswerStanding, Writing, LocalType
<1>3. CASE ~Whole(t, doing[h])
  <2>1. UNCHANGED <<fixed, now, intents, facts, calls>>
        /\ Throw(h, "workflow_incomplete")
    BY <1>1, <1>3 DEF PutIndex, facts
  <2> QED
    BY <1>1, <2>1, ThrowKeeps, LocalStepKeeps DEF Errors
<1>4. CASE Whole(t, doing[h])
  <2>1. indexed' = indexed \cup {t} /\ Proceed(h, "put_turn")
    BY <1>4 DEF PutIndex
  <2>2. /\ LocalType' /\ Alone(h) /\ Same(h) /\ doing'[h] = doing[h]
        /\ pc'[h] = "put_turn"
    BY <1>1, <2>1, ProceedMoves DEF Steps
  <2>3. RecordType' /\ Grows
    BY <1>1, <1>2, <2>1 DEF RecordType, Grows, Once, fixed, intents, Outbound
  <2>4. RunStanding(h)'
    BY <1>1, <2>2, SameRun DEF Standing, OwnSteps, Locked, Calling
  <2>5. Whole(t, doing[h])'
    BY <1>1, <1>4, <2>2
    DEF Whole, GenerationWhole, AdvisoryWhole, Receipt, fixed, Same
  <2>6. Standing(h)'
    BY <1>1, <2>1, <2>2, <2>4, <2>5
    DEF Standing, Reserved, AnswerStanding, OwnSteps, Locked, Attempted,
        Calling, Reading, Writing, Same
  <2>7. Bound' /\ OneCaller'
    BY <1>1, <2>2
    DEF Bound, OneCaller, Alone, Untouched, fixed, intents, Outbound, InWindow
  <2>8. Facts'
    BY <1>1, <2>1 DEF Facts, TurnLast, fixed
  <2> QED
    BY <2>2, <2>3, <2>6, <2>7, <2>8, StepKeeps
<1> QED
  BY <1>3, <1>4

LEMMA PutTurnKeeps == ASSUME IInv, NEW h \in Hosts, PutTurn(h) PROVE IInv'
<1> DEFINE t == plan[h].turn
           s == doing[h]
<1>1. /\ UNCHANGED <<fixed, now, intents, intent, results, sidecars, child,
                     indexed, calls>>
      /\ LocalType /\ RecordType /\ Standing(h) /\ Bound /\ OneCaller /\ Facts
      /\ pc[h] = "put_turn"
  BY Typing DEF PutTurn, IInv
<1>2. /\ plan[h] # None /\ t \in Turns /\ calls[t] > 0
      /\ s # None /\ s \in Statuses /\ (s = "completed" => intent = t)
      /\ t \in indexed /\ Whole(t, s)
  BY <1>1, PlansHaveTurns DEF Standing, AnswerStanding, Writing, LocalType
<1>3. CASE Conflicts(terminals[t], s)
  <2>1. UNCHANGED <<fixed, now, intents, facts, calls>> /\ Throw(h, "store.conflict")
    BY <1>1, <1>3 DEF PutTurn, facts
  <2> QED
    BY <1>1, <2>1, ThrowKeeps, LocalStepKeeps DEF Errors
<1>4. CASE ~Conflicts(terminals[t], s)
  <2>1. /\ terminals' = [terminals EXCEPT ![t] = s] /\ terminals[t] \in {None, s}
        /\ Finish(h, s, IF mode[h] = "run" /\ seen[h] # None
                        THEN "existing" ELSE "committed")
    BY <1>4 DEF PutTurn, Conflicts
  <2>2. LocalType' /\ Alone(h) /\ Standing(h)' /\ pc'[h] = "idle"
    BY <1>1, <1>2, <2>1, FinishKeeps
  <2>3. RecordType'
    BY <1>1, <1>2, <2>1 DEF RecordType, TurnReceipts, fixed, intents
  <2>4. Grows
    BY <1>1, <1>2, <2>1
    DEF RecordType, TurnReceipts, Grows, Once, fixed, intents, Outbound
  <2>5. Bound' /\ OneCaller'
    BY <1>1, <2>2
    DEF Bound, OneCaller, Alone, Untouched, fixed, intents, Outbound, InWindow
  <2>6. terminals'[t] = s /\ \A u \in Turns : u # t => terminals'[u] = terminals[u]
    BY <1>1, <1>2, <2>1 DEF RecordType, TurnReceipts
  <2>7. /\ results[t] = s
        /\ s = "completed" =>
             t \in sidecars /\ (lane = "generation" => Receipt \in child)
    BY <1>2 DEF Whole, GenerationWhole, AdvisoryWhole
  <2>8. Facts'
    BY <1>1, <1>2, <2>6, <2>7 DEF Facts, TurnLast, fixed
  <2> QED
    BY <2>2, <2>3, <2>4, <2>5, <2>8, StepKeeps
<1> QED
  BY <1>3, <1>4

LEMMA TickKeeps == ASSUME IInv, Tick PROVE IInv'
<1>1. /\ UNCHANGED <<fixed, intents, facts, calls, pc, local>>
      /\ now \in 0..Horizon /\ now < Horizon /\ now' = now + 1
  BY DEF Tick, IInv, Typed, RecordType
<1>2. Typed'
  BY <1>1, TurnAssumption
  DEF IInv, Typed, LocalType, RecordType, fixed, intents, facts, local
<1>3. ASSUME NEW h \in Hosts PROVE Standing(h)'
  BY <1>1
  DEF IInv, Standing, RunStanding, Reserved, AnswerStanding, fixed, intents,
      facts, local, Granted, Grants, Outbound, InWindow, Whole, GenerationWhole,
      AdvisoryWhole
<1>4. Bound' /\ OneCaller' /\ Facts'
  BY <1>1
  DEF IInv, Bound, OneCaller, Facts, TurnLast, fixed, intents, facts, local,
      Outbound, InWindow
<1> QED
  BY <1>2, <1>3, <1>4 DEF IInv

-------------------------------------------------------------------------------
LEMMA InitIInv == Init => IInv
<1> SUFFICES ASSUME Init PROVE IInv
  OBVIOUS
<1>1. Typed
  BY TurnAssumption
  DEF Init, Typed, LocalType, RecordType, Reservations, PlanLocks, Authorizations,
      Attempts,       CompletionIntents, ResultBindings, TurnReceipts, Executions, Assessments,
      Steps, Silent, Report, Outcomes
<1>2. ASSUME NEW h \in Hosts PROVE Standing(h)
  BY DEF Init, Standing, RunStanding, Reserved, AnswerStanding, OwnSteps, Locked,
         Attempted, Calling, Reading, Writing
<1>3. Bound /\ OneCaller /\ Facts
  BY DEF Init, Bound, OneCaller, Facts, TurnLast
<1> QED
  BY <1>1, <1>2, <1>3 DEF IInv

LEMMA NextIInv == IInv /\ [Next]_vars => IInv'
<1> SUFFICES ASSUME IInv, [Next]_vars PROVE IInv'
  OBVIOUS
<1>1. CASE UNCHANGED vars
  BY <1>1
  DEF vars, IInv, Typed, LocalType, RecordType, Standing, RunStanding, Reserved,
      AnswerStanding, Bound,       OneCaller, Facts, TurnLast, Granted, Grants, Outbound, InWindow, Whole,
      GenerationWhole, AdvisoryWhole
<1>2. CASE Tick
  BY <1>2, TickKeeps
<1>3. ASSUME NEW h \in Hosts,
             RunGeneration(h) \/ RunAdvisory(h) \/ Recover(h)
      PROVE  IInv'
  BY <1>3, RunKeeps, RecoverKeeps DEF RunGeneration, RunAdvisory
<1>4. ASSUME NEW h \in Hosts, Step(h) PROVE IInv'
  <2>1. CASE LoadAttempt(h) \/ FindAttempt(h) \/ ClassifyDispatch(h)
             \/ ClassifyResult(h) \/ ClassifyTerminal(h)
    BY <2>1, LoadAttemptKeeps, FindAttemptKeeps, ClassifyDispatchKeeps,
       ClassifyResultKeeps, ClassifyTerminalKeeps
  <2>2. CASE Reserve(h) \/ Authorize(h) \/ Claim(h) \/ Dispatch(h)
             \/ Existing(h) \/ Invoke(h) \/ Unknown(h)
    BY <2>2, ReserveKeeps, AuthorizeKeeps, ClaimKeeps, DispatchKeeps,
       ExistingKeeps, InvokeKeeps, EndingsKeep
  <2>3. CASE PutResult(h) \/ IndexNoncompleted(h) \/ PutTurn(h)
    BY <2>3, PutResultKeeps, PutIndexKeeps, PutTurnKeeps DEF IndexNoncompleted
  <2>4. CASE Generate(h)
    BY <2>4, ResumeKeeps, RevalidateKeeps, LockPlanKeeps, IndexAttemptKeeps,
       SettleKeeps, PutIntentKeeps, PutSidecarKeeps, PutChildKeeps, PutIndexKeeps
    DEF Generate, ResumeGeneration, RevalidateGeneration, LockExecution,
        AttemptGeneration, SettleGeneration, IntentGeneration, IndexGeneration
  <2>5. CASE Review(h)
    BY <2>5, ResumeKeeps, RevalidateKeeps, LockPlanKeeps, IndexAttemptKeeps,
       SettleKeeps, PutIntentKeeps, PutSidecarKeeps, PutIndexKeeps
    DEF Review, ResumeAdvisory, RevalidateAdvisory, LockReview, AttemptAdvisory,
        SettleAdvisory, IntentAdvisory, IndexAdvisory
  <2> QED
    BY <1>4, <2>1, <2>2, <2>3, <2>4, <2>5 DEF Step
<1>5. ASSUME NEW h \in Hosts,
             Drift(h) \/ Prepare(h) \/ ViewTurn(h) \/ ViewChild(h) \/ Crash(h)
      PROVE  IInv'
  BY <1>5, EndingsKeep, ViewsKeep
<1> QED
  BY <1>1, <1>2, <1>3, <1>4, <1>5 DEF Next

LEMMA InvariantHolds == Spec => []IInv
BY InitIInv, NextIInv, PTL DEF Spec

(* What an answer comes to is decided once it is there, and nowhere else.  *)
LEMMA NextSize ==
  ASSUME [Next]_vars
  PROVE  \/ \E h \in Hosts : Settle(h)
         \/ /\ UNCHANGED <<lane, size>>
            /\ UNCHANGED calls \/ \E h \in Hosts : Invoke(h)
<1>1. CASE UNCHANGED vars \/ Tick
  BY <1>1 DEF vars, Tick, fixed
<1>2. ASSUME NEW h \in Hosts, Step(h), ~Settle(h)
      PROVE  UNCHANGED <<lane, size>> /\ (UNCHANGED calls \/ Invoke(h))
  <2>1. CASE LoadAttempt(h) \/ FindAttempt(h) \/ ClassifyDispatch(h)
             \/ ClassifyResult(h) \/ ClassifyTerminal(h) \/ Resume(h)
             \/ Existing(h) \/ Unknown(h) \/ Revalidate(h) \/ Claim(h)
    BY <2>1
    DEF LoadAttempt, FindAttempt, ClassifyDispatch, ClassifyResult,
        ClassifyTerminal, Resume, Existing, Unknown, Revalidate, Claim, fixed
  <2>2. CASE Reserve(h) \/ LockPlan(h) \/ Authorize(h) \/ IndexAttempt(h)
             \/ Dispatch(h) \/ Invoke(h)
    BY <2>2
    DEF Reserve, LockPlan, Authorize, IndexAttempt, Dispatch, Invoke, fixed
  <2>3. CASE PutIntent(h) \/ PutResult(h) \/ PutExecution(h) \/ PutAssessment(h)
             \/ PutChild(h) \/ PutIndex(h) \/ PutTurn(h)
    BY <2>3
    DEF PutIntent, PutResult, PutExecution, PutAssessment, PutChild, PutIndex,
        PutTurn, fixed
  <2> QED
    BY <1>2, <2>1, <2>2, <2>3
    DEF Step, Generate, Review, IndexNoncompleted,
        ResumeGeneration, RevalidateGeneration, LockExecution, AttemptGeneration,
        SettleGeneration, IntentGeneration, IndexGeneration,
        ResumeAdvisory, RevalidateAdvisory, LockReview, AttemptAdvisory,
        SettleAdvisory, IntentAdvisory, IndexAdvisory
<1>3. ASSUME NEW h \in Hosts,
             \/ RunGeneration(h) \/ RunAdvisory(h) \/ Recover(h) \/ Drift(h)
             \/ Prepare(h) \/ ViewTurn(h) \/ ViewChild(h) \/ Crash(h)
      PROVE  UNCHANGED <<lane, size, calls>>
  BY <1>3
  DEF RunGeneration, RunAdvisory, Run, Recover, Drift, Prepare, ViewTurn,
      ViewChild, Crash, fixed
<1> QED
  BY <1>1, <1>2, <1>3 DEF Next

LEMMA SettleSize ==
  ASSUME NEW h \in Hosts, Settle(h)
  PROVE  lane' = lane /\ size' \in Sizes /\ (size' # "fits" => lane = "generation")
BY DEF Settle, SizesOf, Sizes, fixed

(* Whatever hosts, plans, windows and answers there are, every record and  *)
(* every call has its type.                                                *)
THEOREM TurnTypeCorrect == Spec => []TypeOK
<1> DEFINE SizeType == size \in Sizes \cup {None}
<1>1. Init => SizeType
  BY DEF Init
<1>2. SizeType /\ [Next]_vars => SizeType'
  BY NextSize, SettleSize
<1>3. IInv /\ SizeType => TypeOK
  BY DEF IInv, Typed, LocalType, RecordType, TypeOK
<1> QED
  BY InvariantHolds, <1>1, <1>2, <1>3, PTL DEF Spec

(* The provider is handed one operation per key, whichever hosts run and   *)
(* recover it, wherever they crash (generation-run.ts, decision 0022): the *)
(* call belongs to the one dispatch of the one attempt of the key.         *)
THEOREM ProviderCalledOnce == Spec => []AtMostOneCall
<1>1. IInv => AtMostOneCall
  BY DEF IInv, AtMostOneCall, Bound, OneCaller
<1> QED
  BY InvariantHolds, <1>1, PTL

(* No call without the records that account for it, inside both windows    *)
(* (semantic-turn-persistence.ts, claimSemanticDispatch).                  *)
THEOREM EgressIsAccounted == Spec => []EgressAccounted
<1>1. ASSUME IInv, NEW t \in Turns, calls[t] > 0
      PROVE  LET d == dispatched[t]
             IN  /\ d # None /\ InWindow(d)
                 /\ reserved[t] = d.plan /\ locked = d.plan /\ attempt = d.plan
                 /\ granted[t] = d.auth /\ (Outbound <=> d.auth # None)
  <2>1. dispatched[t] # None /\ dispatched[t] \in DispatchMarker
    BY <1>1 DEF IInv, OneCaller, Typed, RecordType
  <2>2. attempt = dispatched[t].plan /\ attempt # None
    BY <1>1, <2>1, PlansHaveTurns DEF IInv, Bound, DispatchMarker
  <2> QED
    BY <1>1, <2>1, <2>2 DEF IInv, Bound
<1>2. IInv => EgressAccounted
  BY <1>1 DEF EgressAccounted
<1> QED
  BY InvariantHolds, <1>2, PTL

(* A turn's receipt comes after all it stands on                           *)
(* (persistSemanticTurnTerminal, persistSemanticCompletedGeneration and    *)
(* persistSemanticCompletedAdvisory).                                      *)
THEOREM TurnIsLast == Spec => []TurnLast
<1>1. IInv => TurnLast
  BY DEF IInv, Facts
<1> QED
  BY InvariantHolds, <1>1, PTL

-------------------------------------------------------------------------------
(* The ladder only makes results that their own parser accepts: whatever a *)
(* provider answers, in usage, cost, currency or shape, what the rungs     *)
(* decide passes assertResultPairing, assertResultBinding and the budget   *)
(* (workflows/run-shared.ts, semantic-turn-outcome.ts).  What they do not  *)
(* measure is the one thing an answer can fail by: the ceilings on nodes,  *)
(* depth and bytes of the binding and the intent made of it.               *)
THEOREM GradesAreStorable ==
  \A limit \in CostLimits, a \in Answers, z \in Sizes :
    Storable(limit, a, Grade(limit, a), z) <=> ~(Binds(limit, a) /\ z = "binding")
<1> SUFFICES ASSUME NEW limit \in CostLimits, NEW a \in Answers
             PROVE  /\ Paired(Grade(limit, a))
                    /\ Grade(limit, a).status = "completed" =>
                         ~a.large /\ WithinBudget(limit, Grade(limit, a).usage)
  BY DEF Storable
<1>1. /\ a.envelope \in Envelopes \cup {None} /\ a.usage \in Usage \cup {None}
      /\ a.large \in BOOLEAN
      /\ limit \in Nat \cup {None} /\ UsageLimit \in Nat
  BY TurnAssumption, AnswerAssumption DEF Answer
<1>2. a.usage # None =>
        /\ a.usage.amount \in Nat
        /\ a.usage.cost # None => a.usage.cost.units \in Nat /\ a.usage.cost.own \in BOOLEAN
  BY <1>1, AnswerAssumption DEF Usage, Cost
<1> DEFINE r == Grade(limit, a)
<1>3. CASE r.status = "completed"
  <2>1. /\ r.response /\ ~a.large /\ r.usage = a.usage /\ a.usage # None
        /\ ~Unmeasured(limit, a.usage, TRUE) /\ ~Exceeds(limit, a.usage)
    BY <1>1, <1>3 DEF Grade, Parses, Envelopes, Unmeasured
  <2>2. WithinBudget(limit, a.usage)
    BY <1>1, <1>2, <2>1 DEF Unmeasured, Exceeds, WithinBudget
  <2> QED
    BY <1>3, <2>1, <2>2 DEF Paired
<1>4. CASE r.status # "completed"
  <2>1. r.status = "provider_refused" => r.response
    BY <1>1 DEF Grade, Parses, Envelopes
  <2> QED
    BY <1>4, <2>1 DEF Paired
<1> QED
  BY <1>3, <1>4

-------------------------------------------------------------------------------
(***************************************************************************)
(* The workflows implement TurnLifecycle.  The invariant gives one call;   *)
(* here one answer is made of it: until something of the answer is         *)
(* durable, only the host that called can write (Pending), and whoever     *)
(* writes later writes what was recorded (OneAnswer).                      *)
(***************************************************************************)

OpenSteps == {"invoke", "await", "put_intent"}

(* A call whose answer is not yet durable.                                 *)
Pending(h) == pc[h] \in OpenSteps \/ (pc[h] \in Writing /\ ~Answered)

OneAnswer ==
  /\ \A g, h \in Hosts : Pending(g) /\ Pending(h) => g = h
  /\ \A h \in Hosts :
       /\ pc[h] \in OpenSteps => ~Answered
       /\ pc[h] = "put_intent" => doing[h] = "completed"
       /\ pc[h] \in Writing /\ Answered => doing[h] = Status
  /\ \A t \in Turns : results[t] # None => results[t] = Status

-------------------------------------------------------------------------------
(* A key has one turn that was called, and one result.                     *)
LEMMA OneTurn ==
  ASSUME IInv, NEW t \in Turns, NEW u \in Turns, calls[t] > 0, calls[u] > 0
  PROVE  t = u
BY DEF IInv, Bound, OneCaller

LEMMA StatusOfResult ==
  ASSUME IInv, NEW t \in Turns, results[t] # None, intent = None
  PROVE  Answered /\ Status = results[t]
<1>1. Answered
  BY DEF Answered
<1>2. ASSUME NEW u \in Turns, results[u] # None PROVE u = t
  BY <1>2, OneTurn DEF IInv, Facts
<1> DEFINE c == CHOOSE u \in Turns : results[u] # None
<1>3. c \in Turns /\ results[c] # None
  OBVIOUS
<1>4. c = t
  BY <1>2, <1>3
<1> QED
  BY <1>1, <1>4 DEF Status

LEMMA StatusOfIntent == intent # None => Answered /\ Status = "completed"
BY DEF Answered, Status

LEMMA NoStatus == ~Answered => Status = None
BY DEF Answered, Status

LEMMA SameStatus ==
  ASSUME intent' = intent, results' = results
  PROVE  Answered' = Answered /\ Status' = Status
BY DEF Answered, Status

(* What stands on a call, and a call on its dispatch.                      *)
LEMMA Foundations ==
  ASSUME IInv
  PROVE  /\ \A t \in Turns : calls[t] > 0 => dispatched[t] # None
         /\ Answered => \E t \in Turns : calls[t] > 0
         /\ \A t \in Turns : terminals[t] # None => Answered /\ calls[t] > 0
<1>1. intent # None => intent \in Turns /\ calls[intent] > 0
  BY DEF IInv, Typed, RecordType, CompletionIntents, Facts
<1> QED
  BY <1>1 DEF IInv, OneCaller, Facts, TurnLast, Answered

(* Who is about to make the call is the first to make one.                 *)
LEMMA NoneCalled ==
  ASSUME IInv, NEW h \in Hosts, pc[h] = "invoke"
  PROVE  \A u \in Turns : calls[u] = 0
<1> DEFINE t == ours[h].turn
<1>1. t \in Turns /\ dispatched[t] # None /\ calls[t] = 0
  BY OwnPlan DEF IInv, OneCaller, Standing, Reserved, OwnSteps, Calling
<1>2. ASSUME NEW u \in Turns PROVE calls[u] = 0
  <2>1. dispatched[u] # None => u = t
    BY <1>1 DEF IInv, Bound
  <2> QED
    BY <1>1, <2>1 DEF IInv, OneCaller, Typed, RecordType
<1> QED
  BY <1>2

-------------------------------------------------------------------------------
(* Steps that change neither the intent nor a result.                      *)
Silently(h) == Alone(h) /\ intent' = intent /\ results' = results

(* After a quiet step the host has no answer in hand.                      *)
Quiet(h) == Silently(h) /\ pc'[h] \notin OpenSteps \cup Writing

LEMMA SilentKeeps ==
  ASSUME OneAnswer, NEW h \in Hosts, Silently(h),
         \/ pc'[h] \notin OpenSteps \cup Writing
         \/ pc'[h] \in Writing /\ Answered /\ doing'[h] = Status
         \/ /\ Pending(h) /\ pc'[h] \in OpenSteps /\ ~Answered
            /\ pc'[h] = "put_intent" => doing'[h] = "completed"
         \/ Pending(h) /\ pc'[h] \in Writing /\ ~Answered
         \/ pc[h] \in Writing /\ pc'[h] \in Writing /\ doing'[h] = doing[h]
         \/ /\ pc'[h] = "invoke" /\ ~Answered
            /\ \A g \in Hosts : ~Pending(g)
  PROVE  OneAnswer'
<1>1. Answered' = Answered /\ Status' = Status /\ results' = results
  BY SameStatus DEF Silently
<1>2. \A g \in Hosts : g # h => pc'[g] = pc[g] /\ doing'[g] = doing[g]
  BY DEF Silently, Alone, Untouched
<1>3. \A g \in Hosts : g # h => (Pending(g)' <=> Pending(g))
  BY <1>1, <1>2 DEF Pending
<1>4. ASSUME Pending(h)', ~Pending(h) PROVE \A g \in Hosts : ~Pending(g)
  BY <1>1, <1>4 DEF Pending, Writing, OpenSteps
<1>5. \A g, k \in Hosts : Pending(g)' /\ Pending(k)' => g = k
  BY <1>3, <1>4 DEF OneAnswer
<1>6. /\ (pc[h] \in OpenSteps => ~Answered)'
      /\ (pc[h] = "put_intent" => doing[h] = "completed")'
      /\ (pc[h] \in Writing /\ Answered => doing[h] = Status)'
  BY <1>1 DEF OneAnswer, OpenSteps, Writing
<1> QED
  BY <1>1, <1>2, <1>5, <1>6 DEF OneAnswer

LEMMA EndIsQuiet ==
  ASSUME LocalType, NEW h \in Hosts, NEW r, End(h, r),
         intent' = intent, results' = results
  PROVE  Quiet(h)
BY DEF End, Goto, LocalType, Quiet, Silently, Alone, Untouched, OpenSteps, Writing

LEMMA FinishIsQuiet ==
  ASSUME LocalType, NEW h \in Hosts, NEW s, NEW p, Finish(h, s, p),
         intent' = intent, results' = results
  PROVE  Quiet(h)
BY EndIsQuiet DEF Finish, Throw

LEMMA ProceedIsQuiet ==
  ASSUME LocalType, NEW h \in Hosts, NEW s \in Steps \ (OpenSteps \cup Writing),
         Proceed(h, s), intent' = intent, results' = results
  PROVE  Quiet(h)
BY ProceedMoves DEF Quiet, Silently

LEMMA SawIsQuiet ==
  ASSUME LocalType, NEW h \in Hosts, NEW s \in Steps \ (OpenSteps \cup Writing),
         NEW x \in Known \cup {"not_dispatched"}, Saw(h, x, s),
         intent' = intent, results' = results
  PROVE  Quiet(h)
BY SawMoves DEF Quiet, Silently

LEMMA NotDispatchedIsQuiet ==
  ASSUME LocalType, NEW h \in Hosts, NotDispatched(h),
         intent' = intent, results' = results
  PROVE  Quiet(h)
<1>1. CASE mode[h] = "inner"
  BY <1>1 DEF NotDispatched, Goto, LocalType, Quiet, Silently, Alone, Untouched,
              OpenSteps, Writing
<1>2. CASE mode[h] # "inner"
  BY <1>2, EndIsQuiet DEF NotDispatched
<1> QED
  BY <1>1, <1>2

LEMMA QuietKeeps ==
  ASSUME OneAnswer, NEW h \in Hosts, Quiet(h) PROVE OneAnswer'
BY SilentKeeps DEF Quiet

(* Taking up what is durable: an intent, or the result that was recorded.  *)
LEMMA TakeUpKeeps ==
  ASSUME IInv, OneAnswer, NEW h \in Hosts, intent' = intent, results' = results,
         plan[h] # None,
         \/ intent = plan[h].turn /\ CompleteWith(h, "completed", "put_result")
         \/ /\ results[plan[h].turn] # None
            /\ CommitNoncompleted(h, results[plan[h].turn])
  PROVE  OneAnswer'
<1> DEFINE t == plan[h].turn
<1>1. LocalType /\ t \in Turns /\ t # None
  BY Typing, PlansHaveTurns DEF IInv, LocalType
<1>2. CASE intent = t /\ CompleteWith(h, "completed", "put_result")
  <2>1. Alone(h) /\ pc'[h] = "put_result" /\ doing'[h] = "completed"
    BY <1>1, <1>2, CompleteMoves DEF Steps, Statuses, Envelopes
  <2> QED
    BY <1>1, <1>2, <2>1, StatusOfIntent, SilentKeeps DEF Silently, Writing
<1>3. CASE results[t] # None /\ CommitNoncompleted(h, results[t])
  <2>1. CASE results[t] = "completed"
    BY <1>1, <1>3, <2>1, EndIsQuiet, QuietKeeps DEF CommitNoncompleted, Throw
  <2>2. CASE results[t] # "completed"
    <3>1. results[t] \in Statuses
      BY <1>1, <1>3, Typing DEF IInv, RecordType, ResultBindings
    <3>2. Alone(h) /\ pc'[h] = "put_result" /\ doing'[h] = results[t]
      BY <1>1, <1>3, <2>2, <3>1, CompleteMoves DEF CommitNoncompleted, Steps
    <3>3. Answered /\ results[t] = Status
      BY <1>1, <1>3 DEF OneAnswer, Answered
    <3> QED
      BY <3>2, <3>3, SilentKeeps DEF Silently, Writing
  <2> QED
    BY <2>1, <2>2
<1> QED
  BY <1>2, <1>3

-------------------------------------------------------------------------------
(* The reading steps, those before egress, and the ends of a call.         *)
LEMMA EntryKeeps ==
  ASSUME IInv, OneAnswer, NEW h \in Hosts,
         RunGeneration(h) \/ RunAdvisory(h) \/ Recover(h) \/ LoadAttempt(h)
         \/ FindAttempt(h)
  PROVE  OneAnswer'
<1>1. LocalType /\ intent' = intent /\ results' = results
  BY Typing
  DEF IInv, RunGeneration, RunAdvisory, Run, Recover, LoadAttempt, FindAttempt, facts
<1>2. CASE Run(h) \/ Recover(h)
  <2>1. Quiet(h)
    BY <1>1, <1>2
    DEF Run, Recover, Goto, LocalType, Quiet, Silently, Alone, Untouched,
        OpenSteps, Writing
  <2> QED
    BY <2>1, QuietKeeps
<1>3. CASE LoadAttempt(h)
  <2>1. Throw(h, "store.conflict") \/ Proceed(h, "find")
    BY <1>3 DEF LoadAttempt, Proceed
  <2> QED
    BY <1>1, <2>1, EndIsQuiet, ProceedIsQuiet, QuietKeeps
    DEF Throw, Steps, OpenSteps, Writing
<1>4. CASE FindAttempt(h)
  <2>1. \/ NotDispatched(h) \/ Throw(h, "store.corrupt")
        \/ Quiet(h)
    BY <1>1, <1>4
    DEF FindAttempt, Goto, LocalType, Quiet, Silently, Alone, Untouched,
        OpenSteps, Writing
  <2> QED
    BY <1>1, <2>1, NotDispatchedIsQuiet, EndIsQuiet, QuietKeeps DEF Throw
<1> QED
  BY <1>2, <1>3, <1>4 DEF RunGeneration, RunAdvisory

LEMMA ClassifyKeeps ==
  ASSUME IInv, OneAnswer, NEW h \in Hosts,
         ClassifyDispatch(h) \/ ClassifyResult(h) \/ ClassifyTerminal(h)
  PROVE  OneAnswer'
<1>1. LocalType /\ intent' = intent /\ results' = results /\ Standing(h)
  BY Typing
  DEF IInv, ClassifyDispatch, ClassifyResult, ClassifyTerminal, facts
<1>2. CASE ClassifyDispatch(h)
  <2>1. \/ Saw(h, "not_dispatched", "intent") \/ Saw(h, "outcome_unknown", "answered")
    BY <1>2 DEF ClassifyDispatch
  <2> QED
    BY <1>1, <2>1, SawIsQuiet, QuietKeeps DEF Steps, OpenSteps, Writing, Known
<1>3. CASE ClassifyResult(h)
  <2>1. \/ Saw(h, "result_recorded", "terminal") \/ Saw(h, "outcome_unknown", "intent")
        \/ End(h, Report("outcome_unknown", "dispatch_only"))
    BY <1>3 DEF ClassifyResult
  <2> QED
    BY <1>1, <2>1, SawIsQuiet, EndIsQuiet, QuietKeeps
    DEF Steps, OpenSteps, Writing, Known
<1>4. CASE ClassifyTerminal(h)
  <2>1. plan[h] # None /\ results[plan[h].turn] # None
    BY <1>1, <1>4 DEF ClassifyTerminal, Standing, AnswerStanding, Reading
  <2>2. \/ Throw(h, "store.corrupt")
        \/ Finish(h, results[plan[h].turn], "existing")
        \/ CommitNoncompleted(h, results[plan[h].turn])
        \/ Saw(h, "committed", "intent") \/ Saw(h, "result_recorded", "intent")
    BY <1>4 DEF ClassifyTerminal
  <2>3. CASE CommitNoncompleted(h, results[plan[h].turn])
    BY <1>1, <2>1, <2>3, TakeUpKeeps
  <2>4. CASE Throw(h, "store.corrupt") \/ Finish(h, results[plan[h].turn], "existing")
    BY <1>1, <2>4, EndIsQuiet, FinishIsQuiet, QuietKeeps DEF Throw
  <2>5. CASE Saw(h, "committed", "intent") \/ Saw(h, "result_recorded", "intent")
    BY <1>1, <2>5, SawIsQuiet, QuietKeeps DEF Steps, OpenSteps, Writing, Known
  <2> QED
    BY <2>2, <2>3, <2>4, <2>5
<1> QED
  BY <1>2, <1>3, <1>4

LEMMA ResumeOneAnswer ==
  ASSUME IInv, OneAnswer, NEW h \in Hosts, Resume(h) \/ Existing(h)
  PROVE  OneAnswer'
<1>1. LocalType /\ intent' = intent /\ results' = results /\ Standing(h)
  BY Typing DEF IInv, Resume, Existing, facts
<1>2. CASE Existing(h)
  <2>1. plan[h] # None /\ plan[h] = ours[h]
    BY <1>2, OwnPlan DEF Existing, OwnSteps
  <2>2. \/ intent = ours[h].turn /\ CompleteWith(h, "completed", "put_result")
        \/ Proceed(h, "answered")
    BY <1>2 DEF Existing
  <2> QED
    BY <1>1, <2>1, <2>2, TakeUpKeeps, ProceedIsQuiet, QuietKeeps
    DEF Steps, OpenSteps, Writing
<1>3. CASE Resume(h)
  <2>1. plan[h] # None /\ seen[h] \in Known \cup {"not_dispatched"}
        /\ (seen[h] = "result_recorded" => results[plan[h].turn] # None)
    BY <1>1, <1>3 DEF Resume, Standing, AnswerStanding, Reading
  <2>2. \/ Throw(h, "store.corrupt") \/ NotDispatched(h)
        \/ Finish(h, "outcome_unknown", "dispatch_only")
        \/ Finish(h, terminals[plan[h].turn], "existing")
        \/ intent = plan[h].turn /\ CompleteWith(h, "completed", "put_result")
        \/ /\ results[plan[h].turn] # None
           /\ CommitNoncompleted(h, results[plan[h].turn])
    BY <1>3, <2>1 DEF Resume, Known
  <2> QED
    BY <1>1, <2>1, <2>2, TakeUpKeeps, NotDispatchedIsQuiet, EndIsQuiet,
       FinishIsQuiet, QuietKeeps DEF Throw
<1> QED
  BY <1>2, <1>3

LEMMA IntentsKeep ==
  ASSUME IInv, OneAnswer, NEW h \in Hosts,
         Revalidate(h) \/ Reserve(h) \/ LockPlan(h) \/ Authorize(h)
         \/ IndexAttempt(h) \/ Claim(h)
  PROVE  OneAnswer'
<1>1. LocalType /\ intent' = intent /\ results' = results
  BY Typing
  DEF IInv, Revalidate, Reserve, LockPlan, Authorize, IndexAttempt, Claim, facts
<1>2. CASE Revalidate(h)
  <2>1. \/ Throw(h, "expired") \/ Throw(h, "refused")
        \/ Proceed(h, "claim") \/ Proceed(h, "reserve")
    BY <1>2 DEF Revalidate
  <2> QED
    BY <1>1, <2>1, EndIsQuiet, ProceedIsQuiet, QuietKeeps
    DEF Throw, Steps, OpenSteps, Writing
<1>3. CASE Reserve(h) \/ LockPlan(h) \/ Authorize(h) \/ IndexAttempt(h)
  <2>1. \/ Throw(h, "store.conflict") \/ Proceed(h, "lock") \/ Proceed(h, "authorize")
        \/ Proceed(h, "attempt") \/ Proceed(h, "again")
    BY <1>3 DEF Reserve, LockPlan, Authorize, IndexAttempt
  <2> QED
    BY <1>1, <2>1, EndIsQuiet, ProceedIsQuiet, QuietKeeps
    DEF Throw, Steps, OpenSteps, Writing
<1>4. CASE Claim(h)
  <2>1. \/ Throw(h, "schema.corrupt") \/ Saw(h, "outcome_unknown", "existing")
        \/ Quiet(h)
    BY <1>1, <1>4
    DEF Claim, Goto, LocalType, Quiet, Silently, Alone, Untouched, OpenSteps, Writing
  <2> QED
    BY <1>1, <2>1, EndIsQuiet, SawIsQuiet, QuietKeeps
    DEF Throw, Steps, OpenSteps, Writing, Known
<1> QED
  BY <1>2, <1>3, <1>4

LEMMA EndsKeep ==
  ASSUME IInv, OneAnswer, NEW h \in Hosts,
         Unknown(h) \/ Drift(h) \/ Crash(h) \/ PutTurn(h)
  PROVE  OneAnswer'
<1>1. LocalType /\ intent' = intent /\ results' = results
  BY Typing DEF IInv, Unknown, Drift, Crash, PutTurn, facts
<1>2. \/ \E r : End(h, r)
      \/ \E s, p : Finish(h, s, p)
  BY DEF Unknown, Drift, Crash, PutTurn, Throw
<1> QED
  BY <1>1, <1>2, EndIsQuiet, FinishIsQuiet, QuietKeeps

LEMMA ViewsOneAnswer ==
  ASSUME OneAnswer, UNCHANGED <<facts, pc, doing>>
  PROVE  OneAnswer'
<1>1. Answered' = Answered /\ Status' = Status
  BY SameStatus DEF facts
<1> QED
  BY <1>1 DEF OneAnswer, Pending, facts

-------------------------------------------------------------------------------
(* The call and its answer.                                                *)
LEMMA DispatchOneAnswer ==
  ASSUME IInv, OneAnswer, NEW h \in Hosts, Dispatch(h)
  PROVE  OneAnswer'
<1> DEFINE t == ours[h].turn
<1>1. LocalType /\ intent' = intent /\ results' = results /\ Standing(h)
  BY Typing DEF IInv, Dispatch, facts
<1>2. CASE dispatched[t] # None
  <2>1. Throw(h, "schema.corrupt") \/ Quiet(h)
    BY <1>1, <1>2
    DEF Dispatch, Goto, LocalType, Quiet, Silently, Alone, Untouched, OpenSteps, Writing
  <2> QED
    BY <1>1, <2>1, EndIsQuiet, QuietKeeps DEF Throw
<1>3. CASE dispatched[t] = None
  <2>1. Alone(h) /\ pc'[h] = "invoke"
    BY <1>1, <1>3 DEF Dispatch, Goto, LocalType, Alone, Untouched
  <2>2. attempt = ours[h] /\ t \in Turns
    BY <1>1, OwnPlan
    DEF Dispatch, Standing, Reserved, OwnSteps, Locked, Attempted
  <2>3. \A u \in Turns : dispatched[u] = None /\ calls[u] = 0
    BY <1>3, <2>2 DEF IInv, Bound, OneCaller, Typed, RecordType
  <2>4. ~Answered
    BY <2>3, Foundations
  <2>5. ASSUME NEW g \in Hosts, Pending(g) PROVE FALSE
    <3>1. CASE pc[g] \in Calling
      <4>1. Reserved(g) /\ pc[g] \in OwnSteps
        BY <3>1 DEF IInv, Standing, OwnSteps
      <4>2. ours[g].turn \in Turns /\ dispatched[ours[g].turn] # None
        BY <3>1, <4>1, OwnPlan DEF Reserved, Calling
      <4> QED
        BY <2>3, <4>2
    <3>2. CASE pc[g] \in Writing \cup {"put_intent"}
      <4>1. plan[g] # None /\ calls[plan[g].turn] > 0
        BY <3>2 DEF IInv, Standing, AnswerStanding
      <4>2. plan[g].turn \in Turns
        BY <4>1, PlansHaveTurns DEF IInv, Typed, LocalType
      <4> QED
        BY <2>3, <4>1, <4>2
    <3> QED
      BY <2>5, <3>1, <3>2 DEF Pending, OpenSteps, Calling
  <2> QED
    BY <1>1, <2>1, <2>4, <2>5, SilentKeeps DEF Silently
<1> QED
  BY <1>2, <1>3

LEMMA InvokeOneAnswer ==
  ASSUME IInv, OneAnswer, NEW h \in Hosts, Invoke(h) PROVE OneAnswer'
<1>1. LocalType /\ Proceed(h, "await") /\ pc[h] = "invoke"
      /\ intent' = intent /\ results' = results
  BY Typing DEF IInv, Invoke, facts
<1>2. Alone(h) /\ pc'[h] = "await"
  BY <1>1, ProceedMoves DEF Steps
<1>3. Pending(h) /\ ~Answered
  BY <1>1 DEF OneAnswer, Pending, OpenSteps
<1> QED
  BY <1>1, <1>2, <1>3, SilentKeeps DEF Silently, OpenSteps

LEMMA SettleOneAnswer ==
  ASSUME IInv, OneAnswer, NEW h \in Hosts, Settle(h) PROVE OneAnswer'
<1>1. LocalType /\ pc[h] = "await" /\ intent' = intent /\ results' = results
  BY Typing DEF IInv, Settle, facts
<1>2. Pending(h) /\ ~Answered
  BY <1>1 DEF OneAnswer, Pending, OpenSteps
<1>3. PICK limit \in CostLimits, a \in Answers, z \in Sizes :
        LET r == Grade(limit, a)
        IN  IF ~Storable(limit, a, r, z) THEN Throw(h, "unstorable")
            ELSE CompleteWith(h, r.status,
                   IF r.status = "completed" THEN "put_intent" ELSE "put_result")
  BY DEF Settle, SizesOf, Sizes
<1> DEFINE s == Grade(limit, a).status
<1>4. s \in Statuses
  BY GradeHasStatus
<1>5. \/ Throw(h, "unstorable")
      \/ CompleteWith(h, s, IF s = "completed" THEN "put_intent" ELSE "put_result")
  BY <1>3
<1> HIDE DEF s
<1>6. CASE Throw(h, "unstorable")
  BY <1>1, <1>6, EndIsQuiet, QuietKeeps DEF Throw
<1>7. CASE CompleteWith(h, s, IF s = "completed" THEN "put_intent" ELSE "put_result")
  <2>1. Alone(h) /\ doing'[h] = s
        /\ pc'[h] = (IF s = "completed" THEN "put_intent" ELSE "put_result")
    BY <1>1, <1>4, <1>7, CompleteMoves DEF Steps
  <2> QED
    BY <1>1, <1>2, <2>1, SilentKeeps DEF Silently, OpenSteps, Writing
<1> QED
  BY <1>5, <1>6, <1>7

LEMMA WritesKeep ==
  ASSUME IInv, OneAnswer, NEW h \in Hosts,
         PutExecution(h) \/ PutAssessment(h) \/ PutChild(h) \/ PutIndex(h)
  PROVE  OneAnswer'
<1>1. LocalType /\ intent' = intent /\ results' = results /\ pc[h] \in Writing
  BY Typing DEF IInv, PutExecution, PutAssessment, PutChild, PutIndex, facts, Writing
<1>2. \/ Throw(h, "workflow_incomplete") \/ UNCHANGED <<pc, local>>
      \/ Proceed(h, "put_child") \/ Proceed(h, "put_index") \/ Proceed(h, "put_turn")
  BY DEF PutExecution, PutAssessment, PutChild, PutIndex
<1>3. CASE Throw(h, "workflow_incomplete")
  BY <1>1, <1>3, EndIsQuiet, QuietKeeps DEF Throw
<1>4. CASE UNCHANGED <<pc, local>>
  <2>1. Alone(h) /\ pc'[h] = pc[h] /\ doing'[h] = doing[h]
    BY <1>4 DEF Alone, Untouched, local
  <2> QED
    BY <1>1, <2>1, SilentKeeps DEF Silently
<1>5. CASE Proceed(h, "put_child") \/ Proceed(h, "put_index") \/ Proceed(h, "put_turn")
  <2>1. Alone(h) /\ pc'[h] \in Writing /\ doing'[h] = doing[h]
    BY <1>1, <1>5, ProceedMoves DEF Steps, Writing
  <2> QED
    BY <1>1, <2>1, SilentKeeps DEF Silently
<1> QED
  BY <1>2, <1>3, <1>4, <1>5

(* The first fact of an answer is written by the only host that has it.    *)
LEMMA NobodyElse ==
  ASSUME OneAnswer, NEW h \in Hosts, Pending(h), ~Answered,
         NEW g \in Hosts, g # h
  PROVE  pc[g] \notin OpenSteps \cup Writing
BY DEF OneAnswer, Pending

LEMMA PutIntentOneAnswer ==
  ASSUME IInv, OneAnswer, NEW h \in Hosts, PutIntent(h) PROVE OneAnswer'
<1> DEFINE t == plan[h].turn
<1>1. LocalType /\ pc[h] = "put_intent" /\ results' = results /\ Standing(h)
  BY Typing DEF IInv, PutIntent
<1>2. Pending(h) /\ ~Answered /\ doing[h] = "completed"
  BY <1>1 DEF OneAnswer, Pending, OpenSteps
<1>3. t \in Turns /\ t # None /\ intent = None
  BY <1>1, <1>2, PlansHaveTurns DEF Standing, AnswerStanding, LocalType, Answered
<1>4. intent' = t /\ Proceed(h, "put_result")
  BY <1>3 DEF PutIntent, Conflicts
<1>5. Alone(h) /\ pc'[h] = "put_result" /\ doing'[h] = "completed"
  BY <1>1, <1>2, <1>4, ProceedMoves DEF Steps
<1>6. Answered' /\ Status' = "completed"
  BY <1>3, <1>4 DEF Answered, Status
<1>7. \A g \in Hosts : g # h => pc'[g] \notin OpenSteps \cup Writing
  BY <1>2, <1>5, NobodyElse DEF Alone, Untouched
<1>8. \A u \in Turns : results'[u] = None
  BY <1>1, <1>2 DEF Answered
<1>9. \A g, k \in Hosts : Pending(g)' /\ Pending(k)' => g = k
  BY <1>7 DEF Pending
<1>10. \A g \in Hosts :
         /\ (pc[g] \in OpenSteps => ~Answered)'
         /\ (pc[g] = "put_intent" => doing[g] = "completed")'
         /\ (pc[g] \in Writing /\ Answered => doing[g] = Status)'
  BY <1>5, <1>6, <1>7 DEF OpenSteps, Writing
<1> QED
  BY <1>8, <1>9, <1>10 DEF OneAnswer

LEMMA PutResultOneAnswer ==
  ASSUME IInv, IInv', OneAnswer, NEW h \in Hosts, PutResult(h) PROVE OneAnswer'
<1> DEFINE t == plan[h].turn
           s == doing[h]
<1>1. LocalType /\ RecordType /\ pc[h] = "put_result" /\ intent' = intent /\ Standing(h)
  BY Typing DEF IInv, PutResult
<1>2. /\ t \in Turns /\ calls[t] > 0 /\ s # None
      /\ s = "completed" => intent = t /\ intent # None
  BY <1>1, PlansHaveTurns DEF Standing, AnswerStanding, Writing, LocalType
<1> DEFINE tooLarge == s = "completed" /\ size = "record"
<1>3. CASE tooLarge \/ Conflicts(results[t], s)
  <2>1. /\ Throw(h, "unstorable") \/ Throw(h, "store.conflict")
        /\ results' = results
    BY <1>3 DEF PutResult
  <2> QED
    BY <1>1, <2>1, EndIsQuiet, QuietKeeps DEF Throw
<1>4. CASE ~(tooLarge \/ Conflicts(results[t], s))
  <2>1. /\ results' = [results EXCEPT ![t] = s] /\ results[t] \in {None, s}
        /\ Proceed(h, IF s = "completed" THEN "put_sidecar" ELSE "put_index")
    BY <1>4 DEF PutResult, Conflicts
  <2>2. Alone(h) /\ pc'[h] \in Writing /\ doing'[h] = s
    BY <1>1, <2>1, ProceedMoves DEF Steps, Writing
  <2>3. results'[t] = s /\ \A u \in Turns : u # t => results'[u] = results[u]
    BY <1>1, <1>2, <2>1 DEF RecordType, ResultBindings
  <2>4. CASE results[t] = s
    <3>1. results' = results
      BY <1>1, <2>1, <2>4 DEF RecordType, ResultBindings
    <3> QED
      BY <1>1, <2>2, <3>1, SilentKeeps DEF Silently, Writing
  <2>5. CASE results[t] = None /\ ~Answered
    <3>1. Pending(h) /\ intent = None
      BY <1>1, <2>5 DEF Pending, Writing, Answered
    <3>2. Answered' /\ Status' = s
      <4>1. (results[t] # None)' /\ (intent = None)' /\ t' = t
        BY <1>1, <1>2, <2>1, <2>3, <3>1 DEF PutResult, Proceed, local
      <4>2. \A u \in Turns : results'[u] # None => u = t
        BY <2>3, <2>5 DEF Answered
      <4>3. (CHOOSE u \in Turns : results'[u] # None) = t
        BY <1>2, <2>3, <4>2
      <4> QED
        BY <1>1, <1>2, <2>3, <3>1, <4>3 DEF Answered, Status
    <3>3. \A g \in Hosts : g # h => pc'[g] \notin OpenSteps \cup Writing
      BY <2>2, <2>5, <3>1, NobodyElse DEF Alone, Untouched
    <3>4. \A u \in Turns : results'[u] # None => results'[u] = s
      BY <2>3, <2>5 DEF Answered
    <3>5. \A g, k \in Hosts : Pending(g)' /\ Pending(k)' => g = k
      BY <3>3 DEF Pending
    <3>6. \A g \in Hosts :
            /\ (pc[g] \in OpenSteps => ~Answered)'
            /\ (pc[g] = "put_intent" => doing[g] = "completed")'
            /\ (pc[g] \in Writing /\ Answered => doing[g] = Status)'
      BY <2>2, <3>2, <3>3 DEF OpenSteps, Writing
    <3> QED
      BY <3>2, <3>4, <3>5, <3>6 DEF OneAnswer
  <2>6. CASE results[t] = None /\ Answered
    <3>1. s = Status
      BY <1>1, <2>6 DEF OneAnswer, Writing
    <3>2. intent # None
      <4>1. ASSUME NEW u \in Turns, results[u] # None PROVE FALSE
        <5>1. calls[u] > 0
          BY <4>1 DEF IInv, Facts
        <5> QED
          BY <1>2, <2>6, <4>1, <5>1, OneTurn
      <4> QED
        BY <2>6, <4>1 DEF Answered
    <3>3. Answered' /\ Status' = Status /\ Status = "completed"
      BY <1>1, <3>2 DEF Answered, Status
    <3>4. \A u \in Turns : results'[u] # None => results'[u] = Status
      BY <2>3, <3>1 DEF OneAnswer
    <3>5. \A g \in Hosts : g # h => pc'[g] = pc[g] /\ doing'[g] = doing[g]
      BY <2>2 DEF Alone, Untouched
    <3>6. \A g \in Hosts :
            /\ (pc[g] \in OpenSteps => ~Answered)'
            /\ (pc[g] = "put_intent" => doing[g] = "completed")'
            /\ (pc[g] \in Writing /\ Answered => doing[g] = Status)'
      BY <2>2, <2>6, <3>1, <3>3, <3>5 DEF OneAnswer, OpenSteps, Writing
    <3>7. \A g \in Hosts : ~Pending(g)'
      BY <3>3, <3>6 DEF Pending
    <3> QED
      BY <3>3, <3>4, <3>6, <3>7 DEF OneAnswer
  <2> QED
    BY <2>1, <2>4, <2>5, <2>6
<1> QED
  BY <1>3, <1>4

-------------------------------------------------------------------------------
LEMMA InitOneAnswer == Init => OneAnswer
BY DEF Init, OneAnswer, Pending, Answered, OpenSteps, Writing

LEMMA NextOneAnswer ==
  ASSUME IInv, IInv', OneAnswer, [Next]_vars PROVE OneAnswer'
<1>1. CASE UNCHANGED vars
  BY <1>1, ViewsOneAnswer DEF vars, facts
<1>2. CASE Tick
  BY <1>2, ViewsOneAnswer DEF Tick, local
<1>3. ASSUME NEW h \in Hosts,
             \/ RunGeneration(h) \/ RunAdvisory(h) \/ Recover(h)
             \/ Drift(h) \/ Prepare(h) \/ ViewTurn(h) \/ ViewChild(h) \/ Crash(h)
      PROVE  OneAnswer'
  BY <1>3, EntryKeeps, EndsKeep, ViewsOneAnswer DEF Prepare, ViewTurn, ViewChild
<1>4. ASSUME NEW h \in Hosts, Step(h) PROVE OneAnswer'
  <2>1. CASE LoadAttempt(h) \/ FindAttempt(h) \/ ClassifyDispatch(h)
             \/ ClassifyResult(h) \/ ClassifyTerminal(h) \/ Existing(h)
    BY <2>1, EntryKeeps, ClassifyKeeps, ResumeOneAnswer
  <2>2. CASE Reserve(h) \/ Authorize(h) \/ Claim(h) \/ Dispatch(h) \/ Invoke(h)
             \/ Unknown(h)
    BY <2>2, IntentsKeep, DispatchOneAnswer, InvokeOneAnswer, EndsKeep
  <2>3. CASE PutResult(h) \/ IndexNoncompleted(h) \/ PutTurn(h)
    BY <2>3, PutResultOneAnswer, WritesKeep, EndsKeep DEF IndexNoncompleted
  <2>4. CASE Generate(h)
    BY <2>4, ResumeOneAnswer, IntentsKeep, SettleOneAnswer, PutIntentOneAnswer,
       WritesKeep
    DEF Generate, ResumeGeneration, RevalidateGeneration, LockExecution,
        AttemptGeneration, SettleGeneration, IntentGeneration, IndexGeneration
  <2>5. CASE Review(h)
    BY <2>5, ResumeOneAnswer, IntentsKeep, SettleOneAnswer, PutIntentOneAnswer,
       WritesKeep
    DEF Review, ResumeAdvisory, RevalidateAdvisory, LockReview, AttemptAdvisory,
        SettleAdvisory, IntentAdvisory, IndexAdvisory
  <2> QED
    BY <1>4, <2>1, <2>2, <2>3, <2>4, <2>5 DEF Step
<1> QED
  BY <1>1, <1>2, <1>3, <1>4 DEF Next

-------------------------------------------------------------------------------
(***************************************************************************)
(* An answer is lost to nothing but its size.  Its size is decided once,   *)
(* for the one call of the key (Sized), and a call that says it lost an    *)
(* answer threw because that size was beyond a ceiling (Kept).             *)
(***************************************************************************)

Beyond == lane = "generation" /\ size \in {"record", "binding"}

Sized ==
  /\ size \notin {"fits", None} => Beyond
  /\ size # None => \E t \in Turns : calls[t] > 0
  /\ \A h \in Hosts : pc[h] = "await" => size = None

Kept == \A h \in Hosts : outcome[h].status = "unstorable" => Beyond

(* Nobody but the host that calls comes to wait for an answer.             *)
LEMMA NobodyWaits ==
  ASSUME IInv, [Next]_vars, NEW g \in Hosts, pc'[g] = "await"
  PROVE  pc[g] = "await" \/ Invoke(g)
<1> LocalType
  BY Typing DEF IInv
<1>1. CASE UNCHANGED vars \/ Tick
  BY <1>1 DEF vars, Tick
<1>2. ASSUME NEW h \in Hosts, Step(h)
      PROVE  pc[g] = "await" \/ Invoke(g)
  <2>1. CASE \/ LoadAttempt(h) \/ FindAttempt(h) \/ ClassifyDispatch(h)
             \/ ClassifyResult(h) \/ ClassifyTerminal(h) \/ Existing(h)
             \/ Unknown(h)
    BY <2>1
    DEF LocalType, LoadAttempt, FindAttempt, ClassifyDispatch, ClassifyResult,
        ClassifyTerminal, Existing, Unknown, NotDispatched, Saw, Proceed,
        CommitNoncompleted, CompleteWith, Finish, Throw, End, Goto
  <2>2. CASE \/ Revalidate(h) \/ Reserve(h) \/ LockPlan(h) \/ Authorize(h)
             \/ IndexAttempt(h) \/ Claim(h) \/ Dispatch(h) \/ Invoke(h)
    BY <2>2
    DEF LocalType, Revalidate, Reserve, LockPlan, Authorize, IndexAttempt, Claim,
        Dispatch, Invoke, Saw, Proceed, Throw, End, Goto
  <2>3. CASE \/ Settle(h) \/ PutIntent(h) \/ PutResult(h) \/ PutExecution(h)
             \/ PutAssessment(h) \/ PutChild(h) \/ PutIndex(h) \/ PutTurn(h)
    BY <2>3
    DEF LocalType, Settle, PutIntent, PutResult, PutExecution, PutAssessment,
        PutChild, PutIndex, PutTurn, CompleteWith, Proceed, Finish, Throw, End, Goto
  <2>4. CASE Resume(h)
    <3>1. seen[h] \in Known \cup {"not_dispatched"}
      BY <2>4 DEF Resume, IInv, Standing, AnswerStanding
    <3>2. \/ NotDispatched(h) \/ \E s : CompleteWith(h, s, "put_result")
          \/ Throw(h, "store.corrupt") \/ Throw(h, "output_unavailable")
          \/ \E s, p : Finish(h, s, p)
      BY <2>4, <3>1 DEF Resume, Known, CommitNoncompleted
    <3> QED
      BY <3>2
      DEF LocalType, NotDispatched, CompleteWith, Finish, Throw, End, Goto
  <2> QED
    BY <1>2, <2>1, <2>2, <2>3, <2>4
    DEF Step, Generate, Review, IndexNoncompleted,
        ResumeGeneration, RevalidateGeneration, LockExecution, AttemptGeneration,
        SettleGeneration, IntentGeneration, IndexGeneration,
        ResumeAdvisory, RevalidateAdvisory, LockReview, AttemptAdvisory,
        SettleAdvisory, IntentAdvisory, IndexAdvisory
<1>3. ASSUME NEW h \in Hosts,
             \/ RunGeneration(h) \/ RunAdvisory(h) \/ Recover(h) \/ Drift(h)
             \/ Prepare(h) \/ ViewTurn(h) \/ ViewChild(h) \/ Crash(h)
      PROVE  pc[g] = "await" \/ Invoke(g)
  BY <1>3
  DEF LocalType, RunGeneration, RunAdvisory, Run, Recover, Drift, Prepare,
      ViewTurn, ViewChild, Crash, Throw, End, Goto
<1> QED
  BY <1>1, <1>2, <1>3 DEF Next

LEMMA NextCalls ==
  ASSUME IInv, NEW t \in Turns, calls[t] > 0,
         UNCHANGED calls \/ \E h \in Hosts : Invoke(h)
  PROVE  calls'[t] > 0
<1>1. calls \in [Turns -> Nat]
  BY DEF IInv, Typed, RecordType
<1> QED
  BY <1>1 DEF Invoke

LEMMA AbsentSize == None \notin Sizes
BY TurnAssumption

LEMMA InitSized == Init => Sized
BY DEF Init, Sized

LEMMA SettleSized ==
  ASSUME IInv, OneAnswer, Sized, NEW h \in Hosts, Settle(h) PROVE Sized'
<1>1. LocalType /\ pc[h] = "await" /\ calls' = calls
  BY Typing DEF IInv, Settle
<1>2. size' \notin {"fits", None} => Beyond'
  BY SettleSize, TurnAssumption DEF Beyond, Sizes
<1>3. \E t \in Turns : calls'[t] > 0
  BY <1>1, OwnPlan DEF IInv, Standing, AnswerStanding, OwnSteps, Calling
<1>4. pc'[h] # "await" /\ \A g \in Hosts : g # h => pc'[g] = pc[g]
  BY <1>1 DEF Settle, LocalType, CompleteWith, Throw, End, Goto
<1>5. \A g \in Hosts : g # h => pc[g] # "await"
  BY <1>1 DEF OneAnswer, Pending, OpenSteps
<1> QED
  BY <1>2, <1>3, <1>4, <1>5 DEF Sized

LEMMA NextSized ==
  ASSUME IInv, IInv', OneAnswer, Sized, [Next]_vars PROVE Sized'
<1>1. CASE \E h \in Hosts : Settle(h)
  BY <1>1, SettleSized
<1>2. CASE /\ UNCHANGED <<lane, size>>
           /\ UNCHANGED calls \/ \E h \in Hosts : Invoke(h)
  <2>1. \A t \in Turns : calls[t] > 0 => calls'[t] > 0
    BY <1>2, NextCalls
  <2>2. ASSUME NEW g \in Hosts, pc'[g] = "await" PROVE size = None
    <3>1. CASE Invoke(g)
      <4>1. \A t \in Turns : calls[t] = 0
        BY <3>1, NoneCalled DEF Invoke
      <4> QED
        BY <4>1 DEF Sized
    <3> QED
      BY <2>2, <3>1, NobodyWaits, Typing DEF IInv, Sized
  <2> QED
    BY <1>2, <2>1, <2>2 DEF Sized, Beyond
<1> QED
  BY <1>1, <1>2, NextSize

LEMMA EndReports ==
  ASSUME Kept, UNCHANGED <<lane, size>>, LocalType, NEW h \in Hosts, NEW r,
         End(h, r), r.status # "unstorable"
  PROVE  Kept'
BY DEF Kept, Beyond, End, LocalType

LEMMA ThrowReports ==
  ASSUME Kept, UNCHANGED <<lane, size>>, LocalType, NEW h \in Hosts,
         NEW e \in Errors \ {"unstorable"}, Throw(h, e)
  PROVE  Kept'
<1>1. Failed(e).status # "unstorable"
  BY DEF Failed, Report
<1> QED
  BY <1>1, EndReports DEF Throw

LEMMA FinishReports ==
  ASSUME Kept, UNCHANGED <<lane, size>>, LocalType, NEW h \in Hosts, NEW p,
         NEW s \in Statuses \cup {None, "outcome_unknown"}, Finish(h, s, p)
  PROVE  Kept'
<1>1. s # "unstorable"
  BY AbsenceAssumption DEF Statuses, Envelopes, Errors
<1>2. \A q : Report(s, q).status # "unstorable"
  BY <1>1 DEF Report
<1>3. CASE mode[h] = "inner" /\ ours[h] # attempt
  BY <1>3, ThrowReports DEF Finish, Errors
<1>4. CASE mode[h] = "inner" /\ ours[h] = attempt
  BY <1>2, <1>4, EndReports DEF Finish
<1>5. CASE mode[h] # "inner"
  BY <1>2, <1>5, EndReports DEF Finish
<1> QED
  BY <1>3, <1>4, <1>5

LEMMA SilentReports ==
  /\ Silent.status # "unstorable"
  /\ Report("not_dispatched", "not_dispatched").status # "unstorable"
  /\ Report("outcome_unknown", "dispatch_only").status # "unstorable"
BY AbsenceAssumption DEF Silent, Report, Errors

LEMMA QuietOutcome ==
  ASSUME Kept, UNCHANGED <<lane, size, outcome>> PROVE Kept'
BY DEF Kept, Beyond

LEMMA ReadsReport ==
  ASSUME IInv, Kept, NEW h \in Hosts,
         \/ LoadAttempt(h) \/ FindAttempt(h) \/ ClassifyDispatch(h)
         \/ ClassifyResult(h) \/ ClassifyTerminal(h) \/ Resume(h) \/ Existing(h),
         UNCHANGED <<lane, size>>
  PROVE  Kept'
<1>1. LocalType /\ \A t \in Turns : /\ results[t] \in Statuses \cup {None}
                                    /\ terminals[t] \in Statuses \cup {None}
  BY Typing DEF IInv, RecordType, ResultBindings, TurnReceipts
<1>2. Resume(h) \/ ClassifyTerminal(h) => plan[h].turn \in Turns
  BY <1>1, PlansHaveTurns
  DEF IInv, Standing, AnswerStanding, Reading, Resume, ClassifyTerminal, LocalType
<1>3. \/ outcome' = outcome \/ Throw(h, "store.conflict") \/ Throw(h, "store.corrupt")
      \/ Throw(h, "output_unavailable")
      \/ End(h, Report("not_dispatched", "not_dispatched"))
      \/ End(h, Report("outcome_unknown", "dispatch_only"))
      \/ \E p : Finish(h, "outcome_unknown", p)
      \/ \E p : plan[h].turn \in Turns /\ Finish(h, results[plan[h].turn], p)
      \/ \E p : plan[h].turn \in Turns /\ Finish(h, terminals[plan[h].turn], p)
  <2>1. CASE LoadAttempt(h) \/ FindAttempt(h) \/ ClassifyDispatch(h)
             \/ ClassifyResult(h) \/ Existing(h)
    BY <2>1
    DEF LoadAttempt, FindAttempt, ClassifyDispatch, ClassifyResult, Existing, Saw,
        CompleteWith, Proceed, local, NotDispatched
  <2>2. CASE ClassifyTerminal(h)
    BY <1>2, <2>2 DEF ClassifyTerminal, Saw, CommitNoncompleted, CompleteWith
  <2>3. CASE Resume(h)
    <3>1. seen[h] \in Known \cup {"not_dispatched"}
      BY <2>3 DEF Resume, IInv, Standing, AnswerStanding
    <3> QED
      BY <1>2, <2>3, <3>1
      DEF Resume, Known, NotDispatched, CommitNoncompleted, CompleteWith
  <2> QED
    BY <2>1, <2>2, <2>3
<1> QED
  BY <1>1, <1>3, QuietOutcome, ThrowReports, EndReports, FinishReports, SilentReports
  DEF Errors

LEMMA WritesReport ==
  ASSUME IInv, Kept, NEW h \in Hosts, UNCHANGED <<lane, size>>,
         \/ Revalidate(h) \/ Reserve(h) \/ LockPlan(h) \/ Authorize(h)
         \/ IndexAttempt(h) \/ Claim(h) \/ Dispatch(h) \/ Invoke(h)
         \/ PutIntent(h) \/ PutExecution(h) \/ PutAssessment(h)
         \/ PutChild(h) \/ PutIndex(h) \/ Drift(h)
  PROVE  Kept'
<1>1. LocalType
  BY Typing DEF IInv
<1>2. \/ outcome' = outcome
      \/ \E e \in Errors \ {"unstorable"} : Throw(h, e)
  <2>1. CASE \/ Revalidate(h) \/ Reserve(h) \/ LockPlan(h) \/ Authorize(h)
             \/ IndexAttempt(h) \/ Claim(h) \/ Dispatch(h) \/ Invoke(h)
    BY <2>1
    DEF Revalidate, Reserve, LockPlan, Authorize, IndexAttempt, Claim, Dispatch,
        Invoke, Saw, Proceed, local, Errors
  <2>2. CASE \/ PutIntent(h) \/ PutExecution(h) \/ PutAssessment(h)
             \/ PutChild(h) \/ PutIndex(h) \/ Drift(h)
    BY <2>2
    DEF PutIntent, PutExecution, PutAssessment, PutChild, PutIndex,
        Drift, Proceed, local, Errors
  <2> QED
    BY <2>1, <2>2
<1> QED
  BY <1>1, <1>2, QuietOutcome, ThrowReports

(* The throws that say an answer was lost: at the parse of what is made of *)
(* it, and at the write of its result.                                     *)
LEMMA PutResultReports ==
  ASSUME IInv, Kept, Sized, NEW h \in Hosts, PutResult(h), UNCHANGED <<lane, size>>
  PROVE  Kept'
<1>1. LocalType
  BY Typing DEF IInv
<1>2. CASE size = "record"
  <2>1. Beyond'
    BY <1>2, AbsentSize DEF Sized, Beyond, Sizes
  <2> QED
    BY <2>1 DEF Kept
<1>3. CASE size # "record"
  <2>1. Throw(h, "store.conflict") \/ outcome' = outcome
    BY <1>3 DEF PutResult, Proceed, local
  <2> QED
    BY <1>1, <2>1, QuietOutcome, ThrowReports DEF Errors
<1> QED
  BY <1>2, <1>3

LEMMA SettleReports ==
  ASSUME Kept, Sized, NEW h \in Hosts, Settle(h) PROVE Kept'
<1>1. size = None /\ \A g \in Hosts : outcome[g].status # "unstorable"
  BY AbsentSize DEF Settle, Sized, Kept, Beyond, Sizes
<1>2. PICK limit \in CostLimits, a \in Answers, z \in Sizes :
        LET r == Grade(limit, a)
        IN  /\ size' = z
            /\ IF ~Storable(limit, a, r, z) THEN Throw(h, "unstorable")
               ELSE outcome' = outcome
  BY DEF Settle, SizesOf, Sizes, CompleteWith
<1>3. CASE z = "binding"
  <2>1. Beyond'
    BY <1>2, <1>3, SettleSize DEF Beyond
  <2> QED
    BY <2>1 DEF Kept
<1>4. CASE z # "binding"
  <2>1. outcome' = outcome
    BY <1>2, <1>4, GradesAreStorable
  <2> QED
    BY <1>1, <2>1 DEF Kept
<1> QED
  BY <1>3, <1>4

LEMMA OthersReport ==
  ASSUME IInv, Kept, NEW h \in Hosts, UNCHANGED <<lane, size>>,
         \/ Run(h) \/ Recover(h) \/ Unknown(h) \/ PutTurn(h) \/ Crash(h)
         \/ Prepare(h) \/ ViewTurn(h) \/ ViewChild(h)
  PROVE  Kept'
<1>1. LocalType /\ \A t \in Turns : terminals[t] \in Statuses \cup {None}
  BY Typing DEF IInv, RecordType, TurnReceipts
<1>2. CASE Run(h) \/ Recover(h)
  BY <1>1, <1>2, SilentReports DEF Run, Recover, Kept, Beyond, LocalType
<1>3. CASE Unknown(h) \/ Crash(h)
  BY <1>1, <1>3, SilentReports, EndReports DEF Unknown, Crash
<1>4. CASE PutTurn(h)
  <2>1. doing[h] \in Statuses \cup {None}
    BY <1>1 DEF LocalType
  <2>2. Throw(h, "store.conflict") \/ \E p : Finish(h, doing[h], p)
    BY <1>4 DEF PutTurn
  <2> QED
    BY <1>1, <2>1, <2>2, ThrowReports, FinishReports DEF Errors
<1>5. CASE Prepare(h) \/ ViewTurn(h) \/ ViewChild(h)
  <2>1. \A t \in Turns : terminals[t] # "unstorable"
    BY <1>1, AbsenceAssumption DEF Statuses, Envelopes, Errors
  <2> QED
    BY <1>1, <1>5, <2>1
    DEF Prepare, ViewTurn, ViewChild, Kept, Beyond, LocalType, Report, Failed
<1> QED
  BY <1>2, <1>3, <1>4, <1>5

LEMMA NextKept == ASSUME IInv, Kept, Sized, [Next]_vars PROVE Kept'
<1>1. CASE \E h \in Hosts : Settle(h)
  BY <1>1, SettleReports
<1>2. CASE UNCHANGED <<lane, size>>
  <2>1. CASE UNCHANGED vars \/ Tick
    BY <1>2, <2>1, QuietOutcome DEF vars, Tick, local
  <2>2. ASSUME NEW h \in Hosts, Step(h) PROVE Kept'
    BY <1>2, <2>2, ReadsReport, WritesReport, PutResultReports, SettleReports,
       OthersReport
    DEF Step, Generate, Review, IndexNoncompleted,
        ResumeGeneration, RevalidateGeneration, LockExecution, AttemptGeneration,
        SettleGeneration, IntentGeneration, IndexGeneration,
        ResumeAdvisory, RevalidateAdvisory, LockReview, AttemptAdvisory,
        SettleAdvisory, IntentAdvisory, IndexAdvisory
  <2>3. ASSUME NEW h \in Hosts,
               \/ RunGeneration(h) \/ RunAdvisory(h) \/ Recover(h) \/ Drift(h)
               \/ Prepare(h) \/ ViewTurn(h) \/ ViewChild(h) \/ Crash(h)
        PROVE  Kept'
    BY <1>2, <2>3, WritesReport, OthersReport DEF RunGeneration, RunAdvisory
  <2> QED
    BY <2>1, <2>2, <2>3 DEF Next
<1> QED
  BY <1>1, <1>2, NextSize

(* No answer is lost to the checks its own record must pass, but to the    *)
(* ceilings no rung of the ladder looks at (generation-run.ts, the parse   *)
(* of the result binding and of the completion intent, and the bound on    *)
(* the result record): and so none of an advisory review.                  *)
THEOREM AnswersAreKept == Spec => []AnswersKept
<1>1. Init => Kept
  BY SilentReports DEF Init, Kept
<1>2. Kept => AnswersKept
  <2>1. Failed("unstorable").status = "unstorable"
    BY DEF Failed, Report
  <2> QED
    BY <2>1 DEF Kept, Beyond, AnswersKept
<1>3. IInv /\ IInv' /\ OneAnswer /\ [Next]_vars => OneAnswer'
  BY NextOneAnswer
<1>4. IInv /\ IInv' /\ OneAnswer /\ Sized /\ [Next]_vars => Sized'
  BY NextSized
<1>5. IInv /\ Kept /\ Sized /\ [Next]_vars => Kept'
  BY NextKept
<1> QED
  BY InvariantHolds, InitOneAnswer, InitSized, <1>1, <1>2, <1>3, <1>4, <1>5, PTL
  DEF Spec

-------------------------------------------------------------------------------
(* Each step is a step of the abstract turn, or none.                      *)
Abstract == <<Stage, Status>>

LEMMA StageUnchanged ==
  ASSUME UNCHANGED <<dispatched, calls, intent, results, terminals>>
  PROVE  UNCHANGED Abstract
<1>1. Answered' = Answered /\ Status' = Status
  BY SameStatus
<1> QED
  BY <1>1 DEF Abstract, Stage

LEMMA DispatchStep ==
  ASSUME IInv, NEW h \in Hosts, Dispatch(h)
  PROVE  [Lifecycle!Next]_Abstract
<1> DEFINE t == ours[h].turn
<1>1. UNCHANGED <<calls, intent, results, terminals>> /\ Standing(h) /\ RecordType
      /\ pc[h] = "dispatch" /\ marker[h] # None
  BY Typing DEF IInv, Dispatch, facts, Standing, Reserved
<1>2. CASE dispatched[t] # None
  <2>1. dispatched' = dispatched
    BY <1>2 DEF Dispatch
  <2> QED
    BY <1>1, <2>1, StageUnchanged
<1>3. CASE dispatched[t] = None
  <2>1. attempt = ours[h] /\ t \in Turns
    BY <1>1, OwnPlan DEF Standing, Reserved, OwnSteps, Locked, Attempted
  <2>2. \A u \in Turns : dispatched[u] = None /\ calls[u] = 0
    BY <1>3, <2>1 DEF IInv, Bound, OneCaller, Typed, RecordType
  <2>3. ~Answered /\ \A u \in Turns : terminals[u] = None
    BY <2>2, Foundations
  <2>4. dispatched'[t] # None
    BY <1>1, <1>3, <2>1 DEF Dispatch, RecordType
  <2>5. Answered' = Answered /\ Status' = Status
    BY <1>1, SameStatus
  <2>6. Stage = "open"
    BY <2>2, <2>3 DEF Stage
  <2>7. Stage' = "dispatched"
    BY <1>1, <2>1, <2>2, <2>3, <2>4, <2>5 DEF Stage
  <2> QED
    BY <2>5, <2>6, <2>7 DEF Lifecycle!Next, Lifecycle!Dispatch
<1> QED
  BY <1>2, <1>3

LEMMA InvokeStep ==
  ASSUME IInv, NEW h \in Hosts, Invoke(h)
  PROVE  [Lifecycle!Next]_Abstract
<1> DEFINE t == ours[h].turn
<1>1. /\ UNCHANGED <<dispatched, intent, results, terminals>> /\ Standing(h)
      /\ RecordType /\ pc[h] = "invoke" /\ calls' = [calls EXCEPT ![t] = @ + 1]
  BY Typing DEF IInv, Invoke, facts, intents
<1>2. t \in Turns /\ dispatched[t] # None /\ calls[t] = 0
  BY <1>1, OwnPlan
  DEF IInv, OneCaller, Standing, Reserved, OwnSteps, Calling
<1>3. \A u \in Turns : calls[u] = 0
  BY <1>1, NoneCalled
<1>4. ~Answered /\ \A u \in Turns : terminals[u] = None
  BY <1>3, Foundations
<1>5. Answered' = Answered /\ Status' = Status
  BY <1>1, SameStatus
<1>6. Stage = "dispatched"
  BY <1>2, <1>3, <1>4 DEF Stage
<1>7. calls'[t] > 0
  BY <1>1, <1>2 DEF RecordType
<1>8. Stage' = "called"
  BY <1>1, <1>2, <1>4, <1>5, <1>7 DEF Stage
<1> QED
  BY <1>5, <1>6, <1>8 DEF Lifecycle!Next, Lifecycle!Call

(* The stage of a turn that was called, before and after its answer.       *)
LEMMA StageWhenCalled ==
  ASSUME NEW t \in Turns, calls[t] > 0, \A u \in Turns : terminals[u] = None
  PROVE  Stage = IF Answered THEN "recorded" ELSE "called"
BY DEF Stage

LEMMA RecordStep ==
  ASSUME IInv, IInv', OneAnswer, OneAnswer', NEW h \in Hosts,
         PutIntent(h) \/ PutResult(h)
  PROVE  [Lifecycle!Next]_Abstract
<1> DEFINE t == plan[h].turn
<1>1. /\ UNCHANGED <<dispatched, calls, terminals>> /\ Standing(h) /\ LocalType
      /\ RecordType /\ pc[h] \in {"put_intent", "put_result"}
  BY Typing DEF IInv, PutIntent, PutResult, intents
<1>2. t \in Turns /\ t # None /\ calls[t] > 0 /\ doing[h] # None
      /\ doing[h] \in Statuses
  BY <1>1, PlansHaveTurns DEF Standing, AnswerStanding, Writing, LocalType
<1>3. CASE intent' = intent /\ results' = results
  BY <1>1, <1>3, StageUnchanged
<1>4. CASE intent' # intent \/ results' # results
  <2>1. \/ /\ PutIntent(h) /\ intent' = t
           /\ results' = results /\ intent = None /\ doing[h] = "completed"
        \/ /\ PutResult(h) /\ results' = [results EXCEPT ![t] = doing[h]]
           /\ intent' = intent
    BY <1>4 DEF PutIntent, PutResult, Conflicts, OneAnswer
  <2>2. Answered'
    <3>1. CASE intent' = t
      BY <1>2, <3>1 DEF Answered
    <3>2. CASE results' = [results EXCEPT ![t] = doing[h]]
      BY <1>1, <1>2, <3>2 DEF Answered, RecordType, ResultBindings
    <3> QED
      BY <2>1, <3>1, <3>2
  <2>3. CASE Answered
    <3>1. PutResult(h) /\ results' = [results EXCEPT ![t] = doing[h]]
          /\ intent' = intent /\ pc[h] = "put_result"
      BY <2>1, <2>3 DEF PutIntent, PutResult, OneAnswer, OpenSteps
    <3>2. doing[h] = Status
      BY <2>3, <3>1 DEF OneAnswer, Writing
    <3>3. results'[t] = doing[h] /\ t \in Turns
      BY <1>1, <1>2, <3>1 DEF RecordType, ResultBindings
    <3>4. (\A u \in Turns : results[u] # None => results[u] = Status)'
      BY DEF OneAnswer
    <3>5. Status' = Status
      BY <1>2, <3>2, <3>3, <3>4
    <3>6. Stage' = Stage
      BY <1>1, <2>2, <2>3 DEF Stage
    <3> QED
      BY <3>5, <3>6 DEF Abstract
  <2>4. CASE ~Answered
    <3>1. \A u \in Turns : terminals[u] = None
      BY <2>4, Foundations
    <3>2. Stage = "called"
      BY <1>2, <2>4, <3>1, StageWhenCalled
    <3>3. Stage' = "recorded"
      BY <1>1, <1>2, <2>2, <3>1 DEF Stage
    <3>4. Status' \in Statuses
      <4>1. CASE intent' # None
        BY <4>1 DEF Status, Statuses, Envelopes
      <4>2. CASE intent' = None
        <5>1. results' = [results EXCEPT ![t] = doing[h]]
          BY <1>2, <2>1, <4>2
        <5>2. results'[t] = doing[h]
          BY <1>1, <1>2, <5>1 DEF RecordType, ResultBindings
        <5>3. (\A u \in Turns : results[u] # None => results[u] = Status)'
          BY DEF OneAnswer
        <5> QED
          BY <1>2, <5>2, <5>3
      <4> QED
        BY <4>1, <4>2
    <3> QED
      BY <3>2, <3>3, <3>4 DEF Lifecycle!Next, Lifecycle!Record
  <2> QED
    BY <2>3, <2>4
<1> QED
  BY <1>3, <1>4

LEMMA CommitStep ==
  ASSUME IInv, NEW h \in Hosts, PutTurn(h)
  PROVE  [Lifecycle!Next]_Abstract
<1> DEFINE t == plan[h].turn
<1>1. /\ UNCHANGED <<dispatched, calls, intent, results>> /\ Standing(h) /\ LocalType
      /\ RecordType /\ pc[h] = "put_turn"
  BY Typing DEF IInv, PutTurn, intents
<1>2. /\ t \in Turns /\ calls[t] > 0 /\ doing[h] # None /\ results[t] = doing[h]
  BY <1>1, PlansHaveTurns
  DEF Standing, AnswerStanding, Writing, LocalType, Whole, GenerationWhole,
      AdvisoryWhole
<1>3. Answered /\ Answered' = Answered /\ Status' = Status
  BY <1>1, <1>2, SameStatus DEF Answered
<1>4. CASE terminals' = terminals
  BY <1>1, <1>4, StageUnchanged
<1>5. CASE terminals' # terminals
  <2>1. terminals' = [terminals EXCEPT ![t] = doing[h]]
        /\ terminals[t] \in {None, doing[h]}
    BY <1>5 DEF PutTurn, Conflicts
  <2>2. terminals[t] = None
    BY <1>1, <1>2, <1>5, <2>1 DEF RecordType, TurnReceipts
  <2>3. \A u \in Turns : terminals[u] = None
    BY <1>2, <2>2, OneTurn, Foundations
  <2>4. Stage = "recorded"
    BY <1>2, <1>3, <2>3, StageWhenCalled
  <2>5. terminals'[t] # None
    BY <1>1, <1>2, <2>1 DEF RecordType, TurnReceipts
  <2>6. Stage' = "committed"
    BY <1>2, <2>5 DEF Stage
  <2> QED
    BY <1>3, <2>4, <2>6 DEF Lifecycle!Next, Lifecycle!Commit
<1> QED
  BY <1>4, <1>5

LEMMA OtherStep ==
  ASSUME NEW h \in Hosts, Step(h), ~Dispatch(h), ~Invoke(h), ~PutIntent(h),
         ~PutResult(h), ~PutTurn(h)
  PROVE  UNCHANGED <<dispatched, calls, intent, results, terminals>>
<1>1. CASE LoadAttempt(h) \/ FindAttempt(h) \/ ClassifyDispatch(h)
           \/ ClassifyResult(h) \/ ClassifyTerminal(h) \/ Existing(h) \/ Unknown(h)
           \/ Claim(h) \/ Resume(h) \/ Revalidate(h) \/ Settle(h)
  BY <1>1
  DEF LoadAttempt, FindAttempt, ClassifyDispatch, ClassifyResult, ClassifyTerminal,
      Existing, Unknown, Claim, Resume, Revalidate, Settle, intents, facts
<1>2. CASE Reserve(h) \/ LockPlan(h) \/ Authorize(h) \/ IndexAttempt(h)
  BY <1>2 DEF Reserve, LockPlan, Authorize, IndexAttempt, facts
<1>3. CASE PutExecution(h) \/ PutAssessment(h) \/ PutChild(h) \/ PutIndex(h)
  BY <1>3 DEF PutExecution, PutAssessment, PutChild, PutIndex, intents
<1> QED
  BY <1>1, <1>2, <1>3
  DEF Step, Generate, Review, IndexNoncompleted,
      ResumeGeneration, RevalidateGeneration, LockExecution, AttemptGeneration,
      SettleGeneration, IntentGeneration, IndexGeneration,
      ResumeAdvisory, RevalidateAdvisory, LockReview, AttemptAdvisory,
      SettleAdvisory, IntentAdvisory, IndexAdvisory

LEMMA NextImplements ==
  ASSUME IInv, IInv', OneAnswer, OneAnswer', [Next]_vars
  PROVE  [Lifecycle!Next]_Abstract
<1>1. CASE UNCHANGED vars \/ Tick
  BY <1>1, StageUnchanged DEF vars, Tick, intents, facts
<1>2. ASSUME NEW h \in Hosts,
             \/ RunGeneration(h) \/ RunAdvisory(h) \/ Recover(h)
             \/ Drift(h) \/ Prepare(h) \/ ViewTurn(h) \/ ViewChild(h) \/ Crash(h)
      PROVE  [Lifecycle!Next]_Abstract
  BY <1>2, StageUnchanged
  DEF RunGeneration, RunAdvisory, Run, Recover, Drift, Prepare, ViewTurn,
      ViewChild, Crash, intents, facts
<1>3. ASSUME NEW h \in Hosts, Step(h)
      PROVE  [Lifecycle!Next]_Abstract
  BY <1>3, DispatchStep, InvokeStep, RecordStep, CommitStep, OtherStep,
     StageUnchanged
<1> QED
  BY <1>1, <1>2, <1>3 DEF Next

(* The semantic workflows implement the abstract turn: dispatched, called, *)
(* recorded and committed once each, with the status that was recorded     *)
(* (decisions 0021 to 0023), for any hosts, plans, windows and answers.    *)
THEOREM WorkflowImplementsTurn == Spec => ImplementsTurn
<1>1. Init => Lifecycle!Init
  BY DEF Init, Lifecycle!Init, Stage, Status, Answered
<1>2. IInv /\ IInv' /\ OneAnswer /\ [Next]_vars => OneAnswer'
  BY NextOneAnswer
<1>3. IInv /\ IInv' /\ OneAnswer /\ OneAnswer' /\ [Next]_vars
        => [Lifecycle!Next]_Abstract
  BY NextImplements
<1> QED
  BY InvariantHolds, InitOneAnswer, <1>1, <1>2, <1>3, PTL
  DEF Spec, ImplementsTurn, Lifecycle!Spec, Abstract

===============================================================================
