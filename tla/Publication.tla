----------------------------- MODULE Publication -----------------------------
(***************************************************************************)
(* The journaled publisher (engine/publication.ts and its journal,         *)
(* engine/publication-journal.ts): hosts call preparePublication and       *)
(* publish concurrently over one store and one destination.  Every store   *)
(* operation and adapter call is an await, so every step below that reads  *)
(* or writes shared state is one action, and a host may crash between any  *)
(* two of them; a later publish of the same plan resumes from the journal. *)
(*                                                                         *)
(* Data is abstracted: a plan is its content (action, the forward plan it  *)
(* concerns, its effects); an intervention is named by its plan; a receipt *)
(* is the effect it proves; a stream revision is the stream's length.      *)
(* Drift of the registry, policy, candidate, governance and supersession   *)
(* is a nondeterministic refusal.                                          *)
(***************************************************************************)
EXTENDS InterventionTable, Naturals, Sequences

CONSTANTS
  Hosts,              \* concurrent publish calls
  Forward,            \* publish plans a destination can prepare
  AfterEffect,        \* AfterEffect[f][i]: declared reversal of effect i of f
  EffectClass,        \* EffectClass[f]: class of the destination of f
  MaxAppendAttempts   \* MAX_APPEND_ATTEMPTS (8 in the code)

ReversalActions == {"disable", "rollback", "compensate"}

ASSUME ForwardAssumption == Forward # {}
ASSUME PlansAssumption ==
  \A f \in Forward :
    /\ AfterEffect[f] \in Seq(ReversalActions \cup {"irreversible"})
    /\ AfterEffect[f] # << >>
    /\ EffectClass[f] \in {"proposal", "context", "external", "authority"}
ASSUME AttemptsAssumption == MaxAppendAttempts \in Nat \ {0}

-------------------------------------------------------------------------------
(***************************************************************************)
(* Plans                                                                   *)
(***************************************************************************)

PublishPlan(f) ==
  [action |-> "publish", of |-> f, effects |-> DOMAIN AfterEffect[f]]

ReversalPlan(a, f, S) == [action |-> a, of |-> f, effects |-> S]

Reversible(f, a) == {i \in DOMAIN AfterEffect[f] : AfterEffect[f][i] = a}

EffectIndexes == UNION {DOMAIN AfterEffect[f] : f \in Forward}

ReversalPlans ==
  {x \in [action : ReversalActions, of : Forward,
          effects : SUBSET EffectIndexes] :
     x.effects # {} /\ x.effects \subseteq Reversible(x.of, x.action)}

Plans == {PublishPlan(f) : f \in Forward} \cup ReversalPlans

(* What `job` holds while no call is running.                              *)
AnyPlan == CHOOSE x \in Plans : TRUE

IsReversal(x) == x.action # "publish"
Parent(x)     == PublishPlan(x.of)

(* Effects are attempted in plan order.                                    *)
NextEffect(x, d) ==
  CHOOSE i \in x.effects \ d : \A j \in x.effects \ d : i <= j

-------------------------------------------------------------------------------
VARIABLES
  (* the store *)
  plans,      \* persisted publication plans
  consumed,   \* plans holding an authorization consumption
  headers,    \* plans holding an intervention header
  members,    \* plans holding a scope membership record
  stream,     \* stream[x]: transition stream of the intervention of plan x
  receipts,   \* receipts[x]: effects of x with a durable receipt
  (* the destination *)
  applied,    \* applied[x]: effects of x in force under their idempotency key
  (* each publish call *)
  pc,         \* its next step, "idle" when no call is running
  job,        \* the plan it publishes
  stage,      \* the edge its append loop is writing
  tries,      \* conflicts the append loop has met
  rev,        \* stream revision the append loop read
  done,       \* receipts collected so far
  mode,       \* entry status: "published" or "resumed"
  active,     \* activity > 0
  outcome     \* how the last call of this host ended

store == <<plans, consumed, headers, members, stream, receipts>>
local == <<job, stage, tries, rev, done, mode, active, outcome>>
vars  == <<plans, consumed, headers, members, stream, receipts, applied,
           pc, job, stage, tries, rev, done, mode, active, outcome>>

Stages   == {"authorize", "fail", "parent", "publish"}
Steps    == {"idle", "resume", "check", "authority", "header", "membership",
             "read", "append", "verify", "effect", "apply", "receipt",
             "before", "final"}
(* "refused" stands for pending, denied and blocked: a status returned      *)
(* before this call wrote anything.                                        *)
Outcomes == {"none", "published", "resumed", "no_op", "refused", "failed",
             "store.corrupt", "store.conflict"}

(* One entry of a transition stream; cites and by are its evidence: the    *)
(* receipts of a publish or fail edge, and the plan whose consumption or   *)
(* reversal intervention caused it.                                        *)
Transition == [from : InterventionState, to : InterventionState,
               cites : SUBSET Nat, by : Plans]

-------------------------------------------------------------------------------
(***************************************************************************)
(* The fold                                                                *)
(***************************************************************************)

StateAt(x, n) == IF n = 0 THEN InitialState ELSE stream[x][n].to
CurrentState(x) == StateAt(x, Len(stream[x]))

(* A header whose stream is empty is an unborn remnant that reads absent.  *)
Born(x) == x \in headers /\ stream[x] # << >>

(* publicationReceiptIds of the folded record.                             *)
Cited(x) == UNION {stream[x][k].cites : k \in DOMAIN stream[x]}

-------------------------------------------------------------------------------
(***************************************************************************)
(* Reversals                                                               *)
(***************************************************************************)

ReversalIllegal(s) == ~Applied(s) /\ s.publication # "rolled_back"

ReversalAlready(a, s) ==
  \/ s.publication = "rolled_back"
  \/ a # "rollback" /\ Applied(s) /\ s.activation = "disabled"

Permitted(a, s) == ~ReversalIllegal(s) /\ ~ReversalAlready(a, s)

ReversedState(a, s) ==
  IF a = "rollback"
    THEN [s EXCEPT !.publication = "rolled_back", !.activation = "disabled"]
    ELSE [s EXCEPT !.activation = "disabled"]

(* The effects a reversal plan prepared now would carry.                   *)
DerivedEffects(a, f) == Reversible(f, a) \cap Cited(PublishPlan(f))

ParentReady(x) ==
  /\ Born(Parent(x))
  /\ Permitted(x.action, CurrentState(Parent(x)))
  /\ x.effects \subseteq Cited(Parent(x))

-------------------------------------------------------------------------------
(***************************************************************************)
(* The states an append loop asks for                                      *)
(***************************************************************************)

(* Mutant: publish takes the guard of fail.                                *)
SatisfiedOnceFailed(st, x, s) ==
  \/ st = "authorize" /\ s.authorization # "pending"
  \/ st \in {"fail", "publish"} /\ s.publication # "unpublished"
  \/ st = "parent"    /\ ReversalAlready(x.action, s)

(* `next` answered undefined: the stream already reflects the fact.        *)
Satisfied(st, x, s) ==
  \/ st = "authorize" /\ s.authorization # "pending"
  \/ st = "fail"      /\ s.publication # "unpublished"
  \/ st = "parent"    /\ ReversalAlready(x.action, s)
  \/ st = "publish"   /\ s.publication = "published"

ActivationOf(x) ==
  IF x.action = "publish" /\ EffectClass[x.of] # "proposal"
    THEN "active" ELSE "inactive"

Wanted(st, x, s) ==
  CASE st = "authorize" -> [s EXCEPT !.authorization = "authorized"]
    [] st = "fail"      -> [s EXCEPT !.publication = "failed"]
    [] st = "parent"    -> ReversedState(x.action, s)
    [] st = "publish"   -> [s EXCEPT !.publication = "published",
                                     !.activation = ActivationOf(x)]

Appendable(st, x, s) ==
  /\ st = "parent" => ~ReversalIllegal(s)
  /\ LegalEdge(s, Wanted(st, x, s))

(* The stream the loop of host h writes.                                   *)
Target(h) == IF stage[h] = "parent" THEN Parent(job[h]) ELSE job[h]

-------------------------------------------------------------------------------
(***************************************************************************)
(* preparePublication                                                      *)
(***************************************************************************)

(* A publish plan; governance, adapter and content refusals are simply the *)
(* action not taken.  Persisting is create-only under the content digest.  *)
Prepare(f) ==
  /\ plans' = plans \cup {PublishPlan(f)}
  /\ UNCHANGED <<consumed, headers, members, stream, receipts, applied, pc>>
  /\ UNCHANGED local

(* A reversal of the intervention of f, named or located in its scope.     *)
PrepareReversal(f, a) ==
  /\ Born(PublishPlan(f))
  /\ Permitted(a, CurrentState(PublishPlan(f)))
  /\ DerivedEffects(a, f) # {}
  /\ plans' = plans \cup {ReversalPlan(a, f, DerivedEffects(a, f))}
  /\ UNCHANGED <<consumed, headers, members, stream, receipts, applied, pc>>
  /\ UNCHANGED local

-------------------------------------------------------------------------------
(***************************************************************************)
(* publish: control                                                        *)
(***************************************************************************)

Goto(h, step) == pc' = [pc EXCEPT ![h] = step]

(* The call of h returns (or throws) o; its locals are gone.               *)
Finish(h, o) ==
  /\ Goto(h, "idle")
  /\ outcome' = [outcome EXCEPT ![h] = o]
  /\ stage'   = [stage   EXCEPT ![h] = "authorize"]
  /\ tries'   = [tries   EXCEPT ![h] = 0]
  /\ rev'     = [rev     EXCEPT ![h] = 0]
  /\ done'    = [done    EXCEPT ![h] = {}]
  /\ mode'    = [mode    EXCEPT ![h] = "resumed"]
  /\ active'  = [active  EXCEPT ![h] = FALSE]
  /\ job'     = [job     EXCEPT ![h] = AnyPlan]

(* Enter the append loop that writes edge st.                              *)
StartAppend(h, st) ==
  /\ Goto(h, "read")
  /\ stage' = [stage EXCEPT ![h] = st]
  /\ tries' = [tries EXCEPT ![h] = 0]

(* Mutant: a reversal forgets its parent.                                  *)
AfterReceiptNoParent(h, d) ==
  /\ done' = [done EXCEPT ![h] = d]
  /\ Goto(h, IF d # job[h].effects THEN "effect" ELSE "before")
  /\ UNCHANGED <<stage, tries>>

(* The receipts d are in hand: the next effect, or what follows the last.  *)
AfterReceipt(h, d) ==
  /\ done' = [done EXCEPT ![h] = d]
  /\ \/ d # job[h].effects /\ Goto(h, "effect") /\ UNCHANGED <<stage, tries>>
     \/ /\ d = job[h].effects /\ IsReversal(job[h])
        /\ StartAppend(h, "parent")
     \/ /\ d = job[h].effects /\ ~IsReversal(job[h])
        /\ Goto(h, "before") /\ UNCHANGED <<stage, tries>>

(* The append loop returned: what completeJournal does next.               *)
AfterAppend(h) ==
  \/ stage[h] = "fail" /\ Finish(h, "failed")
  \/ /\ stage[h] # "fail"
     /\ Goto(h, CASE stage[h] = "authorize" -> "effect"
                  [] stage[h] = "parent"    -> "before"
                  [] stage[h] = "publish"   -> "final")
     /\ tries' = [tries EXCEPT ![h] = 0]
     /\ rev'   = [rev   EXCEPT ![h] = 0]
     /\ UNCHANGED <<job, stage, done, mode, active, outcome>>

-------------------------------------------------------------------------------
(***************************************************************************)
(* publish: the fresh path and the resume path                             *)
(***************************************************************************)

(* Load the plan and look for its consumption.                             *)
Begin(h, x) ==
  /\ pc[h] = "idle" /\ x \in plans
  /\ Goto(h, IF x \in consumed THEN "resume" ELSE "check")
  /\ job' = [job EXCEPT ![h] = x]
  /\ outcome' = [outcome EXCEPT ![h] = "none"]
  /\ UNCHANGED <<store, applied, stage, tries, rev, done, mode, active>>

(* Mutant: an authorized journal is taken for a complete one.              *)
ResumeAuthorized(h) ==
  /\ pc[h] = "resume"
  /\ UNCHANGED <<store, applied>>
  /\ \/ CurrentState(job[h]).authorization = "authorized" /\ Finish(h, "no_op")
     \/ /\ CurrentState(job[h]).authorization # "authorized"
        /\ Goto(h, "header") /\ UNCHANGED local

(* A consumed plan: blocked while its destination is not registered as it  *)
(* was bound, done if the fold says published, resumed otherwise.          *)
Resume(h) ==
  /\ pc[h] = "resume"
  /\ UNCHANGED <<store, applied>>
  /\ \/ Finish(h, "refused")
     \/ CurrentState(job[h]).publication = "published" /\ Finish(h, "no_op")
     \/ /\ CurrentState(job[h]).publication # "published"
        /\ Goto(h, "header") /\ UNCHANGED local

(* Drift, governance, supersession or a missing authority block; a reversal *)
(* is blocked by its parent's state.                                        *)
Check(h) ==
  /\ pc[h] = "check"
  /\ UNCHANGED <<store, applied>>
  /\ \/ Finish(h, "refused")
     \/ /\ IsReversal(job[h]) => ParentReady(job[h])
        /\ Goto(h, "authority") /\ UNCHANGED local

(* Mutant: a conflicting consumption is taken for this call's own.         *)
AuthorityOwnsConflict(h) ==
  /\ pc[h] = "authority"
  /\ consumed' = consumed \cup {job[h]}
  /\ Goto(h, "header")
  /\ mode' = [mode EXCEPT ![h] = "published"]
  /\ active' = [active EXCEPT ![h] = TRUE]
  /\ UNCHANGED <<plans, headers, members, stream, receipts, applied, job,
                 stage, tries, rev, done, outcome>>

(* The host authority answers; a usable authorization is consumed at once, *)
(* create-only, and the first consumer owns the journal.                   *)
Authority(h) ==
  /\ pc[h] = "authority"
  /\ \/ /\ Finish(h, "refused")
        /\ UNCHANGED <<store, applied>>
     \/ /\ consumed' = consumed \cup {job[h]}
        /\ Goto(h, "header")
        /\ mode' = [mode EXCEPT ![h] =
                      IF job[h] \in consumed THEN "resumed" ELSE "published"]
        /\ active' = [active EXCEPT ![h] = job[h] \notin consumed]
        /\ UNCHANGED <<plans, headers, members, stream, receipts, applied, job,
                       stage, tries, rev, done, outcome>>

-------------------------------------------------------------------------------
(***************************************************************************)
(* completeJournal                                                         *)
(***************************************************************************)

EnsureHeader(h) ==
  /\ pc[h] = "header"
  /\ headers' = headers \cup {job[h]}
  /\ Goto(h, "membership")
  /\ UNCHANGED <<plans, consumed, members, stream, receipts, applied, job,
                 stage, tries, rev, done, mode, active, outcome>>

(* Mutant: the membership record is written by nobody.                     *)
EnsureMembershipSkipped(h) ==
  /\ pc[h] = "membership"
  /\ StartAppend(h, "authorize")
  /\ UNCHANGED <<store, applied, job, rev, done, mode, active, outcome>>

EnsureMembership(h) ==
  /\ pc[h] = "membership"
  /\ members' = members \cup {job[h]}
  /\ StartAppend(h, "authorize")
  /\ UNCHANGED <<plans, consumed, headers, stream, receipts, applied, job,
                 rev, done, mode, active, outcome>>

(* appendInterventionTransition: reload, ask for the next state, refuse an *)
(* edge outside the table.                                                 *)
ReadStream(h) ==
  LET s == CurrentState(Target(h))
  IN  /\ pc[h] = "read"
      /\ UNCHANGED <<store, applied>>
      /\ \/ Satisfied(stage[h], job[h], s) /\ AfterAppend(h)
         \/ /\ ~Satisfied(stage[h], job[h], s)
            /\ ~Appendable(stage[h], job[h], s)
            /\ Finish(h, "store.corrupt")
         \/ /\ ~Satisfied(stage[h], job[h], s)
            /\ Appendable(stage[h], job[h], s)
            /\ rev' = [rev EXCEPT ![h] = Len(stream[Target(h)])]
            /\ Goto(h, "append")
            /\ UNCHANGED <<job, stage, tries, done, mode, active, outcome>>

(* Mutant: the publish edge does not cite the receipts.                    *)
EdgeUncited(h) ==
  LET from == StateAt(Target(h), rev[h])
  IN  [from  |-> from,
       to    |-> Wanted(stage[h], job[h], from),
       cites |-> IF stage[h] = "fail" THEN done[h] ELSE {},
       by    |-> job[h]]

Edge(h) ==
  LET from == StateAt(Target(h), rev[h])
  IN  [from  |-> from,
       to    |-> Wanted(stage[h], job[h], from),
       cites |-> IF stage[h] \in {"fail", "publish"} THEN done[h] ELSE {},
       by    |-> job[h]]

(* Mutant: append without an expected revision.                            *)
AppendEdgeUnconditional(h) ==
  /\ pc[h] = "append"
  /\ stream' = [stream EXCEPT ![Target(h)] = Append(@, Edge(h))]
  /\ Goto(h, "verify")
  /\ UNCHANGED <<plans, consumed, headers, members, receipts, applied>>
  /\ UNCHANGED <<job, stage, tries, rev, done, mode, active, outcome>>

(* Append at the expected revision; a conflict reloads, a bounded number   *)
(* of times.  A contender may have written the very same edge at the same  *)
(* instant: the store then answers exists_same and writes nothing.         *)
AppendEdge(h) ==
  /\ pc[h] = "append"
  /\ UNCHANGED <<plans, consumed, headers, members, receipts, applied>>
  /\ \/ /\ Len(stream[Target(h)]) = rev[h]
        /\ stream' = [stream EXCEPT ![Target(h)] = Append(@, Edge(h))]
        /\ Goto(h, "verify")
        /\ UNCHANGED <<job, stage, tries, rev, done, mode, active, outcome>>
     \/ /\ Len(stream[Target(h)]) = rev[h] + 1
        /\ stream[Target(h)][rev[h] + 1] = Edge(h)
        /\ UNCHANGED stream
        /\ Goto(h, "verify")
        /\ UNCHANGED <<job, stage, tries, rev, done, mode, active, outcome>>
     \/ /\ Len(stream[Target(h)]) # rev[h]
        /\ UNCHANGED stream
        /\ \/ /\ tries[h] + 1 < MaxAppendAttempts
              /\ tries' = [tries EXCEPT ![h] = @ + 1]
              /\ Goto(h, "read")
              /\ UNCHANGED <<job, stage, rev, done, mode, active, outcome>>
           \/ /\ tries[h] + 1 >= MaxAppendAttempts
              /\ Finish(h, "store.conflict")

(* The acknowledged edge must still be the head.                           *)
VerifyHead(h) ==
  /\ pc[h] = "verify"
  /\ UNCHANGED <<store, applied>>
  /\ \/ CurrentState(Target(h)) = Edge(h).to /\ AfterAppend(h)
     \/ CurrentState(Target(h)) # Edge(h).to /\ Finish(h, "store.corrupt")

(* Mutant: an existing receipt is not collected.                           *)
LoadReceiptDropped(h) ==
  /\ pc[h] = "effect"
  /\ Goto(h, IF NextEffect(job[h], done[h]) \in receipts[job[h]]
               THEN "effect" ELSE "apply")
  /\ UNCHANGED local
  /\ UNCHANGED <<store, applied>>

(* applyOneEffect: a durable receipt is never re-applied.                  *)
LoadReceipt(h) ==
  LET i == NextEffect(job[h], done[h])
  IN  /\ pc[h] = "effect"
      /\ UNCHANGED <<store, applied>>
      /\ \/ /\ i \in receipts[job[h]]
            /\ AfterReceipt(h, done[h] \cup {i})
            /\ UNCHANGED <<job, rev, mode, active, outcome>>
         \/ /\ i \notin receipts[job[h]]
            /\ Goto(h, "apply") /\ UNCHANGED local

(* The destination acknowledges; a repeated key is answered from memory.   *)
ApplyEffect(h) ==
  /\ pc[h] = "apply"
  /\ applied' = [applied EXCEPT ![job[h]] = @ \cup {NextEffect(job[h], done[h])}]
  /\ Goto(h, "receipt")
  /\ UNCHANGED <<store, job, stage, tries, rev, done, mode, active, outcome>>

(* The adapter throws or returns a receipt that does not prove the effect, *)
(* having applied it or not; recordFailure appends the fail edge.          *)
FailEffect(h) ==
  /\ pc[h] = "apply"
  /\ \/ UNCHANGED applied
     \/ applied' = [applied EXCEPT ![job[h]] = @ \cup {NextEffect(job[h], done[h])}]
  /\ StartAppend(h, "fail")
  /\ UNCHANGED <<store, job, rev, done, mode, active, outcome>>

StoreReceipt(h) ==
  LET i == NextEffect(job[h], done[h])
  IN  /\ pc[h] = "receipt"
      /\ receipts' = [receipts EXCEPT ![job[h]] = @ \cup {i}]
      /\ active' = [active EXCEPT ![h] = TRUE]
      /\ AfterReceipt(h, done[h] \cup {i})
      /\ UNCHANGED <<plans, consumed, headers, members, stream, applied, job,
                     rev, mode, outcome>>

(* The fold read that decides whether the publish edge counts as activity. *)
ReadBefore(h) ==
  /\ pc[h] = "before"
  /\ active' = [active EXCEPT ![h] =
                  @ \/ CurrentState(job[h]).publication # "published"]
  /\ StartAppend(h, "publish")
  /\ UNCHANGED <<store, applied, job, rev, done, mode, outcome>>

ReadFinal(h) ==
  /\ pc[h] = "final"
  /\ UNCHANGED <<store, applied>>
  /\ \/ /\ CurrentState(job[h]).publication = "published"
        /\ Finish(h, IF active[h] THEN mode[h] ELSE "no_op")
     \/ /\ CurrentState(job[h]).publication # "published"
        /\ Finish(h, "store.corrupt")

(* The host dies between two steps.                                        *)
Crash(h) ==
  /\ pc[h] # "idle"
  /\ Finish(h, "none")
  /\ UNCHANGED <<store, applied>>

-------------------------------------------------------------------------------
Init ==
  /\ plans = {} /\ consumed = {} /\ headers = {} /\ members = {}
  /\ stream   = [x \in Plans |-> << >>]
  /\ receipts = [x \in Plans |-> {}]
  /\ applied  = [x \in Plans |-> {}]
  /\ pc       = [h \in Hosts |-> "idle"]
  /\ job      = [h \in Hosts |-> AnyPlan]
  /\ stage    = [h \in Hosts |-> "authorize"]
  /\ tries    = [h \in Hosts |-> 0]
  /\ rev      = [h \in Hosts |-> 0]
  /\ done     = [h \in Hosts |-> {}]
  /\ mode     = [h \in Hosts |-> "resumed"]
  /\ active   = [h \in Hosts |-> FALSE]
  /\ outcome  = [h \in Hosts |-> "none"]

(* One step of a running call.                                             *)
Step(h) ==
  \/ Resume(h) \/ Check(h) \/ Authority(h)
  \/ EnsureHeader(h) \/ EnsureMembership(h)
  \/ ReadStream(h) \/ AppendEdge(h) \/ VerifyHead(h)
  \/ LoadReceipt(h) \/ ApplyEffect(h) \/ FailEffect(h) \/ StoreReceipt(h)
  \/ ReadBefore(h) \/ ReadFinal(h)

Next ==
  \/ \E f \in Forward : Prepare(f)
  \/ \E f \in Forward, a \in ReversalActions : PrepareReversal(f, a)
  \/ \E h \in Hosts, x \in Plans : Begin(h, x)
  \/ \E h \in Hosts : Step(h) \/ Crash(h)

Spec == Init /\ [][Next]_vars

-------------------------------------------------------------------------------
(***************************************************************************)
(* Safety                                                                  *)
(***************************************************************************)

TypeOK ==
  /\ plans \subseteq Plans /\ consumed \subseteq Plans
  /\ headers \subseteq Plans /\ members \subseteq Plans
  /\ stream   \in [Plans -> Seq(Transition)]
  /\ receipts \in [Plans -> SUBSET Nat]
  /\ applied  \in [Plans -> SUBSET Nat]
  /\ pc       \in [Hosts -> Steps]
  /\ job      \in [Hosts -> Plans]
  /\ stage    \in [Hosts -> Stages]
  /\ tries    \in [Hosts -> 0..(MaxAppendAttempts - 1)]
  /\ rev      \in [Hosts -> Nat]
  /\ done     \in [Hosts -> SUBSET Nat]
  /\ mode     \in [Hosts -> {"published", "resumed"}]
  /\ active   \in [Hosts -> BOOLEAN]
  /\ outcome  \in [Hosts -> Outcomes]

(* The journal's fixed write order (decision 0026, ruling 5), at every     *)
(* crash point and for every number of concurrent callers: a header needs  *)
(* the consumption, a membership the header, a transition the membership,  *)
(* an effect at the destination the durable authorize edge, and a receipt  *)
(* the effect.                                                             *)
WriteOrder ==
  /\ consumed \subseteq plans
  /\ headers \subseteq consumed
  /\ members \subseteq headers
  /\ \A x \in Plans :
       /\ stream[x] # << >> => x \in members
       /\ applied[x] # {} => CurrentState(x).authorization = "authorized"
       /\ receipts[x] \subseteq applied[x]

(* Effects reach the destination in plan order, each only after the        *)
(* receipts of all earlier ones are durable.                               *)
PlanOrder ==
  \A x \in Plans : \A i \in applied[x], j \in x.effects :
    j < i => j \in receipts[x]

(* A stream never refuses to be read back (transitionEntries, foldRecord): *)
(* every entry continues the one before it, is an edge of the table,       *)
(* carries the evidence its kind requires, and cites only durable receipts *)
(* of its own plan.                                                        *)
StreamsReadable ==
  \A x \in Plans : \A k \in DOMAIN stream[x] :
    LET e == stream[x][k]
    IN  /\ e.from = StateAt(x, k - 1)
        /\ LegalEdge(e.from, e.to)
        /\ Publishes(e.from, e.to) => e.cites # {}
        /\ e.cites \subseteq receipts[x]

(* A publish edge is last: once a stream holds one, every effect of the    *)
(* plan is in force with a durable receipt, and the edge cites them all.   *)
PublishedIsComplete ==
  \A x \in Plans : \A k \in DOMAIN stream[x] :
    Publishes(stream[x][k].from, stream[x][k].to) =>
      /\ stream[x][k].cites = x.effects
      /\ receipts[x] = x.effects

(* Nothing deactivates an intervention but a consumed reversal of it, and  *)
(* only after every effect of the reversal is in force at the destination: *)
(* a parent is never recorded disabled or rolled back ahead of the fact.   *)
ReversalEffectsFirst ==
  \A x \in Plans : \A k \in DOMAIN stream[x] :
    LET e == stream[x][k]
    IN  Disables(e.from, e.to) \/ RollsBack(e.from, e.to) =>
          /\ IsReversal(e.by) /\ Parent(e.by) = x
          /\ e.by \in consumed
          /\ receipts[e.by] = e.by.effects
          /\ e.to.publication = "rolled_back" <=> e.by.action = "rollback"

(* The parent's edge precedes the child's publish edge (ruling 12): when a *)
(* reversal is published its parent already is at or beyond the state the  *)
(* action asks for, whatever other reversal won the race.                  *)
ReversalReachesParent ==
  \A x \in Plans :
    IsReversal(x) /\ CurrentState(x).publication = "published" =>
      /\ CurrentState(Parent(x)).activation = "disabled"
      /\ x.action = "rollback" =>
           CurrentState(Parent(x)).publication = "rolled_back"

(* Two concurrent publishes of one plan converge on one journal: at most   *)
(* one call owns it as fresh (ruling 9: one reports published, the other   *)
(* resumed), and only of a consumed plan.                                  *)
OneFreshOwner ==
  \A h \in Hosts : mode[h] = "published" =>
    /\ job[h] \in consumed
    /\ \A g \in Hosts \ {h} : mode[g] = "published" => job[g] # job[h]

(* A call that reports a completed journal tells the truth: the plan's     *)
(* publish edge is durable and every effect has its receipt, even if a     *)
(* contender did the work or a reversal has overtaken it since.            *)
CompletionTruthful ==
  [][\A h \in Hosts :
       outcome'[h] \in {"published", "resumed", "no_op"} /\ outcome[h] = "none" =>
         /\ receipts[job[h]] = job[h].effects
         /\ \E k \in DOMAIN stream[job[h]] :
              Publishes(stream[job[h]][k].from, stream[job[h]][k].to)]_vars

(* The streams implement the abstract lifecycles: seen through its fold,   *)
(* every intervention walks the legal-transition table from the initial    *)
(* state, one edge per durable append.                                     *)
Lifecycle == INSTANCE Intervention
  WITH Interventions <- Plans, state <- [x \in Plans |-> CurrentState(x)]

ImplementsLifecycle == Lifecycle!Spec

-------------------------------------------------------------------------------
(***************************************************************************)
(* A statement of the decision records the protocol does not meet          *)
(***************************************************************************)

(* "No API abandons a journal: a failed intervention is either resumed or  *)
(* reversed": once its fold says disabled or rolled back, no further       *)
(* effect of the plan reaches the destination.                             *)
NoEffectAfterReversal ==
  [][\A x \in Plans :
       CurrentState(x).activation = "disabled" => applied'[x] = applied[x]]_vars

-------------------------------------------------------------------------------
(***************************************************************************)
(* Liveness                                                                *)
(***************************************************************************)

(* A host that does not crash keeps executing its call.                    *)
RunFairness == \A h \in Hosts : WF_vars(Step(h))

FairSpec == Spec /\ RunFairness

(* Every call returns, refuses or dies: no append loop or effect loop runs *)
(* for ever, whatever the contenders do.                                   *)
CallsReturn == \A h \in Hosts : pc[h] # "idle" ~> pc[h] = "idle"

(* Faults: a crash, a failing adapter, a destination not registered as the *)
(* plan bound it.                                                          *)
Fault(h) ==
  \/ Crash(h) \/ FailEffect(h)
  \/ Resume(h) /\ outcome'[h] = "refused"

Settled(x) ==
  \/ CurrentState(x).publication = "published"
  \/ CurrentState(x).activation = "disabled"

Retry(h, x) == x \in consumed /\ ~Settled(x) /\ Begin(h, x)

(* Faults cease, and some host keeps retrying a half-applied plan (a failed *)
(* outcome says "the same plan may be retried").                           *)
RecoverySpec ==
  /\ FairSpec
  /\ <>[][\A h \in Hosts : ~Fault(h)]_vars
  /\ \A x \in Plans : SF_vars(\E h \in Hosts : Retry(h, x))

(* No half-applied plan is stranded: whatever crashed or failed before, a  *)
(* consumed plan ends published or reversed.                               *)
NeverStranded == \A x \in Plans : x \in consumed ~> Settled(x)

===============================================================================
