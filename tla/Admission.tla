------------------------------ MODULE Admission ------------------------------
(***************************************************************************)
(* Serialized recurrence admission (engine/propose.ts,                     *)
(* engine/recurrence-admission.ts and its records): hosts propose          *)
(* derivation-backed candidates of one recurrence group, in a loop that    *)
(* has a detector-orchestration policy.  A candidate's receipt is the last *)
(* of eight durable writes; a per-group stream of slots, extended by       *)
(* compare-and-set, decides who is admitted.  Every store write is an      *)
(* action, a host may crash between any two, and whoever comes next        *)
(* completes a slot that was won but not finished.                         *)
(*                                                                         *)
(* Data is abstracted: a digest is the value it digests; the evidence of   *)
(* the group is its number of distinct episodes; a scope is the group's.   *)
(* Store operations verify what they wrote; the store is taken to keep it. *)
(***************************************************************************)
EXTENDS Naturals, Sequences, FiniteSets

CONSTANTS
  Hosts,              \* concurrent propose calls
  Proposals,          \* what a caller may propose: [id, content, supersedes]
  Instants,           \* readings of the clock a proposal is stamped with
  None,               \* an absent id or record
  Multiplier,         \* minimumDistinctEpisodeMultiplier, 0 when disabled
  MaxSlotAttempts,    \* slot attempts of one call (8 in the code)
  MaxSlots,           \* MAX_ADMISSION_SLOTS (5000 in the code)
  Dispositions,       \* what reviewers answer
  Reviewed,           \* bound: the candidates they look at
  MaxEpisodes,        \* bound: distinct episodes of the group
  MaxReviews          \* bound: reviews of one candidate

ASSUME ProposalAssumption ==
  \A p \in Proposals :
    /\ DOMAIN p = {"id", "content", "supersedes"}
    /\ p.id # None /\ p.content # None /\ p.supersedes # p.id
ASSUME DispositionAssumption ==
  Dispositions \subseteq {"accept", "escalate", "revise", "reject"}
ASSUME BoundAssumption ==
  /\ MaxSlotAttempts \in Nat \ {0} /\ MaxSlots \in Nat \ {0}
  /\ MaxEpisodes \in Nat \ {0} /\ MaxReviews \in Nat /\ Multiplier \in Nat

-------------------------------------------------------------------------------
(***************************************************************************)
(* Records                                                                 *)
(***************************************************************************)

Ids      == {p.id : p \in Proposals} \cup
            ({p.supersedes : p \in Proposals} \ {None})
Contents == {p.content : p \in Proposals}

(* A candidate with its recurrence claim: proposed at an instant, when the *)
(* group held that many distinct episodes.                                 *)
Claim == [id : Ids, content : Contents, supersedes : Ids \cup {None},
          at : Instants, episodes : 1..MaxEpisodes]

(* What an admission was decided on: the stream's length, the group's      *)
(* episodes, the one required predecessor and its governing review.        *)
Snapshot == [head : 0..MaxSlots, episodes : 1..MaxEpisodes,
             predecessor : Ids \cup {None}, review : 0..MaxReviews]

Reservation == [claim : Claim, snapshot : Snapshot]

ASSUME AbsenceAssumption == None \notin Claim \cup Reservation \cup Snapshot
ASSUME ReviewedAssumption == Reviewed \subseteq Ids

Review == [disposition : Dispositions, recorded : BOOLEAN]

(* What is stored under a candidate's id, its content or its group.        *)
Claims   == [Ids -> Claim \cup {None}]
Locks    == [Contents -> Claim \cup {None}]
Indexes  == [Ids -> Seq(Review)]
Slots    == Seq(Reservation)
Bindings == [Ids -> Reservation \cup {None}]
Receipts == [Ids -> Claim \cup {None}]

VARIABLES
  (* the store *)
  claims,        \* candidate-recurrence-claim, by candidate id
  locks,         \* candidate-by-digest, by content: the owning claim
  markers,       \* ids whose review index holds its marker
  reviews,       \* the review index of each id; recorded: the review exists
  slots,         \* the group's admission stream
  bindings,      \* candidate-admission-binding, by candidate id
  members,       \* ids in the group's candidate stream
  scoped,        \* ids with a scope membership
  candidates,    \* candidate receipts, by id
  episodes,      \* distinct episodes the group's committed members hold
  (* each propose call *)
  pc,            \* its next step, "idle" when no call is running
  mine,          \* the candidate it proposes, with its claim
  phase,         \* "preflight", then "admit", "won" once its slot is in
  seen,          \* length of the stream its forward pass validated
  snap,          \* its admission snapshot
  target,        \* the reservation it is completing
  tries,         \* slots lost to a contender
  outcome        \* how the last call of this host ended

store == <<claims, locks, markers, slots, bindings, members,
           scoped, candidates>>
world == <<reviews, episodes>>
local == <<mine, phase, seen, snap, target, tries, outcome>>
vars  == <<claims, locks, markers, reviews, slots, bindings,
           members, scoped, candidates, episodes, pc, mine, phase, seen,
           snap, target, tries, outcome>>

Steps == {"idle", "forward", "complete", "member", "scope", "receipt",
          "prepare", "snapshot", "decide", "lock", "poll", "mark", "slot"}
Outcomes == {"none", "admitted", "duplicate", "refused", "store.conflict",
             "store.corrupt", "admission_limit", "admission_in_progress"}

Terminal(i) == candidates[i] # None

-------------------------------------------------------------------------------
(***************************************************************************)
(* Governance of the group (assessRecurrenceGroupGovernance and            *)
(* classifyAssessedRecurrenceGovernance)                                   *)
(***************************************************************************)

(* Members whose receipt exists and that no such member supersedes.        *)
Frontier ==
  LET current == {i \in members : Terminal(i)}
  IN  {i \in current : \A j \in current : claims[j].supersedes # i}

(* The last review of the index that has been recorded; 0 when none.       *)
LatestReview(i) ==
  LET R == {k \in DOMAIN reviews[i] : reviews[i][k].recorded}
  IN  IF R = {} THEN 0 ELSE CHOOSE k \in R : \A l \in R : l <= k

Disposition(i) ==
  IF LatestReview(i) = 0 THEN "none"
  ELSE reviews[i][LatestReview(i)].disposition

Deduplicates(i) == Disposition(i) \in {"none", "accept", "escalate"}

(* Mutant: a rejection never holds a successor back.                       *)
SuppressesNever(i) == FALSE

(* A rejected candidate holds its successors back until the group holds    *)
(* Multiplier times the episodes the rejected proposal had.                *)
Suppresses(i) ==
  /\ Disposition(i) = "reject" /\ Multiplier # 0
  /\ episodes < Multiplier * claims[i].episodes

(* reservationBasis: the frontier is available to a proposal superseding s.*)
Available(s) ==
  IF Frontier = {} THEN s = None
  ELSE /\ Frontier = {s}
       /\ ~Deduplicates(s) /\ ~Suppresses(s)

SnapshotFor(c, n) ==
  [head |-> n, episodes |-> episodes, predecessor |-> c.supersedes,
   review |-> IF c.supersedes = None THEN 0 ELSE LatestReview(c.supersedes)]

-------------------------------------------------------------------------------
(***************************************************************************)
(* One call                                                                *)
(***************************************************************************)

Goto(h, step) == pc' = [pc EXCEPT ![h] = step]

Finish(h, o) ==
  /\ Goto(h, "idle")
  /\ outcome' = [outcome EXCEPT ![h] = o]
  /\ mine'   = [mine EXCEPT ![h] = None]
  /\ phase'  = [phase EXCEPT ![h] = "preflight"]
  /\ seen'   = [seen EXCEPT ![h] = 0]
  /\ snap'   = [snap EXCEPT ![h] = None]
  /\ target' = [target EXCEPT ![h] = None]
  /\ tries'  = [tries EXCEPT ![h] = 0]

(* prepareCandidateRecurrenceClaim: p as a candidate proposed at t.        *)
Stamped(p, t) == [id |-> p.id, content |-> p.content,
                  supersedes |-> p.supersedes, at |-> t, episodes |-> episodes]

(* runPropose up to the admission: a retry whose claim is anchored goes on *)
(* with the anchored candidate, anything else is stamped afresh.           *)
Begin(h, p) ==
  LET c == claims[p.id]
      anchored == c # None
  IN
  /\ pc[h] = "idle"
  /\ IF anchored /\ \/ c.content # p.content \/ c.supersedes # p.supersedes
                    \/ locks[c.content] # None /\ locks[c.content].id # c.id
     THEN Finish(h, "store.conflict")
     ELSE IF p.supersedes # None /\ ~Terminal(p.supersedes)
     THEN Finish(h, "refused")
     ELSE IF Terminal(p.id)
     THEN Finish(h, "duplicate")
     ELSE /\ \E t \in Instants :
               /\ anchored => t = c.at
               /\ mine' = [mine EXCEPT ![h] =
                    IF anchored THEN c ELSE Stamped(p, t)]
          /\ outcome' = [outcome EXCEPT ![h] = "none"]
          /\ Goto(h, "forward")
          /\ UNCHANGED <<phase, seen, snap, target, tries>>
  /\ UNCHANGED <<store, world>>

(* Mutant: a pending head is left for its own proposer.                    *)
ForwardPastHead(h) ==
  /\ pc[h] = "forward"
  /\ seen' = [seen EXCEPT ![h] = Len(slots)]
  /\ Goto(h, "prepare")
  /\ UNCHANGED <<store, world, mine, phase, snap, target, tries, outcome>>

(* forwardCompleteCandidateAdmissions: validate the stream; a last slot    *)
(* without a receipt is completed before anything is built on it.          *)
Forward(h) ==
  LET n == Len(slots)
  IN
  /\ pc[h] = "forward"
  /\ IF \E k \in 1..(n - 1) : ~Terminal(slots[k].claim.id)
     THEN Finish(h, "store.corrupt")
     ELSE /\ seen' = [seen EXCEPT ![h] = n]
          /\ IF n # 0 /\ ~Terminal(slots[n].claim.id)
             THEN /\ Goto(h, "complete")
                  /\ target' = [target EXCEPT ![h] = slots[n]]
             ELSE Goto(h, "prepare") /\ UNCHANGED target
          /\ UNCHANGED <<mine, phase, snap, tries, outcome>>
  /\ UNCHANGED <<store, world>>

(* prepareCandidateAdmission before its snapshot: did the forward pass, or *)
(* anyone else, complete this very candidate?  Is there room?              *)
Prepare(h) ==
  LET own == candidates[mine[h].id]
  IN
  /\ pc[h] = "prepare"
  /\ IF own # None
     THEN Finish(h, IF own = mine[h] THEN "duplicate" ELSE "store.corrupt")
     ELSE IF seen[h] >= MaxSlots
     THEN Finish(h, "admission_limit")
     ELSE /\ Goto(h, "snapshot")
          /\ UNCHANGED local
  /\ UNCHANGED <<store, world>>

(* buildStableCandidateAdmissionSnapshot and reservationBasis.  The two    *)
(* equal readings of append-only records hold at the instant between them. *)
(* A refusal may also come from evidence or derivation drift, or from a    *)
(* snapshot that keeps changing.                                           *)
TakeSnapshot(h) ==
  /\ pc[h] = "snapshot"
  /\ \/ Finish(h, "refused")
     \/ /\ Available(mine[h].supersedes)
        /\ snap' = [snap EXCEPT ![h] = SnapshotFor(mine[h], seen[h])]
        /\ Goto(h, IF phase[h] = "preflight" THEN "decide" ELSE "slot")
        /\ UNCHANGED <<mine, phase, seen, target, tries, outcome>>
  /\ UNCHANGED <<store, world>>

(* Mutant: the decision is put, not created.                               *)
DecideOverwrites(h) ==
  /\ pc[h] = "decide"
  /\ claims' = [claims EXCEPT ![mine[h].id] = mine[h]]
  /\ Goto(h, "lock")
  /\ UNCHANGED <<locks, markers, slots, bindings, members, scoped,
                 candidates, world, local>>

(* persistCandidateRecurrenceDecision: create-only by candidate id.        *)
Decide(h) ==
  LET i == mine[h].id
  IN
  /\ pc[h] = "decide"
  /\ IF claims[i] \notin {None, mine[h]}
     THEN Finish(h, "store.corrupt") /\ UNCHANGED claims
     ELSE /\ claims' = [claims EXCEPT ![i] = mine[h]]
          /\ Goto(h, "lock")
          /\ UNCHANGED local
  /\ UNCHANGED <<locks, markers, slots, bindings, members,
                 scoped, candidates, world>>

(* The content-ownership lock: create-only by content digest.  An own lock *)
(* is resumed, another proposal's is waited for.                           *)
Lock(h) ==
  LET owner == locks[mine[h].content]
  IN
  /\ pc[h] = "lock"
  /\ locks' = IF owner = None THEN [locks EXCEPT ![mine[h].content] = mine[h]]
              ELSE locks
  /\ IF owner # None /\ Terminal(owner.id)
     THEN Finish(h, "duplicate")
     ELSE IF owner \in {None, mine[h]}
     THEN Goto(h, "mark") /\ UNCHANGED local
     ELSE IF owner.id = mine[h].id
     THEN Finish(h, "store.corrupt")
     ELSE Goto(h, "poll") /\ UNCHANGED local
  /\ UNCHANGED <<claims, markers, slots, bindings, members,
                 scoped, candidates, world>>

(* The last of the eight reads of the owner's receipt.                     *)
Poll(h) ==
  /\ pc[h] = "poll"
  /\ Finish(h, IF Terminal(locks[mine[h].content].id) THEN "duplicate"
               ELSE "store.conflict")
  /\ UNCHANGED <<store, world>>

(* createClaimedCandidate and the entry of admitCandidateByRecurrence: a   *)
(* candidate completed meanwhile is the result; otherwise its review       *)
(* marker is ensured.                                                      *)
Mark(h) ==
  /\ pc[h] = "mark"
  /\ IF Terminal(mine[h].id)
     THEN Finish(h, "admitted") /\ UNCHANGED markers
     ELSE /\ markers' = markers \cup {mine[h].id}
          /\ phase' = [phase EXCEPT ![h] = "admit"]
          /\ Goto(h, "slot")
          /\ UNCHANGED <<mine, seen, snap, target, tries, outcome>>
  /\ UNCHANGED <<claims, locks, slots, bindings, members,
                 scoped, candidates, world>>

RetrySlot(h) ==
  /\ tries' = [tries EXCEPT ![h] = @ + 1]
  /\ snap' = [snap EXCEPT ![h] = None]
  /\ Goto(h, "forward")
  /\ UNCHANGED <<mine, phase, seen, target, outcome>>

(* A contender's slot came first: validate its stream and decide again.    *)
LoseSlot(h) ==
  IF tries[h] + 1 = MaxSlotAttempts THEN Finish(h, "admission_in_progress")
  ELSE RetrySlot(h)

WinSlot(h, r) ==
  /\ phase' = [phase EXCEPT ![h] = "won"]
  /\ target' = [target EXCEPT ![h] = r]
  /\ Goto(h, "complete")
  /\ UNCHANGED <<mine, seen, snap, tries, outcome>>

MyReservation(h) == [claim |-> mine[h], snapshot |-> snap[h]]

(* Mutant: the slot is appended to whatever the stream now is.             *)
SlotUnconditional(h) ==
  LET r == MyReservation(h)
  IN
  /\ pc[h] = "slot"
  /\ WinSlot(h, r)
  /\ slots' = IF \E k \in DOMAIN slots : slots[k] = r THEN slots
              ELSE Append(slots, r)
  /\ UNCHANGED <<claims, locks, markers, bindings, members, scoped,
                 candidates, world>>

(* The snapshot and the reservation are stored under their own digests,    *)
(* where nobody looks before a slot names them; then                       *)
(* appendCandidateAdmissionSlot: the slot bears the name of its snapshot,  *)
(* and the append expects the stream the forward pass validated.           *)
Slot(h) ==
  LET r == MyReservation(h)
  IN
  /\ pc[h] = "slot"
  /\ IF \E k \in DOMAIN slots : slots[k] = r
     THEN WinSlot(h, r) /\ UNCHANGED slots
     ELSE IF Len(slots) = seen[h]
     THEN WinSlot(h, r) /\ slots' = Append(slots, r)
     ELSE LoseSlot(h) /\ UNCHANGED slots
  /\ UNCHANGED <<claims, locks, markers, bindings, members, scoped,
                 candidates, world>>

-------------------------------------------------------------------------------
(***************************************************************************)
(* Completing a reservation that holds a slot                              *)
(***************************************************************************)

(* admissionSnapshotLineageIsExact: what the snapshot was decided on is    *)
(* still there.                                                            *)
LineageExact(s) ==
  /\ s.episodes <= episodes
  /\ s.predecessor # None =>
       /\ Terminal(s.predecessor)
       /\ s.review \in DOMAIN reviews[s.predecessor]
       /\ reviews[s.predecessor][s.review].recorded

(* The slot names r, it was decided on exactly the slots before it, and    *)
(* these are complete.                                                     *)
SlotExact(r) ==
  \E n \in DOMAIN slots :
    /\ slots[n] = r /\ r.snapshot.head = n - 1
    /\ \A k \in 1..(n - 1) : Terminal(slots[k].claim.id)

(* The decision and the content lock are those of the reserved candidate.  *)
BundleExact(r) ==
  /\ locks[r.claim.content] = r.claim
  /\ claims[r.claim.id] = r.claim

(* Everything completeAdmissionReservation and the forward pass read back  *)
(* before they go on with r; otherwise the call ends in store.corrupt.     *)
ChecksHold(r) ==
  LET i == r.claim.id
  IN
  /\ SlotExact(r) /\ BundleExact(r)
  /\ i \in markers
  /\ IF Terminal(i) THEN candidates[i] = r.claim /\ bindings[i] = r
     ELSE reviews[i] = << >> /\ LineageExact(r.snapshot)

(* After the candidate is there: a forward pass goes on with the caller's  *)
(* own proposal, the winner of the slot is done.                           *)
Completed(h) ==
  IF phase[h] = "won" THEN Finish(h, "admitted")
  ELSE /\ Goto(h, "prepare")
       /\ target' = [target EXCEPT ![h] = None]
       /\ UNCHANGED <<mine, phase, seen, snap, tries, outcome>>

(* completeAdmissionReservation up to its first write, the binding.        *)
Complete(h) ==
  LET r == target[h]
      i == r.claim.id
  IN
  /\ pc[h] = "complete"
  /\ IF ~ChecksHold(r) \/ bindings[i] \notin {None, r}
     THEN Finish(h, "store.corrupt") /\ UNCHANGED bindings
     ELSE IF Terminal(i)
     THEN Completed(h) /\ UNCHANGED bindings
     ELSE /\ bindings' = [bindings EXCEPT ![i] = r]
          /\ Goto(h, "member")
          /\ UNCHANGED local
  /\ UNCHANGED <<claims, locks, markers, slots, members,
                 scoped, candidates, world>>

(* Mutant: the group member is left out.                                   *)
MemberSkipped(h) ==
  /\ pc[h] = "member"
  /\ Goto(h, "scope")
  /\ UNCHANGED <<store, world, local>>

Member(h) ==
  /\ pc[h] = "member"
  /\ members' = members \cup {target[h].claim.id}
  /\ Goto(h, "scope")
  /\ UNCHANGED <<claims, locks, markers, slots, bindings,
                 scoped, candidates, world, local>>

Scope(h) ==
  /\ pc[h] = "scope"
  /\ scoped' = scoped \cup {target[h].claim.id}
  /\ Goto(h, "receipt")
  /\ UNCHANGED <<claims, locks, markers, slots, bindings,
                 members, candidates, world, local>>

Receipt(h) ==
  LET c == target[h].claim
  IN
  /\ pc[h] = "receipt"
  /\ IF candidates[c.id] \notin {None, c}
     THEN Finish(h, "store.corrupt") /\ UNCHANGED candidates
     ELSE candidates' = [candidates EXCEPT ![c.id] = c] /\ Completed(h)
  /\ UNCHANGED <<claims, locks, markers, slots, bindings,
                 members, scoped, world>>

Crash(h) == pc[h] # "idle" /\ Finish(h, "none") /\ UNCHANGED <<store, world>>

-------------------------------------------------------------------------------
(***************************************************************************)
(* The rest of the engine, as admission sees it                            *)
(***************************************************************************)

(* A committed pack run adds evidence of one more episode to the group.    *)
GrowGroup ==
  /\ episodes < MaxEpisodes
  /\ episodes' = episodes + 1
  /\ UNCHANGED <<store, reviews, pc, local>>

(* runReviewCandidate appends its reference to the review index, then      *)
(* creates the review: between the two, or if it dies there, the entry     *)
(* stands for a review that does not exist.                                *)
IndexReview(i) ==
  /\ Terminal(i) /\ Len(reviews[i]) < MaxReviews
  /\ \E d \in Dispositions :
       reviews' = [reviews EXCEPT ![i] =
                     Append(@, [disposition |-> d, recorded |-> FALSE])]
  /\ UNCHANGED <<store, episodes, pc, local>>

RecordReview(i) ==
  /\ \E k \in DOMAIN reviews[i] :
       /\ ~reviews[i][k].recorded
       /\ reviews' = [reviews EXCEPT ![i][k].recorded = TRUE]
  /\ UNCHANGED <<store, episodes, pc, local>>

-------------------------------------------------------------------------------
(***************************************************************************)
(* Specification                                                           *)
(***************************************************************************)

Init ==
  /\ claims = [i \in Ids |-> None]
  /\ locks = [c \in Contents |-> None]
  /\ markers = {}
  /\ reviews = [i \in Ids |-> << >>]
  /\ slots = << >>
  /\ bindings = [i \in Ids |-> None]
  /\ members = {}
  /\ scoped = {}
  /\ candidates = [i \in Ids |-> None]
  /\ episodes = 1
  /\ pc = [h \in Hosts |-> "idle"]
  /\ mine = [h \in Hosts |-> None]
  /\ phase = [h \in Hosts |-> "preflight"]
  /\ seen = [h \in Hosts |-> 0]
  /\ snap = [h \in Hosts |-> None]
  /\ target = [h \in Hosts |-> None]
  /\ tries = [h \in Hosts |-> 0]
  /\ outcome = [h \in Hosts |-> "none"]

Step(h) ==
  \/ Forward(h) \/ Prepare(h) \/ TakeSnapshot(h)
  \/ Decide(h) \/ Lock(h) \/ Poll(h) \/ Mark(h) \/ Slot(h)
  \/ Complete(h) \/ Member(h) \/ Scope(h) \/ Receipt(h)

World == GrowGroup \/ \E i \in Reviewed : IndexReview(i) \/ RecordReview(i)

Next ==
  \/ \E h \in Hosts :
       Step(h) \/ Crash(h) \/ \E p \in Proposals : Begin(h, p)
  \/ World

Spec == Init /\ [][Next]_vars

-------------------------------------------------------------------------------
(***************************************************************************)
(* Safety                                                                  *)
(***************************************************************************)

(* The values the store and the calls hold; a call never attempts more     *)
(* slots than it may and the stream never exceeds its ceiling.             *)
TypeOK ==
  /\ claims \in Claims
  /\ locks \in Locks
  /\ markers \subseteq Ids
  /\ reviews \in Indexes
  /\ slots \in Slots /\ Len(slots) <= MaxSlots
  /\ bindings \in Bindings
  /\ members \subseteq Ids /\ scoped \subseteq Ids
  /\ candidates \in Receipts
  /\ episodes \in 1..MaxEpisodes
  /\ pc \in [Hosts -> Steps]
  /\ mine \in [Hosts -> Claim \cup {None}]
  /\ phase \in [Hosts -> {"preflight", "admit", "won"}]
  /\ seen \in [Hosts -> 0..MaxSlots]
  /\ snap \in [Hosts -> Snapshot \cup {None}]
  /\ target \in [Hosts -> Reservation \cup {None}]
  /\ tries \in [Hosts -> 0..(MaxSlotAttempts - 1)]
  /\ outcome \in [Hosts -> Outcomes]

(* The receipt is last (decision 0018, ruling 12): a candidate that can be *)
(* read has its claim, lock, marker, slotted reservation, binding, group   *)
(* member and scope membership, all of one and the same proposal.          *)
ReceiptLast ==
  \A i \in Ids : Terminal(i) =>
    LET c == candidates[i]
    IN  /\ claims[i] = c /\ locks[c.content] = c
        /\ i \in markers /\ i \in members /\ i \in scoped
        /\ bindings[i].claim = c
        /\ \E k \in DOMAIN slots : slots[k] = bindings[i]

(* Every reservation that won a slot can be completed: whoever is about to *)
(* complete one finds all that completion verifies, so a crash after the   *)
(* slot never strands the group behind a corrupt head.                     *)
SlotCompletable ==
  \A k \in DOMAIN slots : ChecksHold(slots[k])

(* Rejection binds: an admitted successor has a predecessor whose review   *)
(* asked for it, and a rejected predecessor only yields to the evidence    *)
(* the policy demands.                                                     *)
OverrideEarned ==
  \A i \in Ids : Terminal(i) /\ candidates[i].supersedes # None =>
    LET s == bindings[i].snapshot
        p == candidates[i].supersedes
        d == reviews[p][s.review]
    IN  /\ s.predecessor = p /\ s.review # 0 /\ d.recorded
        /\ \/ d.disposition = "revise"
           \/ /\ d.disposition = "reject"
              /\ Multiplier = 0 \/
                   s.episodes >= Multiplier * candidates[p].episodes

(* The slots up to the last whose candidate has its receipt.               *)
Admitted ==
  {k \in DOMAIN slots :
     \E n \in DOMAIN slots : k <= n /\ Terminal(slots[n].claim.id)}

(* The group's admissions implement the abstract chain: a slot takes part  *)
(* in it from the moment its receipt is there, and one by one.             *)
Chain == INSTANCE AdmissionChain
  WITH Candidates <- Claim, chain <- [k \in Admitted |-> slots[k].claim]

ImplementsChain == Chain!Spec

-------------------------------------------------------------------------------
(***************************************************************************)
(* Liveness                                                                *)
(***************************************************************************)

Slotted(i) == \E k \in DOMAIN slots : slots[k].claim.id = i

(* "must retry its exact id" (ruling 5), while its slot has no receipt.    *)
Retry(h, p) == Slotted(p.id) /\ ~Terminal(p.id) /\ Begin(h, p)

(* Hosts keep executing their calls, crashes cease, and the proposer of a  *)
(* slot retries until its receipt is there.                                *)
RecoverySpec ==
  /\ Spec
  /\ \A h \in Hosts : WF_vars(Step(h))
  /\ <>[][\A h \in Hosts : ~Crash(h)]_vars
  /\ \A p \in Proposals : SF_vars(\E h \in Hosts : Retry(h, p))

(* The slot is the recovery boundary (ruling 13): once won it leads to the *)
(* receipt, whoever crashed and whoever else proposes meanwhile.           *)
SlotCompletes == \A i \in Ids : Slotted(i) ~> Terminal(i)
===============================================================================
