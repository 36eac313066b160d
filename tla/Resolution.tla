------------------------------ MODULE Resolution ------------------------------
(***************************************************************************)
(* Context resolution and exposure (engine/context-resolution.ts).         *)
(*                                                                         *)
(* resolveContext reads the scope membership index and folds each member,  *)
(* one after the other, while publishers and experiments move them along   *)
(* the transition table; what is in force is frozen in a receipt addressed *)
(* by its content.  acknowledgeExposure binds one exposure set to one      *)
(* receipt: its index entry is appended first, then the set is created.    *)
(*                                                                         *)
(* A scope is its digest.  A receipt's id is its content, an entry's the   *)
(* intervention and the length of its stream.  Headers, plans, candidates, *)
(* publication receipts, observations and experiment definitions never     *)
(* change: they are constants.                                             *)
(***************************************************************************)
EXTENDS InterventionTable, Naturals, Sequences, FiniteSets

CONSTANTS
  Interventions,
  Of,          \* by intervention: [scope, action, effectClass, destination,
               \*   registration, candidate, supersedes, characters, createdAt]
  AtStart,     \* interventions published before the model starts
  States,      \* bound: states an intervention is moved to
  MaxEdges,    \* bound: by intervention, the length of its stream
  Hosts,
  Destinations,\* by host, the registrations of its loop, by destination
  Ancestors,   \* by scope, what the scope policy returns, by precedence
  Requests,    \* resolutions asked for: [episode, scope, budget]
  Claims,      \* acknowledgements: [applied, arm, experiment, fingerprint,
               \*   evidence], applied a set of interventions
  Subject,     \* by declared experiment, its intervention
  Observed,    \* observations: [id, episode, trust]
  Clock,       \* by host, what its clock may show
  MaxExposures,\* exposure index entries per episode
  MaxAttempts, \* append attempts
  MaxCalls,    \* bound: calls
  MaxCrashes,  \* bound: crashes
  None

Elements(s) == {s[n] : n \in DOMAIN s}
Distinct(s) == \A m, n \in DOMAIN s : s[m] = s[n] => m = n

ASSUME ResolutionAssumption ==
  /\ AtStart \subseteq Interventions /\ MaxEdges \in [Interventions -> Nat]
  /\ {MaxExposures, MaxAttempts, MaxCalls, MaxCrashes} \subseteq Nat
  /\ States \subseteq InterventionState
  /\ \A r \in Requests :
       r.budget.entries \in Nat \ {0} /\ r.budget.characters \in Nat \ {0}

(* Birth orders all interventions: the instant, then the id.               *)
ASSUME BirthAssumption ==
  /\ IsFiniteSet(Interventions)
  /\ \A i, j \in Interventions :
       Of[i].createdAt \in Nat /\ (Of[i].createdAt = Of[j].createdAt => i = j)

(* A scope policy that repeats a scope is refused before anything is read. *)
ASSUME AncestorsAssumption ==
  \A r \in Requests : LET above == Ancestors[r.scope]
                      IN above \in Seq(Elements(above)) /\ Distinct(<<r.scope>> \o above)

Instants == UNION {Clock[h] : h \in Hosts}
Scopes == {Of[i].scope : i \in Interventions} \cup
          UNION {{r.scope} \cup Elements(Ancestors[r.scope]) : r \in Requests}
Episodes == {r.episode : r \in Requests}

(* What a receipt and an exposure set say, all but when.                   *)
Entry == [intervention : Interventions, transition : Nat]
Resolved == [request : Requests, entries : Seq(Entry), omitted : Seq(Interventions)]
Exposed == [receipt : Resolved, entries : SUBSET Entry, arm : {c.arm : c \in Claims},
            experiment : {c.experiment : c \in Claims},
            fingerprint : {c.fingerprint : c \in Claims},
            evidence : {c.evidence : c \in Claims}]

ASSUME AbsenceAssumption == None \notin Hosts \cup Interventions \cup Exposed

VARIABLES
  members,    \* by scope, the membership index in order of insertion
  stream,     \* by intervention, the states its transitions led to
  receipts,   \* resolution receipts: [content, resolvedAt]
  index,      \* by episode, the receipts whose exposure sets are indexed
  sets,       \* exposure sets: [content, exposedAt]
  work,       \* by host, its call
  spent       \* how much of each bound is used

vars == <<members, stream, receipts, index, sets, work, spent>>

Authorized == [InitialState EXCEPT !.authorization = "authorized"]
Active == [Authorized EXCEPT !.publication = "published", !.activation = "active"]

State(i) == IF stream[i] = <<>> THEN InitialState ELSE stream[i][Len(stream[i])]

(* The sequence of a finite set of interventions, in order of birth.       *)
ByBirth(S) ==
  CHOOSE s \in [1..Cardinality(S) -> S] :
    \A m, n \in DOMAIN s : m < n => Of[s[m]].createdAt < Of[s[n]].createdAt

Idle == [pc |-> "idle", request |-> None, scopes |-> <<>>, todo |-> <<>>,
         group |-> {}, found |-> <<>>, heads |-> None, opened |-> None,
         content |-> None, revision |-> 0, tries |-> 0, answer |-> None]

Init ==
  /\ members = [s \in Scopes |-> ByBirth({i \in AtStart : Of[i].scope = s})]
  /\ stream = [i \in Interventions |->
                 IF i \in AtStart THEN <<Authorized, Active>> ELSE <<>>]
  /\ receipts = {} /\ index = [e \in Episodes |-> <<>>] /\ sets = {}
  /\ work = [h \in Hosts |-> Idle]
  /\ spent = [calls |-> 0, crashes |-> 0]

-------------------------------------------------------------------------------
(***************************************************************************)
(* The interventions, moved by others: the membership is written before    *)
(* the first transition.                                                   *)
(***************************************************************************)

PersistMembership(i) ==
  /\ i \notin Elements(members[Of[i].scope])
  /\ members' = [members EXCEPT ![Of[i].scope] = Append(@, i)]
  /\ UNCHANGED <<stream, receipts, index, sets, work, spent>>

Transition(i) ==
  /\ i \in Elements(members[Of[i].scope]) /\ Len(stream[i]) < MaxEdges[i]
  /\ \E t \in States :
       LegalEdge(State(i), t) /\ stream' = [stream EXCEPT ![i] = Append(@, t)]
  /\ UNCHANGED <<members, receipts, index, sets, work, spent>>

-------------------------------------------------------------------------------
(***************************************************************************)
(* resolveContext                                                          *)
(***************************************************************************)

At(h, pc) == work[h].pc = pc
Put(h, job) == work' = [work EXCEPT ![h] = job]
Answer(h, code, record) ==
  Put(h, [work[h] EXCEPT !.pc = "return", !.answer = [code |-> code, record |-> record]])
Give(h, record) == Answer(h, "given", record)
Refuse(h, code) == Answer(h, code, None)

(* The exact scope, then its ancestors.                                    *)
MatchedScopes(scope) == <<scope>> \o Ancestors[scope]

ResolvesFrom(s) ==
  s.publication = "published" /\ Permits(s) /\ s.activation = "active"

DestinationCurrent(h, i) ==
  /\ Of[i].destination \in DOMAIN Destinations[h]
  /\ Destinations[h][Of[i].destination]
       = [registration |-> Of[i].registration, effectClass |-> Of[i].effectClass]

StartCall(h) ==
  /\ At(h, "idle") /\ spent.calls < MaxCalls
  /\ spent' = [spent EXCEPT !.calls = @ + 1]
  /\ UNCHANGED <<members, stream, receipts, index, sets>>

StartResolve(h) ==
  /\ StartCall(h)
  /\ \E r \in Requests :
       Put(h, [Idle EXCEPT
                 !.pc = "member", !.request = r, !.scopes = MatchedScopes(r.scope),
                 !.heads = [i \in Interventions |-> 0],
                 !.opened = [i \in Interventions |-> Len(stream[i])]])

(* The members found so far, those of the last scope in order of birth.    *)
Collected(h) == work[h].found \o ByBirth(work[h].group)
ScopeRead(h) == At(h, "member") /\ work[h].todo = <<>>

ListMemberships(h) ==
  /\ ScopeRead(h) /\ work[h].scopes # <<>>
  /\ Put(h, [work[h] EXCEPT !.scopes = Tail(@), !.todo = members[Head(work[h].scopes)],
                            !.found = Collected(h), !.group = {}])
  /\ UNCHANGED <<members, stream, receipts, index, sets, spent>>

(* A member is folded: one with no transition yet is not an intervention.  *)
ReadMember(h) ==
  /\ At(h, "member") /\ work[h].todo # <<>>
  /\ LET i == Head(work[h].todo)
         rest == [work[h] EXCEPT !.todo = Tail(@)]
         serves == /\ Of[i].action = "publish" /\ stream[i] # <<>>
                   /\ ResolvesFrom(State(i)) /\ Of[i].effectClass = "context"
     IN IF ~serves THEN Put(h, rest)
        ELSE IF ~DestinationCurrent(h, i)
        THEN Refuse(h, "resolution.destination_drift")
        ELSE Put(h, [rest EXCEPT !.group = @ \cup {i},
                                 !.heads[i] = Len(stream[i])])
  /\ UNCHANGED <<members, stream, receipts, index, sets, spent>>

(* q is another version of what p is, made from it, in the same scope.     *)
Supersedes(q, p) == Of[q].supersedes = Of[p].candidate /\ Of[q].scope = Of[p].scope

Stale(active) == \E p, q \in Elements(active) : Supersedes(q, p)

Size(active) ==
  LET upTo[n \in 0..Len(active)] ==
        IF n = 0 THEN 0 ELSE upTo[n - 1] + Of[active[n]].characters
  IN upTo[Len(active)]

(* The longest prefix within the budget.                                   *)
Fitting(active, budget) ==
  LET fits == {n \in 0..Len(active) :
                 /\ n <= budget.entries
                 /\ Size(SubSeq(active, 1, n)) <= budget.characters}
  IN CHOOSE n \in fits : \A m \in fits : m <= n

(* Mutant: what does not fit is left out, and not listed.                  *)
FrozenSilently(h) ==
  LET active == Collected(h)
      n == Fitting(active, work[h].request.budget)
  IN [request |-> work[h].request,
      entries |-> [m \in 1..n |-> [intervention |-> active[m],
                                   transition |-> work[h].heads[active[m]]]],
      omitted |-> <<>>]

(* What the receipt is a receipt of.                                       *)
Frozen(h) ==
  LET active == Collected(h)
      n == Fitting(active, work[h].request.budget)
  IN [request |-> work[h].request,
      entries |-> [m \in 1..n |-> [intervention |-> active[m],
                                   transition |-> work[h].heads[active[m]]]],
      omitted |-> SubSeq(active, n + 1, Len(active))]

(* What the parser of stored receipts asks of a content.                   *)
Readable(content) ==
  LET ids == [n \in DOMAIN content.entries |-> content.entries[n].intervention]
                \o content.omitted
  IN /\ Len(content.entries) <= content.request.budget.entries
     /\ Distinct(ids)

(* Everything is read.                                                     *)
Complete(h) == ScopeRead(h) /\ work[h].scopes = <<>>

RefuseStale(h) ==
  /\ Complete(h) /\ Stale(Collected(h))
  /\ Refuse(h, "resolution.intervention_stale")
  /\ UNCHANGED <<members, stream, receipts, index, sets, spent>>

Stored(content) == {r \in receipts : r.content = content}

(* Mutant: the caller is given its own receipt.                            *)
PersistOwn(h) ==
  /\ Complete(h) /\ ~Stale(Collected(h))
  /\ \E t \in Clock[h] :
       LET r == [content |-> Frozen(h), resolvedAt |-> t]
       IN /\ receipts' = IF Stored(r.content) = {} THEN receipts \cup {r} ELSE receipts
          /\ Give(h, r)
  /\ UNCHANGED <<members, stream, index, sets, spent>>

(* Create only; on conflict the receipt that stands is the answer.         *)
PersistResolution(h) ==
  /\ Complete(h) /\ ~Stale(Collected(h))
  /\ \E t \in Clock[h] :
       LET r == [content |-> Frozen(h), resolvedAt |-> t]
       IN IF Stored(r.content) = {}
          THEN receipts' = receipts \cup {r} /\ Give(h, r)
          ELSE /\ UNCHANGED receipts
               /\ \E standing \in Stored(r.content) : Give(h, standing)
  /\ UNCHANGED <<members, stream, index, sets, spent>>

-------------------------------------------------------------------------------
(***************************************************************************)
(* acknowledgeExposure                                                     *)
(***************************************************************************)

(* They keep the receipt's order: which they are tells the sequence.       *)
AppliedEntries(receipt, claim) ==
  {e \in Elements(receipt.content.entries) : e.intervention \in claim.applied}

Applies(receipt, claim, i) ==
  \E e \in AppliedEntries(receipt, claim) : e.intervention = i

ArmHolds(receipt, claim) ==
  claim.arm # None =>
    /\ claim.experiment \in DOMAIN Subject
    /\ claim.arm = "treatment" <=> Applies(receipt, claim, Subject[claim.experiment])

(* Evidence is observed of the receipt's own episode, and trusted.         *)
HostObserved(receipt, claim) ==
  /\ claim.evidence # {}
  /\ \A id \in claim.evidence :
       \E o \in Observed : /\ o.id = id /\ o.trust \in {"observed", "verified"}
                           /\ o.episode = receipt.content.request.episode

Accepted(receipt, claim) ==
  /\ claim.applied \subseteq {e.intervention : e \in Elements(receipt.content.entries)}
  /\ ArmHolds(receipt, claim) /\ HostObserved(receipt, claim)

(* What the parser of stored exposure sets asks of one.                    *)
ReadableSet(x) ==
  LET all == x.content.receipt.entries
  IN /\ \A m, n \in {k \in DOMAIN all : all[k] \in x.content.entries} :
          all[m].intervention = all[n].intervention => m = n
     /\ x.content.evidence # {}

(* The content of the set: all but when it was exposed.                    *)
ExposureContent(receipt, claim) ==
  [receipt |-> receipt.content, entries |-> AppliedEntries(receipt, claim),
   arm |-> claim.arm, experiment |-> claim.experiment,
   fingerprint |-> claim.fingerprint, evidence |-> claim.evidence]

StartAcknowledge(h) ==
  /\ StartCall(h)
  /\ \E r \in receipts, c \in Claims :
       Put(h, IF Accepted(r, c)
              THEN [Idle EXCEPT !.pc = "load", !.content = ExposureContent(r, c)]
              ELSE [Idle EXCEPT !.pc = "return", 
                          !.answer = [code |-> "exposure.refused", record |-> None]])

Content(h) == work[h].content
Asking(h) == Content(h) # None /\ work[h].request = None
Episode(h) == Content(h).receipt.request.episode
SetOf(receipt) == {x \in sets : x.content.receipt = receipt}

(* What a caller is told of a set that stands.                             *)
Tell(h, set) ==
  IF set.content = Content(h) THEN Give(h, set)
  ELSE Refuse(h, "exposure.already_acknowledged")

(* The sets of an episode: an index entry without its set does not count.  *)
ExposureIds(e) == {r \in Elements(index[e]) : SetOf(r) # {}}

(* Mutant: a first acknowledgement does not index.                         *)
LoadUnindexed(h) ==
  /\ At(h, "load")
  /\ IF SetOf(Content(h).receipt) = {} THEN Put(h, [work[h] EXCEPT !.pc = "create"])
     ELSE \E set \in SetOf(Content(h).receipt) : Tell(h, set)
  /\ UNCHANGED <<members, stream, receipts, index, sets, spent>>

(* Whether the set is there or not, its index entry is ensured.            *)
LoadExposureSet(h) ==
  /\ At(h, "load")
  /\ IF \E set \in SetOf(Content(h).receipt) : set.content # Content(h)
     THEN Refuse(h, "exposure.already_acknowledged")
     ELSE Put(h, [work[h] EXCEPT !.pc = "index"])
  /\ UNCHANGED <<members, stream, receipts, index, sets, spent>>

(* The index is read again before each attempt to append.                  *)
ReadIndex(h) ==
  /\ At(h, "index")
  /\ LET entries == index[Episode(h)]
     IN IF Content(h).receipt \in Elements(entries)
        THEN Put(h, [work[h] EXCEPT !.pc = "create"])
        ELSE IF Len(entries) >= MaxExposures THEN Refuse(h, "exposure.limit_exceeded")
        ELSE IF work[h].tries >= MaxAttempts THEN Refuse(h, "store.conflict")
        ELSE Put(h, [work[h] EXCEPT !.pc = "append", !.tries = @ + 1,
                                    !.revision = Len(entries)])
  /\ UNCHANGED <<members, stream, receipts, index, sets, spent>>

(* A rival's append of the same entry is this one, done already.           *)
AppendIndex(h) ==
  /\ At(h, "append")
  /\ LET entries == index[Episode(h)]
         current == Len(entries) = work[h].revision
         replayed == entries # <<>> /\ entries[Len(entries)] = Content(h).receipt
     IN /\ index' = IF current
                    THEN [index EXCEPT ![Episode(h)] = Append(@, Content(h).receipt)]
                    ELSE index
        /\ Put(h, [work[h] EXCEPT !.pc = IF current \/ replayed THEN "create"
                                                              ELSE "index"])
  /\ UNCHANGED <<members, stream, receipts, sets, spent>>

(* Mutant: on conflict the caller is given its own set.                    *)
CreateOwn(h) ==
  /\ At(h, "create")
  /\ \E t \in Clock[h] :
       LET set == [content |-> Content(h), exposedAt |-> t]
       IN /\ sets' = IF SetOf(Content(h).receipt) = {} THEN sets \cup {set} ELSE sets
          /\ Give(h, set)
  /\ UNCHANGED <<members, stream, receipts, index, spent>>

(* Create only, under the id the receipt gives it; the set that stands,    *)
(* which never changes, is the answer, if it says the same.                *)
CreateExposureSet(h) ==
  /\ At(h, "create")
  /\ IF SetOf(Content(h).receipt) = {}
     THEN \E t \in Clock[h] :
            LET set == [content |-> Content(h), exposedAt |-> t]
            IN sets' = sets \cup {set} /\ Give(h, set)
     ELSE /\ UNCHANGED sets
          /\ \E set \in SetOf(Content(h).receipt) : Tell(h, set)
  /\ UNCHANGED <<members, stream, receipts, index, spent>>

Return(h) ==
  /\ At(h, "return") /\ Put(h, Idle)
  /\ UNCHANGED <<members, stream, receipts, index, sets, spent>>

(* What a call holds in memory is lost.                                    *)
Crash(h) ==
  /\ ~At(h, "idle") /\ spent.crashes < MaxCrashes
  /\ spent' = [spent EXCEPT !.crashes = @ + 1] /\ Put(h, Idle)
  /\ UNCHANGED <<members, stream, receipts, index, sets>>

-------------------------------------------------------------------------------
Step(h) ==
  \/ ListMemberships(h) \/ ReadMember(h) \/ RefuseStale(h)
  \/ PersistResolution(h) \/ LoadExposureSet(h) \/ ReadIndex(h)
  \/ AppendIndex(h) \/ CreateExposureSet(h) \/ Return(h)

Next ==
  \/ \E i \in Interventions : PersistMembership(i) \/ Transition(i)
  \/ \E h \in Hosts : StartResolve(h) \/ StartAcknowledge(h) \/ Step(h) \/ Crash(h)

Spec == Init /\ [][Next]_vars

-------------------------------------------------------------------------------
(***************************************************************************)
(* Properties.                                                             *)
(***************************************************************************)

Serves(i) == Of[i].action = "publish" /\ Of[i].effectClass = "context"

(* While a call resolves, i has been in force since it began.              *)
InForceThroughout(h, i) ==
  /\ work[h].opened[i] > 0
  /\ \A n \in work[h].opened[i]..Len(stream[i]) : ResolvesFrom(stream[i][n])

(* What a receipt is about to freeze, though it was read piece by piece    *)
(* while interventions moved: each entry was in force while the call ran,  *)
(* at the very transition it cites; whatever was in force all along is     *)
(* served, or listed as omitted; and the receipt can be read back.         *)
ResolutionFair ==
  \A h \in Hosts : Complete(h) /\ ~Stale(Collected(h)) =>
    LET c == Frozen(h)
        served == {e.intervention : e \in Elements(c.entries)}
        listed == served \cup Elements(c.omitted)
    IN /\ \A e \in Elements(c.entries) :
            /\ e.transition \in work[h].opened[e.intervention]..Len(stream[e.intervention])
            /\ e.transition > 0 /\ ResolvesFrom(stream[e.intervention][e.transition])
       /\ \A i \in Interventions :
            /\ Serves(i) /\ InForceThroughout(h, i)
            /\ Of[i].scope \in Elements(MatchedScopes(c.request.scope))
            => i \in listed
       /\ Readable(c)

(* One receipt for one content: whoever resolves to it is given the same   *)
(* bytes, whatever its clock said.                                         *)
ReceiptCanonical ==
  /\ \A r, s \in receipts : r.content = s.content => r = s
  /\ \A h \in Hosts :
       At(h, "return") /\ ~Asking(h) /\ work[h].answer.code = "given" =>
         work[h].answer.record \in receipts

(* Index first: at every crash point each exposure set is in the index of  *)
(* its episode, once, so that the episode's view lists it and can read it. *)
SetsIndexed ==
  \A e \in Episodes :
    /\ Distinct(index[e])
    /\ Len(index[e]) <= MaxExposures
    /\ ExposureIds(e) =
         {r \in {x.content.receipt : x \in sets} : r.request.episode = e}
    /\ \A x \in sets : ReadableSet(x)

(* What the ledger sees of a host: its acknowledgement, and how that ended. *)
Seen(h) ==
  IF Asking(h) THEN [content |-> Content(h), answer |-> work[h].answer]
  ELSE [content |-> None, answer |-> None]

Seens == [h \in Hosts |-> Seen(h)]

(* One resolution yields one exposure set, whoever acknowledges it how     *)
(* often, at the same time or after a crash.                               *)
ExposureLedger == INSTANCE Ledger WITH
  Failures <- {"exposure.limit_exceeded", "store.conflict"},
  ledger <- sets, calls <- Seens

ImplementsLedger == ExposureLedger!Spec
===============================================================================
