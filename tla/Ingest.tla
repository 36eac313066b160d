-------------------------------- MODULE Ingest --------------------------------
(***************************************************************************)
(* Ingest of one paged source by several hosts over one store              *)
(* (engine/ingest.ts, with the derivative owners, revision and identity    *)
(* streams, receipts and outcome claims it writes).  Evidence resolves     *)
(* what they leave in the store.                                           *)
(*                                                                         *)
(* A page is committed by its receipt, written last: after the revision it *)
(* claims, the derivatives it accepts, each behind an owner claim, and the *)
(* findings about its health.  A host may crash between any two writes and *)
(* any record may fail by itself; the page is then read again.             *)
(*                                                                         *)
(* One action is one record's work between two writes.  An append loop is  *)
(* the append that wins, and the reading of the stream that follows it.    *)
(* Records, receipts and findings are content-addressed and create-only:   *)
(* their namespaces are sets.                                              *)
(***************************************************************************)
EXTENDS Evidence

CONSTANTS
  Hosts,       \* ingesting processes
  Loops,       \* configurations: [registration, policy, registry]
  LoopOf,      \* the configuration each host runs
  Inputs,      \* what an adapter may read: sequences of pages
  Refused,     \* bodies the content policy refuses
  Scope,       \* the scope every resolution asks for
  Windows,     \* windows a reader may resolve: sequences of [kind, id]
  MaxCalls,    \* bound: ingest calls
  MaxCrashes,  \* bound: crashes
  MaxFaults,   \* bound: records failed by a port
  None

Kinds == {"episode", "observation", "measurement"}
Pages == UNION {Elements(input) : input \in Inputs}
Ids == UNION {{p.id : p \in Elements(page.records)} : page \in Pages}

Codes == {"schema.invalid", "store.conflict", "store.corrupt",
          "episode.identity_conflict", "evidence.ownership_mismatch",
          "policy.blocked", "source.adapter_diagnostic"}

KindRank(k) == CHOOSE n \in 1..3 : k = <<"episode", "observation", "measurement">>[n]

(* A page's projections come in the order they are ingested in; a page     *)
(* that is not available has none.                                         *)
ASSUME IngestAssumption ==
  /\ LoopOf \in [Hosts -> Loops]
  /\ \A input \in Inputs : input \in Seq(Elements(input))
  /\ \A page \in Pages :
       /\ page.records \in Seq(Elements(page.records))
       /\ \A p \in Elements(page.records) :
            /\ p.kind \in Kinds
            /\ p.kind = "measurement" => p.cites \in Seq(Elements(p.cites))
       /\ page.status \in {"available", "unreadable"}
       /\ page.status = "available" => page.revision # None
       /\ page.status # "available" =>
            page.records = <<>> /\ page.completeness = "unknown"
       /\ page.diagnostics \in {"none", "warning", "error"}
       /\ \A m, n \in DOMAIN page.records :
            m < n => KindRank(page.records[m].kind) <= KindRank(page.records[n].kind)
  /\ \A window \in Windows :
       /\ window \in Seq(Elements(window))
       /\ \A input \in Elements(window) : input.kind \in {"observation", "measurement"}
  /\ \A b \in {MaxCalls, MaxCrashes, MaxFaults} : b \in Nat

VARIABLES
  db,      \* the store
  work,    \* by host, what its call holds in memory
  spent    \* how much of each bound is used

vars == <<db, work, spent>>

EmptyStore ==
  [records |-> {}, identities |-> {}, receipts |-> {}, findings |-> {},
   outcomes |-> [id \in Ids |-> <<>>], owners |-> {}, revisions |-> {},
   imports |-> {}]

View == [records |-> db.records, identities |-> db.identities,
         receipts |-> db.receipts, markers |-> db.receipts,
         findings |-> db.findings, outcomes |-> db.outcomes]

(* The tally of a page.                                                    *)
NoTally ==
  [n |-> 1, now |-> None, owned |-> FALSE, committed |-> {}, accepting |-> FALSE,
   conflict |-> FALSE, derivatives |-> {}, diagnostics |-> [c \in Codes |-> 0],
   rejected |-> 0, reused |-> 0, refused |-> 0, mismatched |-> 0,
   pending |-> <<>>, claim |-> None]

Idle == [pc |-> "idle", input |-> <<>>, at |-> 1, page |-> NoTally, done |-> <<>>]

Init ==
  /\ db = EmptyStore
  /\ work = [h \in Hosts |-> Idle]
  /\ spent = [calls |-> 0, crashes |-> 0, faults |-> 0]

-------------------------------------------------------------------------------
(***************************************************************************)
(* A host's page.                                                          *)
(***************************************************************************)

Loop(h) == LoopOf[h]
Page(h) == work[h].input[work[h].at]
Tally(h) == work[h].page
Projection(h) == Page(h).records[Tally(h).n]

(* What owns a derivative: a page, as one configuration read it.           *)
PageOwner(h) ==
  [registration |-> Loop(h).registration, policy |-> Loop(h).policy,
   registry |-> Loop(h).registry, artifact |-> Page(h).artifact,
   ref |-> Page(h).ref, status |-> Page(h).status,
   revision |-> Page(h).revision, completeness |-> Page(h).completeness]

OwnerFromReceipt(p) ==
  [registration |-> p.registration, policy |-> p.policy, registry |-> p.registry,
   artifact |-> p.artifact, ref |-> p.ref, status |-> p.status,
   revision |-> p.revision, completeness |-> p.completeness]

At(h, pc) == work[h].pc = pc
Put(h, pc, tally) == work' = [work EXCEPT ![h].pc = pc, ![h].page = tally]

(* One projection less; refused, its diagnostic counts.                    *)
NextRecord(h, tally) == Put(h, "records", [tally EXCEPT !.n = @ + 1, !.now = None])

Refuse(h, code) ==
  NextRecord(h, [Tally(h) EXCEPT !.rejected = @ + 1, !.diagnostics[code] = @ + 1])

Taking(h, kind) ==
  /\ At(h, "records") /\ Tally(h).n <= Len(Page(h).records)
  /\ Projection(h).kind = kind

(* The page names the same record twice.                                   *)
Repeated(h) ==
  \E m \in 1..(Tally(h).n - 1) :
    LET p == Page(h).records[m]
    IN p.kind = Projection(h).kind /\ p.id = Projection(h).id

Stored(kind, id) == {r \in db.records : r.kind = kind /\ r.id = id}

(* This page has accepted r, or exactly one committed page of the same     *)
(* artifact revision has.                                                  *)
HasOwned(h, r) ==
  \/ r \in Tally(h).derivatives
  \/ LET marks == Marking(Tally(h).committed, r)
     IN /\ Sole(marks)
        /\ Only(marks).registration = Loop(h).registration
        /\ Only(marks).artifact = Page(h).artifact
        /\ Only(marks).status = "available"
        /\ Only(marks).revision = Page(h).revision

-------------------------------------------------------------------------------
(***************************************************************************)
(* Opening a page.                                                         *)
(***************************************************************************)

StartIngest(h) ==
  /\ At(h, "idle") /\ spent.calls < MaxCalls
  /\ spent' = [spent EXCEPT !.calls = @ + 1]
  /\ \E input \in Inputs :
       work' = [work EXCEPT ![h] = [Idle EXCEPT !.pc = "open", !.input = input]]
  /\ UNCHANGED db

(* The receipts committed so far are read once for the page.               *)
OpenPage(h) ==
  /\ At(h, "open") /\ work[h].at <= Len(work[h].input)
  /\ Put(h, IF Page(h).revision = None THEN "records" ELSE "revision",
         [NoTally EXCEPT !.committed = db.receipts])
  /\ UNCHANGED <<db, spent>>

RevisionClaim(h) ==
  [registration |-> Loop(h).registration, artifact |-> Page(h).artifact,
   ref |-> Page(h).ref, revision |-> Page(h).revision]

RevisionsOf(claims, page) == {c \in claims : PageOf(c) = page}

(* With more than one revision claimed nothing of the page is accepted.    *)
Decide(h) ==
  LET conflict == ~Sole(RevisionsOf(db.revisions, PageOf(RevisionClaim(h))))
      accepting == Page(h).status = "available" /\ ~conflict
      size == Len(Page(h).records)
  IN Put(h, "records",
         [Tally(h) EXCEPT !.conflict = conflict, !.accepting = accepting,
                          !.n = IF accepting THEN 1 ELSE size + 1,
                          !.rejected = IF accepting THEN 0 ELSE size])

ClaimRevision(h) ==
  /\ At(h, "revision")
  /\ IF RevisionClaim(h) \in db.revisions
     THEN Decide(h) /\ UNCHANGED db
     ELSE /\ db' = [db EXCEPT !.revisions = @ \cup {RevisionClaim(h)}]
          /\ Put(h, "confirm", Tally(h))
  /\ UNCHANGED spent

(* Mutant: a host trusts the claim it appended.                            *)
ConfirmOwnRevision(h) ==
  /\ At(h, "confirm")
  /\ Put(h, "records", [Tally(h) EXCEPT !.accepting = TRUE])
  /\ UNCHANGED <<db, spent>>

ConfirmRevision(h) ==
  /\ At(h, "confirm") /\ Decide(h)
  /\ UNCHANGED <<db, spent>>

-------------------------------------------------------------------------------
(***************************************************************************)
(* Accepting a derivative: its owner claim, then its record.               *)
(***************************************************************************)

(* Mutant: the claim that stands is not read.                              *)
ClaimOwnPage(h, r) ==
  /\ UNCHANGED db
  /\ Put(h, "create", [Tally(h) EXCEPT !.now = r, !.owned = TRUE])

(* The owner is the page of the receipt that commits r, or this page; the  *)
(* first claim of r stands.                                                *)
ClaimDerivativePage(h, r) ==
  LET marks == Marking(Tally(h).committed, r)
      proposed == IF marks = {} THEN PageOwner(h) ELSE OwnerFromReceipt(Only(marks))
      standing == {c \in db.owners : c.derivative = r}
      owner == IF standing = {} THEN proposed ELSE Only(standing).owner
  IN IF Cardinality(marks) > 1
     THEN Refuse(h, "store.corrupt") /\ UNCHANGED db
     ELSE /\ db' = [db EXCEPT !.owners = @ \cup {[derivative |-> r, owner |-> owner]}]
          /\ IF marks # {} /\ owner # proposed
             THEN Refuse(h, "store.corrupt")
             ELSE Put(h, "create",
                      [Tally(h) EXCEPT !.now = r, !.owned = owner = PageOwner(h)])

(* Owned, the page's receipt will list it; reused, count it.               *)
Accept(h, pending) ==
  NextRecord(h,
    IF Tally(h).owned
    THEN [Tally(h) EXCEPT !.derivatives = @ \cup {Tally(h).now}, !.pending = @ \o pending]
    ELSE [Tally(h) EXCEPT !.reused = @ + 1, !.pending = @ \o pending])

EpisodeRecord(p) == [kind |-> "episode", id |-> p.id, scope |-> p.scope]

Observation(h, p) ==
  [kind |-> "observation", id |-> p.id, logical |-> p.logical, body |-> p.body,
   completeness |-> p.completeness, registration |-> Loop(h).registration,
   artifact |-> Page(h).artifact, revision |-> Page(h).revision]

(* The cited observations, and the measurement only as complete as they.   *)
Cited(p) == {Only(Stored("observation", c)) : c \in Elements(p.cites)}

Measurement(h, p) ==
  [kind |-> "measurement", id |-> p.id, logical |-> p.logical, body |-> p.body,
   completeness |-> Worst({o.completeness : o \in Cited(p)}),
   registration |-> Loop(h).registration, artifact |-> Page(h).artifact,
   revision |-> Page(h).revision, cites |-> p.cites]

IngestEpisode(h) ==
  /\ Taking(h, "episode")
  /\ LET p == Projection(h)
     IN IF Repeated(h) THEN Refuse(h, "schema.invalid") /\ UNCHANGED db
        ELSE IF Stored("episode", p.id) \subseteq {EpisodeRecord(p)}
        THEN ClaimDerivativePage(h, EpisodeRecord(p))
        ELSE Refuse(h, "store.conflict") /\ UNCHANGED db
  /\ UNCHANGED spent

(* The content policy's refusal is counted apart.                          *)
RefuseContent(h) ==
  /\ NextRecord(h, [Tally(h) EXCEPT !.rejected = @ + 1, !.refused = @ + 1,
                                    !.diagnostics["policy.blocked"] = @ + 1])
  /\ UNCHANGED db

IngestObservation(h) ==
  /\ Taking(h, "observation")
  /\ LET p == Projection(h)
     IN IF Repeated(h) THEN Refuse(h, "schema.invalid") /\ UNCHANGED db
        ELSE IF p.body \in Refused THEN RefuseContent(h)
        ELSE ClaimDerivativePage(h, Observation(h, p))
  /\ UNCHANGED spent

(* The one episode the identities of this registration give the measured   *)
(* logical episode is owned by this artifact revision; so is each cited    *)
(* observation, of that episode.                                           *)
OwnsCitations(h, p) ==
  LET episodes == {x \in EpisodesOf(View, p.logical) :
                     x.identity.registration = Loop(h).registration}
  IN /\ p.cites # <<>> /\ ~Repeats(p.cites)
     /\ Sole(episodes) /\ HasOwned(h, Only(episodes).episode)
     /\ \A c \in Elements(p.cites) :
          /\ Stored("observation", c) # {}
          /\ \A o \in Stored("observation", c) :
               /\ o.logical = p.logical
               /\ o.registration = Loop(h).registration
               /\ o.artifact = Page(h).artifact
               /\ o.revision = Page(h).revision
               /\ HasOwned(h, o)

IngestMeasurement(h) ==
  /\ Taking(h, "measurement")
  /\ LET p == Projection(h)
     IN IF Repeated(h) THEN Refuse(h, "schema.invalid") /\ UNCHANGED db
        ELSE IF ~OwnsCitations(h, p)
        THEN /\ NextRecord(h,
                  [Tally(h) EXCEPT !.rejected = @ + 1, !.mismatched = @ + 1,
                     !.diagnostics["evidence.ownership_mismatch"] = @ + 1])
             /\ UNCHANGED db
        ELSE IF p.body \in Refused THEN RefuseContent(h)
        ELSE ClaimDerivativePage(h, Measurement(h, p))
  /\ UNCHANGED spent

(* Create only: another content under the id refuses the record.           *)
CreateDerivative(h) ==
  /\ At(h, "create")
  /\ LET r == Tally(h).now
     IN IF Stored(r.kind, r.id) \subseteq {r}
        THEN /\ db' = [db EXCEPT !.records = @ \cup {r}]
             /\ IF IsEpisode(r) THEN Put(h, "identity", Tally(h)) ELSE Accept(h, <<>>)
        ELSE Refuse(h, "store.conflict") /\ UNCHANGED db
  /\ UNCHANGED spent

IdentityClaim(h) ==
  [record |-> Projection(h).id, logical |-> Projection(h).logical,
   registration |-> Loop(h).registration,
   completeness |-> Projection(h).completeness]

PendingOutcome(p) ==
  IF p.status = None THEN <<>>
  ELSE <<[episode |-> p.id, logical |-> p.logical, status |-> p.status,
          scope |-> p.scope, measures |-> p.measures]>>

Identified(h) ==
  IF Sole(IdentitiesOf(db, Tally(h).now)) THEN Accept(h, PendingOutcome(Projection(h)))
  ELSE Refuse(h, "episode.identity_conflict")

PersistIdentity(h) ==
  /\ At(h, "identity")
  /\ IF IdentityClaim(h) \in db.identities
     THEN Identified(h) /\ UNCHANGED db
     ELSE /\ db' = [db EXCEPT !.identities = @ \cup {IdentityClaim(h)}]
          /\ Put(h, "identified", Tally(h))
  /\ UNCHANGED spent

ConfirmIdentity(h) ==
  /\ At(h, "identified") /\ Identified(h)
  /\ UNCHANGED <<db, spent>>

(* A port throws while one record is in work: the loop catches it, and the *)
(* page goes on without the record.                                        *)
FailRecord(h) ==
  /\ \/ At(h, "records") /\ Tally(h).n <= Len(Page(h).records)
     \/ work[h].pc \in {"create", "identity", "identified"}
  /\ spent.faults < MaxFaults /\ spent' = [spent EXCEPT !.faults = @ + 1]
  /\ Refuse(h, "source.adapter_diagnostic")
  /\ UNCHANGED db

-------------------------------------------------------------------------------
(***************************************************************************)
(* Closing a page: outcomes checked, findings, the receipt, outcome claims.*)
(***************************************************************************)

MeasuredBy(h, o) ==
  /\ ~Repeats(o.measures)
  /\ \A id \in Elements(o.measures) :
       /\ Stored("measurement", id) # {}
       /\ \A m \in Stored("measurement", id) :
            /\ m.logical = o.logical /\ m.registration = Loop(h).registration
            /\ m.artifact = Page(h).artifact /\ m.revision = Page(h).revision
            /\ HasOwned(h, m)

ValidOutcomes(h) == SelectSeq(Tally(h).pending, LAMBDA o : MeasuredBy(h, o))

CheckOutcomes(h) ==
  /\ At(h, "records") /\ Tally(h).n > Len(Page(h).records)
  /\ LET lost == Len(Tally(h).pending) - Len(ValidOutcomes(h))
     IN Put(h, "findings",
            [Tally(h) EXCEPT !.pending = ValidOutcomes(h), !.mismatched = @ + lost,
               !.diagnostics["evidence.ownership_mismatch"] = @ + lost])
  /\ UNCHANGED <<db, spent>>

Finding(h, code, effect, count) ==
  [code |-> code, effect |-> effect, registration |-> Loop(h).registration,
   artifact |-> Page(h).artifact, ref |-> Page(h).ref,
   completeness |-> Page(h).completeness, count |-> count]

(* What the page's health comes to.                                        *)
PageFindings(h) ==
  LET t == Tally(h)
      size == Len(Page(h).records)
      found(c, code, effect, count) ==
        IF c THEN {Finding(h, code, effect, count)} ELSE {}
  IN UNION {
       found(t.conflict, "source.revision_changed", "blocks_use", size),
       found(Page(h).status = "available" /\ Page(h).completeness # "complete",
          "source.partial", "limits_claims", size),
       found(Page(h).status # "available", "source.unreadable", "blocks_use", size),
       found(Page(h).diagnostics # "none", "source.adapter_diagnostic",
          IF Page(h).diagnostics = "error" THEN "blocks_audit" ELSE "limits_claims", 1),
       found(t.refused > 0, "source.content_policy_refused", "blocks_use", t.refused),
       found(t.mismatched > 0, "source.ownership_mismatch", "blocks_use", t.mismatched),
       found(t.rejected > 0, "source.record_rejected", "blocks_audit", t.rejected)}

FindingCodes ==
  <<"source.revision_changed", "source.partial", "source.unreadable",
    "source.adapter_diagnostic", "source.content_policy_refused",
    "source.ownership_mismatch", "source.record_rejected">>

Rank(f) == CHOOSE n \in DOMAIN FindingCodes : FindingCodes[n] = f.code

(* One after the other, in the order the page queued them.                 *)
PersistHealthFinding(h) ==
  /\ At(h, "findings")
  /\ LET missing == PageFindings(h) \ db.findings
     IN \E f \in missing :
          /\ \A g \in missing : Rank(f) <= Rank(g)
          /\ db' = [db EXCEPT !.findings = @ \cup {f}]
  /\ UNCHANGED <<work, spent>>

ProjectionCounts(page) ==
  [k \in Kinds |-> Cardinality({n \in DOMAIN page.records : page.records[n].kind = k})]

(* The commit marker.                                                      *)
SourcePageReceipt(h) ==
  [registration |-> Loop(h).registration, policy |-> Loop(h).policy,
   registry |-> Loop(h).registry, artifact |-> Page(h).artifact,
   ref |-> Page(h).ref, status |-> Page(h).status,
   revision |-> Page(h).revision, completeness |-> Page(h).completeness,
   derivatives |-> Tally(h).derivatives, counts |-> ProjectionCounts(Page(h)),
   rejected |-> Tally(h).rejected, reused |-> Tally(h).reused,
   diagnostics |-> Tally(h).diagnostics, findings |-> PageFindings(h)]

(* Mutant: the receipt does not wait for its findings.                     *)
CommitFirst(h) ==
  /\ At(h, "findings")
  /\ db' = [db EXCEPT !.receipts = @ \cup {SourcePageReceipt(h)}]
  /\ work' = [work EXCEPT ![h].pc = "outcomes",
                          ![h].done = Append(@, SourcePageReceipt(h))]
  /\ UNCHANGED spent

CommitPage(h) ==
  /\ At(h, "findings") /\ PageFindings(h) \subseteq db.findings
  /\ db' = [db EXCEPT !.receipts = @ \cup {SourcePageReceipt(h)}]
  /\ work' = [work EXCEPT ![h].pc = "outcomes",
                          ![h].done = Append(@, SourcePageReceipt(h))]
  /\ UNCHANGED spent

(* An outcome claim's measurements are of its own episode, artifact and    *)
(* revision, each once.                                                    *)
OwnedMeasurements(claim) ==
  /\ ~Repeats(claim.measurements)
  /\ ~Repeats([n \in DOMAIN claim.measurements |-> claim.measurements[n].record.id])
  /\ \A m \in Elements(claim.measurements) :
       /\ m.episode.id = claim.episode /\ m.identity.logical = claim.logical
       /\ m.record.registration = claim.registration
       /\ m.record.artifact = claim.artifact
       /\ m.record.revision = claim.revision

Resolved(h, o) ==
  IF o.measures = <<>> THEN [status |-> "ready", refs |-> <<>>]
  ELSE ResolveEvidence(View, Loop(h), o.scope, o.measures, FALSE)

OutcomeClaim(h, o) ==
  [episode |-> o.episode, logical |-> o.logical, status |-> o.status,
   registration |-> Loop(h).registration, artifact |-> Page(h).artifact,
   revision |-> Page(h).revision, measurements |-> Resolved(h, o).refs]

(* Measurements that were in order when the page closed must resolve now,  *)
(* to the episode of the outcome; if they do not, the whole call throws.   *)
ResolveOutcome(h) ==
  /\ At(h, "outcomes") /\ Tally(h).pending # <<>>
  /\ LET o == Head(Tally(h).pending)
     IN IF \/ Resolved(h, o).status = "invalid"
           \/ Len(Resolved(h, o).refs) # Len(o.measures)
           \/ ~OwnedMeasurements(OutcomeClaim(h, o))
        THEN work' = [work EXCEPT ![h] = Idle]
        ELSE Put(h, "claim", [Tally(h) EXCEPT !.pending = Tail(@),
                                              !.claim = OutcomeClaim(h, o)])
  /\ UNCHANGED <<db, spent>>

(* Mutant: an attempt is appended whenever its page is ingested.           *)
AppendOutcomeClaim(h) ==
  /\ At(h, "claim")
  /\ db' = [db EXCEPT !.outcomes[Tally(h).claim.episode] = Append(@, Tally(h).claim)]
  /\ Put(h, "outcomes", [Tally(h) EXCEPT !.claim = None])
  /\ UNCHANGED spent

(* An attempt already in the history is not appended again.                *)
PersistOutcomeClaim(h) ==
  /\ At(h, "claim")
  /\ LET claim == Tally(h).claim
     IN IF claim \in Elements(db.outcomes[claim.episode])
        THEN UNCHANGED db
        ELSE db' = [db EXCEPT !.outcomes[claim.episode] = Append(@, claim)]
  /\ Put(h, "outcomes", [Tally(h) EXCEPT !.claim = None])
  /\ UNCHANGED spent

NextPage(h) ==
  /\ At(h, "outcomes") /\ Tally(h).pending = <<>>
  /\ work' = [work EXCEPT ![h].pc = "open", ![h].at = @ + 1, ![h].page = NoTally]
  /\ UNCHANGED <<db, spent>>

(* The import receipt folds the receipts of every page.                    *)
Import(h) ==
  /\ At(h, "open") /\ work[h].at > Len(work[h].input)
  /\ db' = [db EXCEPT !.imports =
              @ \cup {[registration |-> Loop(h).registration,
                       registry |-> Loop(h).registry, pages |-> work[h].done]}]
  /\ work' = [work EXCEPT ![h] = Idle]
  /\ UNCHANGED spent

(* What a call holds in memory is lost.                                    *)
Crash(h) ==
  /\ ~At(h, "idle") /\ spent.crashes < MaxCrashes
  /\ spent' = [spent EXCEPT !.crashes = @ + 1]
  /\ work' = [work EXCEPT ![h] = Idle]
  /\ UNCHANGED db

-------------------------------------------------------------------------------
HostStep(h) ==
  \/ OpenPage(h) \/ ClaimRevision(h) \/ ConfirmRevision(h)
  \/ IngestEpisode(h) \/ IngestObservation(h) \/ IngestMeasurement(h)
  \/ CreateDerivative(h) \/ PersistIdentity(h) \/ ConfirmIdentity(h)
  \/ CheckOutcomes(h) \/ PersistHealthFinding(h) \/ CommitPage(h)
  \/ ResolveOutcome(h) \/ PersistOutcomeClaim(h) \/ NextPage(h) \/ Import(h)

Next == \E h \in Hosts : StartIngest(h) \/ HostStep(h) \/ FailRecord(h) \/ Crash(h)

Spec == Init /\ [][Next]_vars

-------------------------------------------------------------------------------
(***************************************************************************)
(* What a stored record must be, or every later reading of it throws.      *)
(***************************************************************************)

SourcePageState(p) ==
  /\ p.status \in {"available", "unreadable"}
  /\ p.status = "available" => p.revision # None

(* Every projection is accepted, rejected or reused, by its kind; a page   *)
(* that is not available has none.                                         *)
ReadableReceipt(p) ==
  LET total == p.counts["episode"] + p.counts["observation"] + p.counts["measurement"]
  IN /\ SourcePageState(p)
     /\ Cardinality(p.derivatives) + p.rejected + p.reused = total
     /\ \A k \in Kinds :
          Cardinality({r \in p.derivatives : r.kind = k}) <= p.counts[k]
     /\ p.status # "available" => total = 0

(* A history is of one episode and repeats no attempt.                     *)
FoldsClaims(id) ==
  /\ ~Repeats(db.outcomes[id])
  /\ \A c \in Elements(db.outcomes[id]) : c.episode = id

-------------------------------------------------------------------------------
(***************************************************************************)
(* Properties.                                                             *)
(***************************************************************************)

(* A receipt is the last of its page: what it lists is stored, each        *)
(* episode with an identity; its findings are stored, and about its page;  *)
(* and it can be read back.                                                *)
CommittedWhole ==
  \A p \in db.receipts :
    /\ p.derivatives \subseteq db.records /\ p.findings \subseteq db.findings
    /\ \A f \in p.findings : PageOf(f) = PageOf(p)
    /\ \A r \in p.derivatives : IsEpisode(r) => IdentitiesOf(db, r) # {}
    /\ ReadableReceipt(p)

(* Different pages, and one page under different configurations, never     *)
(* commit the same derivative, however their ingests interleave.           *)
OnePageCommits ==
  \A p, q \in db.receipts :
    p.derivatives \cap q.derivatives # {} => OwnerFromReceipt(p) = OwnerFromReceipt(q)

(* A page commits the derivatives of one revision only, even when two      *)
(* revisions are first claimed at the same time.                           *)
OneRevisionCommits ==
  \A p, q \in db.receipts :
    PageOf(p) = PageOf(q) /\ p.derivatives # {} /\ q.derivatives # {}
      => p.revision = q.revision

WindowIds(window) == [n \in DOMAIN window |-> window[n].id]

(* No id of the window names an observation and a measurement: the         *)
(* candidate path refuses it, the detector path is told which it means.    *)
Unambiguous(view, window) ==
  \A id \in Elements(WindowIds(window)) :
    \A r, s \in Loaded(view, id) : r.kind = s.kind

(* The two resolvers agree on every window that discloses what its         *)
(* measurements cite and is not ambiguous, whatever a crash, a fault or a  *)
(* rival left behind: the candidate path refuses what the detector path    *)
(* takes only past its own ceiling, and what it resolves, it resolves to   *)
(* the same references.                                                    *)
ResolversAgree ==
  \A window \in Windows, loop \in Loops :
    LET c == ResolveEvidence(View, loop, Scope, WindowIds(window), TRUE)
        d == ResolveDetectorEvidence(View, loop, Scope, window)
    IN WindowClosed(View, window) /\ Unambiguous(View, window)
         => /\ \/ c.status = d.status
               \/ c.status = "invalid" /\ Len(window) > MaxEvidenceIds
            /\ c.status # "invalid" => c.refs = d.refs

(* Outcome histories can be folded: no attempt twice, so that a page read  *)
(* again does not make an old attempt the latest, and every claim of the   *)
(* history's episode and with measurements it owns.                        *)
OutcomesFold ==
  \A id \in Ids :
    FoldsClaims(id) /\ \A c \in Elements(db.outcomes[id]) : OwnedMeasurements(c)

===============================================================================
