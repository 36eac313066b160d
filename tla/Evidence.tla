------------------------------- MODULE Evidence -------------------------------
(***************************************************************************)
(* What stored evidence binds (engine/evidence-binding.ts): from the exact *)
(* ids of observations and measurements to references bound to the page    *)
(* receipt that commits each, to its episode and identity, to the episode's*)
(* own receipt, to the health of both pages and, for a measurement, to the *)
(* observations it cites and to the latest outcome of its episode.         *)
(*                                                                         *)
(* The operators are functions of a view, a record of what the namespaces  *)
(* held when they were read:                                               *)
(*   records     episodes, observations, measurements                      *)
(*   identities  claims of what logical episode a record is                *)
(*   receipts    page receipts, as the scan for evidence saw them          *)
(*   markers     page receipts, as the scan for episodes saw them          *)
(*   findings    evidence-health findings                                  *)
(*   outcomes    by episode record, its outcome claims in order            *)
(* One source is configured.  A record is its own digest: a derivative     *)
(* tuple (kind, id, digest) is the record.                                 *)
(***************************************************************************)
EXTENDS Naturals, Sequences, FiniteSets

CONSTANTS
  MaxEvidenceIds,   \* ids the candidate path takes, and what a measurement may cite
  MaxDetectorIds,   \* ids a window may disclose
  MaxSupports       \* observations the reference to a measurement may list

(* The two paths have ceilings of their own; the candidate path's is the   *)
(* lower, and whatever it takes fits a reference.                          *)
ASSUME CeilingAssumption ==
  /\ MaxEvidenceIds \in Nat /\ MaxDetectorIds \in Nat /\ MaxSupports \in Nat
  /\ MaxEvidenceIds <= MaxDetectorIds /\ MaxEvidenceIds <= MaxSupports

Sole(S) == Cardinality(S) = 1
Only(S) == CHOOSE x \in S : TRUE
Elements(s) == {s[i] : i \in DOMAIN s}
Repeats(s) == Cardinality(Elements(s)) < Len(s)

(* The worst of some completeness values.                                  *)
Worst(values) ==
  IF "unknown" \in values THEN "unknown"
  ELSE IF "partial" \in values THEN "partial" ELSE "complete"

(* Health only worsens.                                                    *)
Health(invalid, incomplete) ==
  IF invalid THEN "invalid" ELSE IF incomplete THEN "incomplete" ELSE "ready"

(* A page, by what its findings name it.                                   *)
PageOf(x) == <<x.registration, x.artifact, x.ref>>

Marking(receipts, r) == {p \in receipts : r \in p.derivatives}

-------------------------------------------------------------------------------
(***************************************************************************)
(* Binding one record.                                                     *)
(***************************************************************************)

IsEpisode(r) == r.kind = "episode"

(* The record an id names.  Observations and measurements are namespaces   *)
(* of their own; an id found in both is ambiguous.                         *)
Loaded(view, id) == {r \in view.records : r.id = id /\ ~IsEpisode(r)}

IdentitiesOf(view, e) == {i \in view.identities : i.record = e.id}

(* Episodes whose one identity claim names the logical episode.            *)
EpisodesOf(view, logical) ==
  {[episode |-> e, identity |-> Only(IdentitiesOf(view, e))] :
     e \in {e \in view.records :
              /\ IsEpisode(e) /\ Sole(IdentitiesOf(view, e))
              /\ Only(IdentitiesOf(view, e)).logical = logical}}

(* The receipt is of the configured source, policy and artifact revision.  *)
ConfiguredSource(loop, r, p) ==
  /\ p.registration = loop.registration /\ p.policy = loop.policy
  /\ p.status = "available"
  /\ r.registration = p.registration
  /\ r.artifact = p.artifact /\ r.revision = p.revision

ValidEpisode(loop, scope, x) ==
  x.identity.registration = loop.registration /\ x.episode.scope = scope

(* The episode may be on another page of the same artifact revision, read  *)
(* under the same configuration.                                           *)
ValidEpisodeReceipt(p, q) ==
  /\ p.status = "available" /\ q.status = "available"
  /\ q.registration = p.registration /\ q.policy = p.policy
  /\ q.registry = p.registry
  /\ q.artifact = p.artifact /\ q.revision = p.revision

(* The full binding of r: at most one.  More than one receipt, or episode, *)
(* is as good as none.                                                     *)
Bindings(view, loop, scope, r) ==
  LET receipts == Marking(view.receipts, r)
      episodes == EpisodesOf(view, r.logical)
      markers == UNION {Marking(view.markers, x.episode) : x \in episodes}
  IN IF Sole(receipts) /\ Sole(episodes) /\ Sole(markers)
     THEN {b \in {[record |-> r, receipt |-> Only(receipts),
                   marker |-> Only(markers),
                   episode |-> Only(episodes).episode,
                   identity |-> Only(episodes).identity]} :
             /\ ConfiguredSource(loop, r, b.receipt)
             /\ ValidEpisode(loop, scope, Only(episodes))
             /\ ValidEpisodeReceipt(b.receipt, b.marker)}
     ELSE {}

Partial(b) ==
  b.record.completeness # "complete" \/ b.identity.completeness # "complete"

(***************************************************************************)
(* The health of the bound pages.  A finding made after a receipt still    *)
(* constrains it: every durable finding of its page counts.                *)
(***************************************************************************)

Grade(findings) ==
  Health(\E f \in findings : f.effect = "blocks_use", findings # {})

ReceiptGrade(receipts) ==
  Health(\E p \in receipts : p.status # "available",
         \E p \in receipts : p.completeness # "complete")

WorseOf(statuses) ==
  Health("invalid" \in statuses, "incomplete" \in statuses)

(* Candidate path: what each receipt lists, then a scan by page.           *)
FoldReceiptHealth(view, receipts) ==
  LET listed == UNION {p.findings : p \in receipts}
      stray == \/ listed \ view.findings # {}
               \/ \E p \in receipts :
                    \E f \in p.findings : PageOf(f) # PageOf(p)
      pages == {PageOf(p) : p \in receipts}
      current == {f \in view.findings : PageOf(f) \in pages}
  IN WorseOf({Health(stray, FALSE), ReceiptGrade(receipts),
              Grade((listed \cap view.findings) \cup current)})

(* Mutant: findings made after the receipts do not count.                  *)
FoldRequiredHealth(view, receipts) ==
  LET required == UNION {p.findings : p \in receipts}
  IN WorseOf({ReceiptGrade(receipts), Grade(required)})

(* Detector path: one scan that keeps what a receipt requires, then a      *)
(* check that nothing required is missing.                                 *)
FoldDetectorHealth(view, receipts) ==
  LET requiring(f) == {p \in receipts : f \in p.findings}
      pages == {PageOf(p) : p \in receipts}
      foreign(f) == \E p \in requiring(f) : PageOf(f) # PageOf(p)
      kept == {f \in view.findings :
                 ~foreign(f) /\ (requiring(f) # {} \/ PageOf(f) \in pages)}
      missing == \E p \in receipts : p.findings \ kept # {}
  IN WorseOf({Health(missing, FALSE), ReceiptGrade(receipts), Grade(kept)})

PagesOf(bindings) == UNION {{b.receipt, b.marker} : b \in bindings}
-------------------------------------------------------------------------------
(***************************************************************************)
(* References.                                                             *)
(***************************************************************************)

Reference(b, supports) ==
  [record |-> b.record, receipt |-> b.receipt, marker |-> b.marker,
   episode |-> b.episode, identity |-> b.identity, supports |-> supports]

(* The supports are observations of the measurement's own artifact         *)
(* revision, configuration and episode, and as complete as it says.        *)
OwnSupports(b, supports) ==
  /\ supports # <<>>
  /\ \A s \in Elements(supports) :
       /\ s.record.kind = "observation"
       /\ s.record.registration = b.record.registration
       /\ s.record.artifact = b.record.artifact
       /\ s.record.revision = b.record.revision
       /\ s.receipt.registry = b.receipt.registry
       /\ s.identity.logical = b.record.logical
       /\ s.episode = b.episode
  /\ b.record.completeness
       = Worst({s.record.completeness : s \in Elements(supports)})

(* The latest outcome of the episode lists the measurement.                *)
LatestLists(view, reference) ==
  LET claims == view.outcomes[reference.episode.id]
  IN claims # <<>> /\ reference \in Elements(claims[Len(claims)].measurements)

(* Ids the candidate path takes (validateExactIds).                        *)
Exact(ids) ==
  ids # <<>> /\ ~Repeats(ids) /\ Len(ids) <= MaxEvidenceIds

(* The sole references of ids, in order; refs is a function of the ids.    *)
InOrder(ids, refs) ==
  LET bound == {n \in DOMAIN ids : refs[ids[n]] # {}}
      place(n) == Cardinality({m \in bound : m <= n})
  IN [k \in 1..Cardinality(bound) |->
        Only(refs[ids[CHOOSE n \in bound : place(n) = k]])]

(***************************************************************************)
(* Candidate path, observations only: what a measurement's citations       *)
(* resolve to.                                                             *)
(***************************************************************************)
ResolveObservations(view, loop, scope, ids) ==
  LET bound(id) == UNION {Bindings(view, loop, scope, r) :
                            r \in {r \in Loaded(view, id) :
                                     Sole(Loaded(view, id))}}
      all == UNION {bound(id) : id \in Elements(ids)}
      refs == [id \in Elements(ids) |->
                 {Reference(b, <<>>) :
                    b \in {b \in bound(id) : b.record.kind = "observation"}}]
  IN IF ~Exact(ids)
     THEN [status |-> "invalid", refs |-> <<>>]
     ELSE [status |->
             WorseOf({Health(\E id \in Elements(ids) : refs[id] = {},
                             \E b \in all : Partial(b)),
                      FoldReceiptHealth(view, PagesOf(all))}),
           refs |-> InOrder(ids, refs)]

(***************************************************************************)
(* Candidate path.  A measurement resolves its citations on their own; it  *)
(* must be in its episode's latest outcome unless that outcome is what the *)
(* references are for.                                                     *)
(***************************************************************************)
ResolveEvidence(view, loop, scope, ids, requireOutcomeClaim) ==
  LET bound(id) == UNION {Bindings(view, loop, scope, r) :
                            r \in {r \in Loaded(view, id) :
                                     Sole(Loaded(view, id))}}
      all == UNION {bound(id) : id \in Elements(ids)}
      measured == {b \in all : b.record.kind = "measurement"}
      support(b) == ResolveObservations(view, loop, scope, b.record.cites)
      reference(b) == Reference(b, IF b \in measured THEN support(b).refs
                                                     ELSE <<>>)
      qualified(b) ==
        b \in measured =>
          /\ support(b).status # "invalid"
          /\ Len(support(b).refs) = Len(b.record.cites)
          /\ OwnSupports(b, support(b).refs)
          /\ requireOutcomeClaim => LatestLists(view, reference(b))
      refs == [id \in Elements(ids) |->
                 {reference(b) : b \in {b \in bound(id) : qualified(b)}}]
  IN IF ~Exact(ids)
     THEN [status |-> "invalid", refs |-> <<>>]
     ELSE [status |->
             WorseOf({Health(\E id \in Elements(ids) : refs[id] = {},
                             \E b \in all : Partial(b)),
                      FoldReceiptHealth(view, PagesOf(all))}
                     \cup {support(b).status : b \in measured}),
           refs |-> InOrder(ids, refs)]

(***************************************************************************)
(* Detector path: the disclosed window, of (kind, id) inputs, as one       *)
(* batch.  What a measurement cites must be an observation of the window;  *)
(* when it cites more than a reference can list, the batch throws.         *)
(***************************************************************************)
Named(view, input) ==
  {r \in view.records : r.kind = input.kind /\ r.id = input.id}

Disclosed(window, id) ==
  {input \in Elements(window) : input.id = id /\ input.kind = "observation"}

WindowClosed(view, window) ==
  /\ window # <<>> /\ ~Repeats([n \in DOMAIN window |-> window[n].id])
  /\ Len(window) <= MaxDetectorIds
  /\ \A input \in Elements(window) :
       /\ Named(view, input) # {}
       /\ \A r \in Named(view, input) :
            r.kind = "measurement" =>
              /\ r.cites # <<>> /\ ~Repeats(r.cites)
              /\ \A c \in Elements(r.cites) : Disclosed(window, c) # {}

ResolveDetectorEvidence(view, loop, scope, window) ==
  LET bound(input) == UNION {Bindings(view, loop, scope, r) :
                               r \in Named(view, input)}
      all == UNION {bound(input) : input \in Elements(window)}
      observed(id) == {Reference(b, <<>>) :
                         b \in UNION {bound(input) :
                                        input \in Disclosed(window, id)}}
      measurement(b) ==
        Reference(b, InOrder(b.record.cites,
                             [c \in Elements(b.record.cites) |-> observed(c)]))
      supported(b) ==
        /\ \A c \in Elements(b.record.cites) : observed(c) # {}
        /\ OwnSupports(b, measurement(b).supports)
      oversized(b) ==
        /\ b.record.kind = "measurement" /\ supported(b)
        /\ Len(b.record.cites) > MaxSupports
      qualified(b) == supported(b) /\ LatestLists(view, measurement(b))
      refs == [input \in Elements(window) |->
                 IF input.kind = "observation" THEN observed(input.id)
                 ELSE {measurement(b) : b \in {b \in bound(input) : qualified(b)}}]
  IN IF ~WindowClosed(view, window)
     THEN [status |-> "invalid", refs |-> <<>>]
     ELSE IF \E b \in all : oversized(b)
     THEN [status |-> "throws", refs |-> <<>>]
     ELSE [status |->
             WorseOf({Health(\E input \in Elements(window) : refs[input] = {},
                             \E b \in all : Partial(b)),
                      FoldDetectorHealth(view, PagesOf(all))}),
           refs |-> InOrder(window, refs)]
===============================================================================
