# Formal models of the governed learning loop

`packages/learning-loop` is a kernel that turns evidence of past work into
governed interventions: it ingests episodes, runs detectors over them, admits
candidates, has them reviewed, publishes them through an adapter, and tests
them in replayed experiments. It has no server and no scheduler. Hosts, any
number of them, call its functions over one shared record store, and every
store operation, adapter call, provider call and executor call is an `await`:
between any two of them another host may run the same function on the same
records, or this host may die. All coordination is in the records themselves:
create-only writes, compare-and-set, append at an expected revision, and a
fixed order of writes that a later call completes. These models are about that.

Line numbers refer to `packages/learning-loop/src` unless a path says otherwise.

## Inventory

| Component | State it keeps | Operations | What is hard |
|---|---|---|---|
| Intervention lifecycle (`records/intervention.ts`) | four-dimensional state, one transition stream each | the legal-transition table | long walks of legal edges reaching a state the rules exclude |
| Journaled publisher (`engine/publication*.ts`) | plans, consumptions, headers, memberships, transition streams, receipts; the destination's effects | `preparePublication`, `publish` | contention, crash between any two writes, lost acknowledgements, racing reversals |
| Experiments (`engine/experiment*.ts`) | definitions, attempt journal, evaluations, evaluation index, `validate` edges | `declareExperiment`, `runExperiment` | concurrent runners of one design, an executor that may have run, older evaluation finishing last |
| Context resolution and exposure (`engine/context-resolution.ts`) | resolutions, exposures, acknowledgements | `resolveContext`, exposure recording | stale folds under a concurrent reversal |
| Record store contract (`ports/store.ts`, `testing/in-memory-store.ts`) | records, revisions, insertion order | create, compareAndSet, append, tombstone, list | idempotent repeats, cursors over a growing store |
| File store (`node/*`) | cells, locks, catalog | the same five, on a file system | lock takeover, torn writes, cursor order against publication order |
| Candidate proposal (`engine/propose.ts`, `candidate-*.ts`) | content locks, lineage claims, scope membership, candidates | `runPropose` | lock takeover from a live holder, orphan claims |
| Recurrence admission (`engine/recurrence-*.ts`) | admission slots, claims, governance assessments | admission of a candidate by recurrence | slots completed by other hosts, lineage changing under a slot |
| Review and governance (`engine/review.ts`, `governance.ts`, `policy.ts`) | reviews, review index, policy | `runReviewCandidate`, governance view | index and record out of step |
| Ingest (`engine/ingest.ts`, `source-*.ts`, `episode-*.ts`) | episodes, identities, revisions, outcomes, receipts | `ingest` | partial page, receipt last, conflicting identity |
| Evidence and derivation binding | none of its own | validation of record graphs | closure over records that appear while it reads |
| Detector execution and packs (`engine/detector-*.ts`) | executions, pack receipts, occurrence claims | run a detector or a pack | receipt last, bounded retries |
| Semantic records (`engine/semantic-*.ts`) | facts, execution facts, scope index | persist, query | receipt last, partial persistence |
| Provider turns, generation, advisory review (`workflows/*`) | turn intents, dispatches, results, terminals, runs | run and recover a workflow | dispatch without result, recovery against a live run |
| Queries, pages, reports | cursors | list and view | pages over a store that grows |
| Loop construction, canonical data, parsers, reference detectors, transcript sources, examples | none | pure functions and wiring | not a protocol: not modelled |

Hosts interact only through the store; the publisher calls the destination,
experiments call a replay executor, workflows call a semantic provider.
Experiments and the publisher share one thing, the intervention's transition
stream: both append to it through `appendInterventionTransition`.

What makes each component correct is stated with its module below; the end says
what is left out and why.

| Component | Modules | Proofs |
|---|---|---|
| Intervention lifecycle | `InterventionTable`, `Intervention` | `InterventionProofs` |
| Journaled publisher | `Publication` (implements `Intervention`) | `PublicationProofs` |
| Experiments | `ExperimentRule`, `ExperimentGrading`, `Experiment` | `ExperimentProofs` |
| Candidate proposal, recurrence admission, what they read of reviews and pack runs | `Admission` (implements `AdmissionChain`) | `AdmissionProofs` |
| Provider turns, generation, advisory review | `SemanticAnswer`, `SemanticTurn` (implements `TurnLifecycle`) | `SemanticTurnProofs` |
| Ingest, evidence binding | `Ingest`, `Evidence` | `IngestProofs` |
| Record store, file store | `Cells`, `Store`, `FileStore` (implements `Store`) | `FileStoreProofs` |
| Context resolution, exposure | `Resolution` (implements `Ledger`) | `ResolutionProofs` |

Each `MC*` module gives the constants of one of these their values.

## Modules

### InterventionTable, Intervention

`InterventionTable` is `records/intervention.ts`: the four dimensions of a
state, the structural rules (`ValidState`) and the legal-transition table
(`LegalEdge`), one operator per kind of edge. `Intervention` is the abstract
specification: some interventions, each walking the table. It is what the
publisher promises, and what `Publication` is shown to implement. `MCPublication`
asserts the edge counts the record tests pin (647 legal edges, 512 of them validate)
and that an edge has one kind; TLC evaluates both before its runs.

### Publication

The protocol of `engine/publication.ts` and `engine/publication-journal.ts`.
A host `h` running `publish` has a program counter `pc[h]` and the locals of
the call; each action is the code between two awaits:

| Action | Code |
|---|---|
| `Prepare`, `PrepareReversal` | `preparePublication`: create-only plan, effects prepared or derived from the parent's cited receipts |
| `Begin`, `Resume`, `Check`, `Authority` | `runPublish` 903-1019: load plan and consumption; resume path; drift, supersession and parent checks; authority and the create-only consumption |
| `EnsureHeader`, `EnsureMembership` | the next two journal records |
| `ReadStream`, `AppendEdge`, `VerifyHead` | one round of `appendInterventionTransition`, for the `authorize`, `fail`, parent and `publish` edges (`stage`) |
| `LoadReceipt`, `ApplyEffect`, `FailEffect`, `StoreReceipt` | `applyOneEffect` and `recordFailure` |
| `ReadBefore`, `ReadFinal` | the two fold reads that decide the reported status |
| `Crash` | the host dies; its locals are lost, the store stays |

Abstractions. A plan is its content, so plans with equal digests are equal and
an intervention is named by its plan. A receipt is the effect it proves. A
stream revision is the stream's length. Registry, policy, candidate, governance
and supersession drift, and every answer of the authority other than a usable
authorization, are a nondeterministic refusal (`Finish(h, "refused")`): they
write nothing. Timestamps are left out, except that two contenders may write the
very same edge in the same instant, in which case the store answers
`exists_same` and the second takes it for its own (`AppendEdge`). The
destination remembers idempotency keys (`testing/in-memory-destination.ts`,
`testing/destination-conformance.ts`), so `applied` is a set.

### ExperimentRule, ExperimentGrading

`ExperimentRule` is the reference rule: repetitions of an arm are aggregated (mean, median,
sum, all or any), pairs are compared by episode, and `ReferenceVerdict` reads the verdict
off the deltas and the guardrails. It is exact: means are compared by
cross-multiplication over integers, where the code divides floating-point numbers.
`ExperimentGrading` says of the rule that exchanging the arms mirrors the verdict
(`Mirrored`) and that no improvement survives a regressed guardrail (`GuardrailsDefeat`).
TLC checks every grading of ten small designs, in the run where experiments record
verdicts; `ExperimentProofs` proves both for all designs and gradings.

### Experiment

The protocol of `engine/experiment.ts`, `engine/experiment-attempt.ts` and the
evaluation half of `engine/publication-journal.ts`; again one action per await.

| Action | Code |
|---|---|
| `Declare` | `runDeclareExperiment`: the frozen design, create-only |
| `Begin`, `Refuse` | `runRunExperiment` 804-822: a concluded experiment goes straight to finalization; what cannot be resolved is refused |
| `Load`, `Raced`, `Dispatch`, `Execute`, `Complete` | one slot of the walk: the durable attempt, a concurrent conclusion, the create-only dispatch, the executor, completion by compare-and-set |
| `ReadIndex`, `AppendIndex`, `Record` | `finalizeEvaluation`: index entry first, then the create-only evaluation |
| `FoldStream`, `FoldEvaluations` | the fold that decides whether this evaluation is the latest and already bound |
| `ReadEdge`, `AppendEdge`, `VerifyEdge` | `appendInterventionTransition` for the validate edge |
| `Crash`, `Publisher` | a host dies; the publisher appends any other legal edge to the subject |

Abstractions. An attempt keeps what its attestation says relative to its request
(fingerprint own, other arm's, foreign; request echoed; graded; cost), not the
attestation. The publisher is an environment that takes any legal edge, because
every edge the detailed publisher appends is one (`PublisherImplementsLifecycle`); `Moved`
names the states it may take an intervention to.
`FoldEvaluations` reads the index and the evaluations in one step although the code
awaits between them: both only grow, and the fold ignores entries without a record.
Executor registration, episode identity and rule digests are the nondeterministic
`Refuse`.

### AdmissionChain, Admission

`AdmissionChain` is what decision 0018 promises of one recurrence group: the
candidates it admits form a single chain. `Admission` is the protocol that keeps the
promise (`engine/propose.ts`, `engine/recurrence-admission.ts`, its records, and the
parts of `recurrence-claims.ts`, `candidate-review-index.ts` and
`detector-pack-run-receipt.ts` it reads): a candidate's receipt is the last of eight
durable writes, and a per-group stream of slots decides who may write it.

| Action | Code |
|---|---|
| `Begin` | `runPropose` up to admission: an anchored retry goes on with the anchored claim, anything else is stamped afresh |
| `Forward` | `forwardCompleteCandidateAdmissions`: validate the stream; a head without a receipt is completed first, whoever it belongs to |
| `Prepare`, `TakeSnapshot` | `prepareCandidateAdmission`: own receipt, the stream's ceiling, the snapshot, and governance of the frontier |
| `Decide`, `Lock`, `Poll`, `Mark` | the create-only decision by id, the create-only content lock, the wait for another owner's receipt, the review marker |
| `Slot` | `appendCandidateAdmissionSlot` at the revision the forward pass validated; a lost slot goes back to `Forward` |
| `Complete`, `Member`, `Scope`, `Receipt` | `completeAdmissionReservation`: binding, group member, scope membership, receipt |
| `Crash` | the host dies; its locals are lost, the store stays |
| `GrowGroup`, `IndexReview`, `RecordReview` | a pack run adds an episode; `runReviewCandidate` appends its index entry, then creates the review |

Abstractions. One loop with a detector-orchestration policy and one recurrence group;
the candidate is derivation-backed and grouped. Evidence is the number of distinct
episodes. A snapshot is accepted by the code when two readings of append-only records
are equal, so it is taken at one instant; drift and churn are its nondeterministic
refusal. Snapshot and reservation records are stored under their own digest just
before the slot, where nobody looks for them until a slot names them, so they are
part of `Slot`. `Poll` is the last of the eight reads of the owner's receipt. Left
out: records from before admission existed (and with them lock takeover and
historical supersession), byte ceilings, input validation.

### TurnLifecycle, SemanticAnswer, SemanticTurn

`TurnLifecycle` is what decisions 0021 to 0023 promise of one execution or review
key: open, dispatched, called, recorded, committed, in that order and each at most
once. `SemanticAnswer` is the ladder that turns a provider's answer into one of five
result statuses (`Grade`) and, apart from it, what a result must pass to be stored
(`Storable`): the assertions on its fields, and the ceilings on its nodes and bytes.
`SemanticTurn` is the protocol of both workflows (`workflows/*`, and
`engine/semantic-persistence.ts` for the child execution); where generation and
advisory review differ, the guard of an action names the lane.

| Action | Code |
|---|---|
| `RunGeneration`, `RunAdvisory`, `Recover`, `LoadAttempt`, `FindAttempt` | a run of a prepared plan and the inner recovery it starts with; a recovery by key |
| `ClassifyDispatch`, `ClassifyResult`, `ClassifyTerminal` | `classifySemanticTurnPersistence`: three reads, each behind an await |
| `ResumeGeneration`, `ResumeAdvisory`, `Existing` | what is done with the classification, the completion intent loaded only then |
| `RevalidateGeneration`, `RevalidateAdvisory` | the plan held against the store, before the records and again after them |
| `Reserve`, `LockExecution`/`LockReview`, `Authorize`, `AttemptGeneration`/`AttemptAdvisory` | the create-only records that precede egress |
| `Claim`, `Dispatch` | `claimSemanticDispatch`: stamped inside both windows, then created; a create answered `exists_same` is not permission to call |
| `Invoke`, `Unknown`, `SettleGeneration`, `SettleAdvisory` | the provider callback; its failure, its timeout, its graded answer |
| `IntentGeneration`/`IntentAdvisory`, `PutResult`, `PutExecution`/`PutAssessment`, `PutChild`, `Index...`, `PutTurn` | what an answer makes durable: intent, result, what was generated, scope index, receipt last |
| `Prepare`, `ViewTurn`, `ViewChild` | `prepareGeneration` of an existing execution, `getTurn`, the lineage of a child execution |
| `Drift`, `Crash`, `Tick` | evidence withdrawn under the child graph; a dead host; the clock |

Abstractions. One key; a plan is its turn and its expiry, and a record is named by
what it binds. Whether the window, the subject or the reviewer still fits a plan is a
nondeterministic refusal of `Revalidate`. Token counts and duration are one amount
with one limit. What an answer weighs is decided once, when it arrives (`Sizes`): it
fits; or its binding or the intent around it exceeds a ceiling (100,000 nodes, 16 MiB,
64 MiB; `semantic-turn-outcome.ts:164`, `semantic-generation-record.ts:33`) and the call
throws before anything is written; or only the result record does, after the intent. Reloads of write-once records that a call has already seen are not
steps of their own.

### Evidence, Ingest

`Ingest` is `engine/ingest.ts` with the derivative owners, revision and identity
streams, receipts and outcome claims it writes; a page is committed by its receipt,
written last. `Evidence` is `engine/evidence-binding.ts`: both resolvers, as functions
of what the namespaces held when they were read.

| Action | Code |
|---|---|
| `StartIngest`, `OpenPage`, `ClaimRevision`, `ConfirmRevision` | a call; the committed receipts read once per page; the revision claimed, and accepted only if it is the only one |
| `IngestEpisode`, `IngestObservation`, `IngestMeasurement` | the checks of one record, ending in its owner claim (`ClaimDerivativePage`) |
| `CreateDerivative`, `PersistIdentity`, `ConfirmIdentity` | the create-only record; an episode's identity claim, and its reading after it |
| `FailRecord` | a port throws while one record is in work; the page goes on |
| `CheckOutcomes`, `PersistHealthFinding`, `CommitPage` | outcomes checked, findings in order, the receipt |
| `ResolveOutcome`, `PersistOutcomeClaim`, `NextPage`, `Import` | outcome histories after the receipt; the import receipt |
| `Crash` | what the call holds in memory is lost |

Abstractions. One source; a registration stands for adapter version, trust ceiling and
registration revision. A record is its own digest, so create-only namespaces are sets.
An append loop is the append that wins together with the reading after it. Parsing of
projections, registration and content policies enter as inputs. An outcome claim is
validated when it is built (`OwnedMeasurements`), and the call throws if it cannot be.

Each path has its ceilings. The candidate path takes 1,000 ids, and a measurement's
citations go through the same check (`evidence-binding.ts:36`, `:168`); a window may
disclose 5,000 (`:37`, `:279`); the reference to a measurement lists 1,000 observations at
most, and the detector path throws when it would list more (`records/evidence-ref.ts:302`).
They are the constants `MaxEvidenceIds`, `MaxDetectorIds` and `MaxSupports`; nothing is
assumed but that the first is none above the others. So `ResolversAgree` allows the two
paths one difference: past its ceiling the candidate path refuses.

`ResolversAgree` is about windows that name no id in both namespaces (`Unambiguous`).
Ids are `<source>/<record>` whatever the kind (`engine/context.ts:122`), so an observation
and a measurement may share one: the candidate path then refuses it
(`evidence.kind_ambiguous`, `evidence-binding.ts:234`), while the detector path is told
the kind and reads that record (`:392`).

### Cells, Store, FileStore

`Cells` is what one write makes of one cell and what it answers (`ports/store.ts`,
`testing/in-memory-store.ts`). `Store` is the promise to concurrent processes: a call
takes effect at one instant between start and return and answers about that instant,
or fails, or dies. One answer is weaker than the reference store's (`Lose`, see
Findings). `FileStore` is `node/file-store.ts`, `node/locks.ts` and `node/cells.ts`.

| Action | Code |
|---|---|
| `AcquireLock`, `SeeStale`, `TakeOver`, `GiveUp`, `Expire` | the lock file of a key, and of the counters: exclusive create, expiry, rename aside, timeout |
| `Look`, `CompareAndSetHeld`, `AppendHeld`, `TombstoneHeld` | the reading before any lock, and the one under the lock of the key |
| `ReserveWrite`, `ReleaseMeta` | the namespace counters bumped under their own lock |
| `CommitCreate`, `ReadWinner`, `CommitReplace`, `Release` | exclusive link; the winner's cell read; rename if the lock is still held |
| `List`, `CatalogFor`, `ScanCatalog`, `ReadPage`, `EndListing` | a paged listing over the cached catalog |
| `Crash` | a holder leaves its lock behind |

Abstractions. The check that a lock is still held and the rename after it are one step:
`node/locks.ts:9-14` names the window between them and accepts it. Any publication changes the directory's identity (so do lock
and temporary files in the code, which only makes the cache colder). The end of a scan
and the readings after it are one step. Path escaping, symbolic links and `fsync` are
left out.

### Ledger, Resolution

`Ledger` is what `records/exposure.ts` promises: one resolution yields one exposure
set. `Resolution` is `engine/context-resolution.ts`, while publishers and experiments
move the interventions along the table.

| Action | Code |
|---|---|
| `PersistMembership`, `Transition` | the environment: membership before the first transition, then any legal edge |
| `StartResolve`, `ListMemberships`, `ReadMember` | `resolveContext`: scope and ancestors, each member folded by itself |
| `RefuseStale`, `PersistResolution` | two versions in force at once; the content-addressed receipt, create-only |
| `StartAcknowledge`, `LoadExposureSet`, `ReadIndex`, `AppendIndex`, `CreateExposureSet` | `acknowledgeExposure`: claims checked against the receipt, index entry first, then the set |
| `Return`, `Crash` | the caller has its answer; the host dies |

Abstractions. A scope is its digest, a receipt's id its content, an entry's id the
intervention and the length of its stream. Headers, plans, candidates, publication
receipts, observations and experiment definitions never change: they are constants.
`States` and `MaxEdges` bound what the environment does.

## Runs

| Run | Instance | Shows |
|---|---|---|
| `publication_contention` | 2 hosts, effects `<<rollback, irreversible>>`, 2 append attempts | the journal's write order, complete publications, ordered reversals, truthful completion, and that the streams implement `Intervention` |
| `publication_recovery` | 2 hosts, 1 effect, fairness, faults cease | every call ends; every consumed plan ends published or reversed |
| `resumed_after_reversal` | 1 host, violation | see Findings |
| `experiment_journal` | 2 hosts, 2 experiments of one subject, ceiling 2, an index of one place | a slot executes once, joint spending respects the ceiling, the evaluation says what the journal says, the index stays within its limit, every fold reads |
| `experiment_recovery` | 1 host, 3 experiments, an index of two places, fairness; beside it ten designs of one or two pairs in every grading over 0..2 | every declared experiment is evaluated and bound, or refused by the full index; the verdict is even-handed and never improved past a guardrail |
| `late_verdict` | 2 hosts, 2 experiments of one subject, violation | see Findings |
| `admission` | 2 hosts, a root and two rival successors, reviews, a growing group | the receipt is last, a slot can be completed by anybody, rejections bind, the admissions implement `AdmissionChain` |
| `admission_recovery` | 2 hosts, three roots, two of one content, fairness | a slot that was won leads to its receipt |
| `semantic_turn` | 2 hosts, 2 rival plans of one key, a generation that discloses and a review that does not, 2 instants, fairness | the provider is called at most once, only on accounted records; the receipt is last; an answer in time is lost to its size alone; a durable answer is committed; the key implements `TurnLifecycle` |
| `ingest` | 2 hosts under two configurations, five pages (changed, repeated, partial, refused, unreadable), 2 calls, 1 crash, 1 failing record, windows within and past the candidate path's ceiling | pages commit whole, a derivative by one page, a page by one revision; both resolvers agree up to that ceiling; histories fold |
| `file_store` | 2 writers of a record and of a stream, 3 calls, 1 crash or expiry, a paged listing | the catalog misses nothing, what was there is listed once, the files implement `Store` |
| `resolution` | 2 hosts with different clocks and registrations, 3 interventions in two scopes, 3 calls, 1 crash | what is frozen was in force during the call, one receipt per content, sets are indexed, the sets implement `Ledger` |

Bounds. All publication runs use one forward plan: a second one would only add
interventions that no step relates to the first; a destination's declared
after-effects decide which reversals exist. Two hosts and two attempts are the
least with which an append loop can conflict, reload and give up. The forward plan has
one reversal in the contention run, raced by two hosts; two different reversals of one
plan are out of TLC's reach in five minutes, and `ReversalReachesParent` is proved for any
number of them. The code's
`MAX_APPEND_ATTEMPTS` is 8 and its `MAX_EVALUATIONS_PER_INTERVENTION` 1000; the
proofs hold for every positive value.

A ceiling of 2 over slots that cost 1 or 2 puts the stop before and after the last
slot. `MaxPublisherEdges` bounds the edges of the environment: one suffices for a
subject to exist (its first edge) and the verdicts of the other experiment supply
the contention on the stream. An index of one place under two experiments is the least
that can overflow.

In the admission runs one frontier has one successor, so of the rivals only one can
be admitted: a call that lost its slot finds the frontier changed and is refused, and
two slot attempts (the code has 8) reach every outcome of the loop. Two episodes with
a multiplier of 2 put a rejected root's successor below and exactly at its threshold.
Only the root is reviewed, once: no successor of a successor is proposed. The
recovery run has one attempt and no reviews; what it asks is who completes whose slot.

One of the rival turns expires at the second instant, so that plan and authorization
can run out between any two records. The provider's answers in the run are at the cost
ceiling and paid in another currency, each of any size, for these are the ones whose
grading decides what is kept; of all the others `GradesAreStorable` is proved. In `ingest` the four inputs contain the same episode and observation under two
revisions, on two pages and under two configurations; two calls are the least that
can race or repeat, and one fault or crash the least that leaves a remnant for the
second. The ceilings of 2 ids for a candidate and 3 for a window are the least that
admit a measurement with what it cites, and a window between the two. In `file_store` three calls let a paused process meet two others' writes; a
page of one record makes a listing cross them. In `resolution` an old and a new version
of one candidate overlap while a call folds them; two requests differ in whether the
budget omits.

Hosts are symmetric in safety runs whose hosts are interchangeable, never in the
liveness runs. Deadlock is not checked in `ingest`, `file_store` and `resolution`:
their number of calls is bounded, so they end.

Fairness. `RunFairness` and `FairSpec` are weak fairness of a call's own steps: an
`await` of the store, the adapter, the executor or the provider settles. `Crash` and
new calls have none. Each `RecoverySpec` adds that faults cease and that somebody
retries what is unfinished (strong fairness: another call may keep a retry from being
continuously enabled); the code has no scheduler, so this states what a host must do for the
journal to complete, as its reports tell it. For `Admission` the retry is the
proposer's (decision 0018, ruling 5), and it is needed only while its slot has no
receipt. For `SemanticTurn` it is a recovery while an answer is known and not
committed; that evidence keeps drifting under the child graph counts as a fault.

## Findings

- `resumed_after_reversal`: a failed plan that was disabled or rolled back can be
  retried; the retry applies its remaining effects and then throws
  `store.corrupt`. The resume path stops only for `published`. The property states
  decision 0026:120, a failed intervention is either resumed or reversed.
- `late_verdict`: the fold that finds an evaluation latest is several awaits older than
  the validate edge it leads to (`experiment.ts:787`), and nothing looks at the index again.
  With two hosts a newer evaluation is indexed and recorded in between, and the older one
  moves the state after it. The property states decision 0028:203, only the latest indexed
  evaluation may move the state. For the same reason the newer verdict need not be what the
  subject ends with, so `VerdictsBind` is checked with one host at a time.

Other behaviours the models contain and no property forbids, because no line of the
repository rules them out for every interleaving, or because a decision accepts them.

Publisher and experiments:

- A repeated failure appends nothing, so the receipts journaled since the first one are
  cited by no edge and a reversal omits their effects.
- A contender whose edge another host has already built on is told the store is corrupt;
  so is who retries a completed, rolled-back plan, which is not `no_op`.
- A host can re-send an effect whose receipt a contender has just made durable, and only
  the adapter's key memory keeps the effect single (`publication.ts:772`).
- The supersession scan precedes the await of the authority (`publication.ts:953`): a
  successor proposed meanwhile does not stop the publication.
- A run stopped at its ceiling records `not_run` slots and is inconclusive, where the
  missingness rule (`records/experiment.ts:151`) says invalid.

Admission:

- A proposal whose content lock was taken by another id claims its own id first, so its
  retries throw `store.conflict` even where the first call answered with the owner.
- A retry whose candidate another host completes between its own-receipt check and its
  snapshot (`recurrence-admission.ts:395`) is refused: the candidate is now the frontier.
- Two hosts that propose the same id and content at different clock readings differ in
  their claims; the second create of the decision conflicts and the call ends in
  `store.corrupt` (`recurrence-claims.ts:915`), which decision 0018:301 keeps for
  impossible graphs.

Workflows:

- A recovery that reads dispatch, result and intent across another host's commit can
  report `store.corrupt` of a healthy store (`generation-run.ts:309`), which is none of the
  answers decision 0022:207 gives a recovery. The same reading order lets a run's
  existing path answer `semantic.workflow_output_unavailable` of a turn that is being
  completed.
- An answer in time and within its budgets whose binding exceeds 100,000 nodes or 16 MiB,
  or whose intent exceeds 64 MiB, throws outside the ladder's `try`
  (`generation-run.ts:699`, `:754`), before anything is written: the turn stays
  `outcome_unknown`, where decision 0021:125 says that a known overrun is not erased into
  it. It speaks of overruns of the budget, and `AnswersKept` allows this loss and no other.
- A result record that is too large only when it is measured whole throws after its intent
  is durable. The intent promises a completion (decision 0022:159) and every recovery fails
  alike; `AnswersCommit` exempts it.
- A reservation that expired before its dispatch blocks its key for good
  (decision 0021:65 accepts that).
- A child execution read between its own receipt and its turn's is refused as corrupt.

Ingest and evidence:

- A record fails by itself, its page commits without it and is read again
  (`ingest.ts:876`): the second receipt lists the records that did not fail a second
  time. The owner is the same, but a derivative with two receipts is ambiguous to both
  resolvers (`evidence-binding.ts:963`, `:1278`), and the next page that meets it calls the
  store corrupt (`ingest.ts:207`).
- A measurement that cites more than 1,000 observations of its window makes the detector
  path throw where an oversized window is reported invalid (`records/evidence-ref.ts:302`).
- A page whose own finding blocks use makes its outcome unresolvable after its receipt
  is written; the call throws, and throws again on every retry (`ingest.ts:986`).
- A second revision of a page leaves evidence of the first usable until its finding is
  written.

Stores and resolution:

- Two appends of one operation id that both find no stream race for its creation, and the
  loser is told `conflict` without a look at whose operation won (`file-store.ts:295-297`);
  the reference store answers `exists_same`. A caller has to read
  the stream before it takes a conflict for another's. `Store!Lose` allows the answer.
- A listing's cursor passes over a record whose insertion index was reserved earlier and
  which is published later. The reference store reserves and publishes at once, so its
  promise (`in-memory-store.ts:15-17`, later writes never skip earlier records) is kept
  for records that were there when the listing began (`EarlierListed`).
- Two equal `snapshotRevisions` do not exclude a publication in between, because the
  counters are bumped before it; the bracket of a reading is as strong as the re-reading
  of its records.
- Members of a scope are folded at different instants: a set that was never in force
  together can be frozen, and a successor read before its predecessor's end gives a
  spurious `resolution.intervention_stale` (decision 0027, rulings 4 and 7).

## Proofs

| Module | What it proves, for every value of the constants |
|---|---|
| `InterventionProofs` | the three promises of the abstract lifecycle |
| `PublicationProofs` | types, every invariant of `publication_contention`, `CompletionTruthful`, `ImplementsLifecycle` |
| `ExperimentProofs` | types, `ExecutedOnce`, `SpendBounded`, `EvaluationFaithful`, `IndexBounded`, `FoldsReadable`; `Mirrored` and `GuardrailsDefeat` of the rule |
| `AdmissionProofs` | types, `ReceiptLast`, `SlotCompletable`, `OverrideEarned`, `ImplementsChain` |
| `SemanticTurnProofs` | types, `AtMostOneCall`, `EgressAccounted`, `TurnLast`, `AnswersKept`, `ImplementsTurn` |
| `FileStoreProofs` | types, `CacheComplete`, `EarlierListed`, `ImplementsStore` |
| `IngestProofs` | `CommittedWhole`, `OnePageCommits`, `OneRevisionCommits`, `OutcomesFold`, `ResolversAgree` |
| `ResolutionProofs` | types, `ResolutionFair`, `ReceiptCanonical`, `SetsIndexed`, `ImplementsLedger` |

The assumptions are those the modules declare on their constants: the shapes of inputs,
positive bounds, `None` being none of the values it stands in for. Some need a word. In
`Resolution`, interventions are finitely many and born at different instants
(`BirthAssumption`), where the code breaks a tie of instants by id, and a scope policy
that repeats a scope is refused before anything is read (`AncestorsAssumption`). In
`Experiment`, "publisher" marks the publisher's edges and names no experiment. In
`FileStore`, the keys are finitely many, as the files of a directory are. The ceilings
of evidence are any three numbers of which the candidate path's is none above the others
(`CeilingAssumption`). `Ingest`
takes any sequences of pages, available or not, whose projections come episodes first, then
observations, then measurements, as `runIngest` takes them; a window asks for observations
and measurements only. The proofs of
the protocols over the store have one skeleton, because they rest on the same fact:

- *The store only grows* (`Grows`, and `Later` in `PublicationProofs`): no step removes
  or rewrites a record, and whatever a host learned stays true. So what a host relies
  on survives the steps of all the others for free.
- *What a call stands on* (`Knows` and `ReadAt`, `Placed`, `Behind` and `Reserved`,
  `Standing`, `InWork` and `Claiming`): by program counter, the records its call has written or found. Each of
  its own steps establishes the facts of the next counter.
- *The records agree*: what each record stands on. The inductive invariant `IInv` is the
  conjunction. None of the properties is inductive alone, because each write is
  justified by something read many steps earlier.

`InterventionProofs` needs none of that:
it is about the walk of one table.

`PublicationProofs`. Every stream is sound (`Sound`, `JournalInv`): each entry continues
the one before, is a legal edge, and its evidence was durable when it was appended. The
append at an expected revision is what makes an edge built from an old read still an
edge of the current head. The safety invariants (`Safe`) follow for the writing step.

`ExperimentProofs`. At most one run is about to execute a slot (`OneExecutor`), since
the dispatch is create-only; a validate edge cites an indexed, recorded evaluation of
its verdict (`StreamStands`). A fold is behind the stream it reads, never beside it, so
the edges it read have their evaluations when it reads those.

What a run may spend and what it concludes are about its journal (`JInv`): the ended
slots are a prefix of the design, each valid one was given what the earlier ones left, and
what ended never changes. So the spend of a prefix is the budget that was taken from, and
an evaluation, built from a prefix, keeps standing while others journal what comes after.
The sums are the community modules' fold over a set; the lemmas that take it apart (one
element out, two parts, a reindexing, a bound of each term) are proved about sets of any
finite size, by the smallest counterexample where an induction theorem cannot be cited.

The rule needs no invariant. The slots of an arm are found by whole division, exchanging
the arms is a bijection on them, the k-th smallest value exists whatever repeats, and each
pair's delta changes its sign; so the favorable pairs become the unfavorable ones and each
threshold is met by the one exactly when its opposite is met by the other.

`AdmissionProofs`. A slot stands on a decided and locked candidate, on a snapshot that was
earned, and on a prefix that is complete (`SlotsStand`); a binding on its slot
(`BindingsStand`); a review on a receipt (`ReviewsAfter`). Whoever completes a slot finds
all it verifies, and evidence, once there, is never taken back. For `ImplementsChain`: once
every slot has its receipt, the frontier of the group is the last slot's candidate alone
(`FrontierIsLast`), and a decision taken of a stream is good while the stream has that
length (`WillFollow`); so each slot follows on the one before it.

`SemanticTurnProofs`. The records that precede egress name one another (`Bound`), a call
stands on a dispatch and one host at most is about to make it (`OneCaller`), and what is
known of an answer came from a call (`Facts`). That answers are kept rests on a lemma about
the ladder alone: what `Grade` makes of an answer is `Storable` unless it is bound and its
binding is too large (`GradesAreStorable`). What an answer weighs is decided with it and
never again (`Sized`, `Beyond`), so a report that the answer is lost, whenever it is made,
is of one that was too large (`Kept`).

For `ImplementsTurn`: until something of an answer is durable, one host alone can
write (`Pending`); whoever writes later writes what was recorded (`OneAnswer`). Every
step is then a step of `TurnLifecycle` or a stutter.

`FileStoreProofs`. A lock's owner is between its acquisition and its release
(`LocksStand`), so what it read under the lock is still there when it writes; an
insertion index is reserved for one cell (`IndexStands`), so pages in index order neither
repeat nor skip what was there (`ListStands`); a catalog is judged by the directory it was
read from (`CacheStands`), not by the counters, which run ahead. In the refinement a call
takes effect where it links or renames, or where it is answered without either.

`IngestProofs`. A page's tally counts every projection it has passed once (`Counted`), so
that the receipt adds up when it is written; by kind it does because what it lists has
different ids, found earlier on the page (`Listed`, `InWork`). The first owner claim of a
derivative stands (`UniqueOwners`), and what a receipt lists is claimed for its page
(`ReceiptsOwn`). A revision that anything was accepted under stood alone when it was read,
and claims are never withdrawn, so a page has one of those (`SettledOnce`), of calls still
open and of receipts together. `ResolversAgree` is a fact about any view (`Agreement`):
both paths bind the same records, both folds of the pages' health come to the same
(`Folded`), and what a measurement cites, resolved alone, is at fault only if the window
is, because more pages are never in better health. Citations are distinct ids of the window,
so a window within the candidate path's ceiling keeps them within every other (`NoMore`),
and past it the candidate path refuses (`CandidateCeiling`). Of the store it takes that an id names
one record and that citations are sequences (`CitingInv`).

`ResolutionProofs`. Nothing but the call's own program counter orders its readings, so the
invariant is about the walk: what it found was in force no earlier than the call began
(`Held`), nothing is met twice because the scopes ahead hold other members (`NothingTwice`),
and what stays in force is found or still ahead (`NothingMissed`). An append at a current
revision cannot repeat an index entry (`EntryAhead`), and a set stands on its entry.

Each `IInv` was checked by TLC on the instances of the runs before it was proved.

Only model-checked. Liveness (`NeverStranded`, `CallsReturn`, `VerdictsBind`,
`SlotCompletes`, `AnswersCommit`): its proofs would need `ENABLED`, which the prover does
not expand.

## Not modelled

- Parsing, canonical JSON and digests (a digest is the identity of its content),
  formatting of views and reports, transcript parsers, reference detectors, examples and
  scripts: pure functions without a protocol.
- Queries: read-only compositions of loads and pages. The cursor over a growing store
  and the folds they use are in `FileStore`, `Experiment` and `Resolution`.
- Detector execution and the bounded run of a pack: their results enter as the episodes of
  a recurrence group (`GrowGroup`) and as the child execution of a generation
  (`PutChild`). The receipt-last pattern they share with ingest and generation is checked
  there. The semantic graph's validation and historical evidence are left out with them.
- Reviews beyond what admission reads of them; manual and unbound proposals; records
  from before admission existed, and with them the takeover of a content lock.
- The supersession scan of a publication is part of its nondeterministic refusal.
- Liveness of ingest, of the file store and of resolution: their calls are bounded and
  end by themselves; no retry is theirs to make.
- Composition of a protocol with the file store in one state space. The protocols take the
  store by the promise `Store`, and `FileStore` is shown to keep that promise.
