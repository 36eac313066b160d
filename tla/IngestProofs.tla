----------------------------- MODULE IngestProofs -----------------------------
(***************************************************************************)
(* What is ingested is committed whole, by one page and of one revision,   *)
(* for any hosts, configurations, inputs and bounds.  The store only       *)
(* grows, so that what a call has seen there stays (OthersKept), and the   *)
(* invariant says what a call may rely on between two of its writes: its   *)
(* tally counts every projection it has passed once (Counted); what it     *)
(* will list is stored and claimed for its page (Listed, InWork); it       *)
(* accepts only under a revision that stood alone when it was read         *)
(* (Accepting, and Settled for all of them together).                      *)
(***************************************************************************)
EXTENDS Ingest, FiniteSetTheorems, SequenceTheorems, TLAPS

Taken == {"create", "identity", "identified"}
Reading == {"revision", "confirm", "records", "findings"} \cup Taken
Opened == Reading \cup {"outcomes", "claim"}

(* The store, a tally and a call are records of these fields.              *)
StoreFields == {"records", "identities", "receipts", "findings", "outcomes",
                "owners", "revisions", "imports"}
TallyFields == {"n", "now", "owned", "committed", "accepting", "conflict",
                "derivatives", "diagnostics", "rejected", "reused", "refused",
                "mismatched", "pending", "claim"}
CallFields == {"pc", "input", "at", "page", "done"}

StoreShape == db = [f \in StoreFields |-> db[f]]
TallyShape(t) == t = [f \in TallyFields |-> t[f]]
CallShape(w) == w = [f \in CallFields |-> w[f]]

WorkShape ==
  /\ work = [h \in Hosts |-> work[h]]
  /\ \A h \in Hosts : CallShape(work[h]) /\ TallyShape(work[h].page)

(* A call that is open is at a page of an input.                           *)
Placed(h) ==
  /\ ~At(h, "idle") => work[h].input \in Inputs /\ work[h].at \in Nat \ {0}
  /\ work[h].pc \in Opened => work[h].at \in DOMAIN work[h].input

(* Every projection the page has passed is counted once.                   *)
Counted(h) ==
  work[h].pc \in Reading =>
    LET t == Tally(h)
        size == Len(Page(h).records)
    IN /\ t.n \in 1..(size + 1) /\ t.rejected \in Nat /\ t.reused \in Nat
       /\ IsFiniteSet(t.derivatives)
       /\ Cardinality(t.derivatives) + t.rejected + t.reused = t.n - 1
       /\ work[h].pc \in {"revision", "confirm"} => t.n = 1
       /\ work[h].pc \in Taken => t.n <= size
       /\ At(h, "findings") => t.n = size + 1

Earlier(h, r) ==
  \E m \in 1..(Tally(h).n - 1) :
    Page(h).records[m].kind = r.kind /\ Page(h).records[m].id = r.id

OwnerClaim(r, owner) == [derivative |-> r, owner |-> owner]

(* What the page's receipt will list.                                      *)
Listed(h) ==
  work[h].pc \in Reading =>
    \A r \in Tally(h).derivatives :
      /\ r \in db.records /\ Earlier(h, r)
      /\ IsEpisode(r) => IdentitiesOf(db, r) # {}
      /\ OwnerClaim(r, PageOwner(h)) \in db.owners

(* The record in work.                                                     *)
InWork(h) ==
  work[h].pc \in Taken =>
    /\ Tally(h).now.kind = Projection(h).kind /\ Tally(h).now.id = Projection(h).id
    /\ ~Repeated(h)
    /\ ~At(h, "create") => Tally(h).now \in db.records
    /\ Tally(h).owned => OwnerClaim(Tally(h).now, PageOwner(h)) \in db.owners

(* A page that takes records has decided on its revision.                  *)
Accepting(h) ==
  /\ At(h, "confirm") => RevisionClaim(h) \in db.revisions
  /\ work[h].pc \in Reading /\ Tally(h).derivatives # {} => Tally(h).accepting
  /\ work[h].pc \in {"records"} \cup Taken /\ Tally(h).n <= Len(Page(h).records)
       => Tally(h).accepting
  /\ At(h, "idle") => ~Tally(h).accepting

Claiming(h) == At(h, "claim") => OwnedMeasurements(Tally(h).claim)

HostInv(h) ==
  /\ Placed(h) /\ Counted(h) /\ Listed(h) /\ InWork(h) /\ Accepting(h)
  /\ Claiming(h)

(* One record under an id; one owner of a derivative.                      *)
UniqueRecords ==
  \A r, s \in db.records : r.kind = s.kind /\ r.id = s.id => r = s

UniqueOwners ==
  /\ \A c \in db.owners : c = OwnerClaim(c.derivative, c.owner)
  /\ \A c, d \in db.owners : c.derivative = d.derivative => c = d

(* The revisions something was, or may be, accepted under: one for a page. *)
ReceiptRevision(p) ==
  [registration |-> p.registration, artifact |-> p.artifact, ref |-> p.ref,
   revision |-> p.revision]

Settled ==
  {RevisionClaim(h) : h \in {h \in Hosts : Tally(h).accepting}}
    \cup {ReceiptRevision(p) : p \in {p \in db.receipts : p.derivatives # {}}}

SettledOnce ==
  /\ IsFiniteSet(db.revisions) /\ Settled \subseteq db.revisions
  /\ \A c, d \in Settled : PageOf(c) = PageOf(d) => c = d

ReceiptsOwn ==
  \A p \in db.receipts : \A r \in p.derivatives :
    OwnerClaim(r, OwnerFromReceipt(p)) \in db.owners

Histories ==
  /\ db.outcomes = [id \in Ids |-> db.outcomes[id]]
  /\ \A id \in Ids : db.outcomes[id] \in Seq(Elements(db.outcomes[id]))

IInv ==
  /\ StoreShape /\ WorkShape
  /\ \A h \in Hosts : HostInv(h)
  /\ UniqueRecords /\ UniqueOwners /\ SettledOnce /\ ReceiptsOwn /\ CommittedWhole
  /\ Histories /\ OutcomesFold

-------------------------------------------------------------------------------
(***************************************************************************)
(* Frames: what a write to the store or to a call leaves as it was.        *)
(***************************************************************************)

Frame(h) == WorkShape' /\ \A g \in Hosts \ {h} : work'[g] = work[g]

(* The call of h is at the same page.                                      *)
Stays(h) == work'[h].input = work[h].input /\ work'[h].at = work[h].at

Grows ==
  /\ db.records \subseteq db'.records /\ db.identities \subseteq db'.identities
  /\ db.owners \subseteq db'.owners /\ db.revisions \subseteq db'.revisions
  /\ db.findings \subseteq db'.findings /\ db.receipts \subseteq db'.receipts

LEMMA PutFacts ==
  ASSUME WorkShape, NEW h \in Hosts, NEW pc, NEW t, TallyShape(t), Put(h, pc, t)
  PROVE  /\ Frame(h) /\ Stays(h) /\ work'[h].pc = pc /\ work'[h].page = t
         /\ work'[h].done = work[h].done
<1> DEFINE w == [work[h] EXCEPT !.pc = pc, !.page = t]
<1>1. work' = [g \in Hosts |-> IF g = h THEN w ELSE work[g]]
  BY DEF Put, WorkShape
<1>2. CallShape(work[h])
  BY DEF WorkShape
<1>3. /\ CallShape(w) /\ w.pc = pc /\ w.page = t /\ w.input = work[h].input
      /\ w.at = work[h].at /\ w.done = work[h].done
  BY <1>2 DEF CallShape, CallFields
<1> HIDE DEF w
<1>4. work'[h] = w /\ \A g \in Hosts \ {h} : work'[g] = work[g]
  BY <1>1
<1>5. work' = [g \in Hosts |-> work'[g]]
  BY <1>1
<1>6. ASSUME NEW g \in Hosts PROVE CallShape(work'[g]) /\ TallyShape(work'[g].page)
  BY <1>3, <1>4 DEF WorkShape
<1> QED
  BY <1>3, <1>4, <1>5, <1>6 DEF Frame, WorkShape, Stays

(* A call that is set aside, or starts.                                    *)
LEMMA SetFacts ==
  ASSUME WorkShape, NEW h \in Hosts, NEW w, CallShape(w), TallyShape(w.page),
         work' = [work EXCEPT ![h] = w]
  PROVE  Frame(h) /\ work'[h] = w
<1>1. work' = [g \in Hosts |-> IF g = h THEN w ELSE work[g]]
  BY DEF WorkShape
<1>2. work'[h] = w /\ \A g \in Hosts \ {h} : work'[g] = work[g]
  BY <1>1
<1>3. work' = [g \in Hosts |-> work'[g]]
  BY <1>1
<1>4. ASSUME NEW g \in Hosts PROVE CallShape(work'[g]) /\ TallyShape(work'[g].page)
  BY <1>2 DEF WorkShape
<1> QED
  BY <1>2, <1>3, <1>4 DEF Frame, WorkShape

LEMMA SamePage ==
  ASSUME NEW h \in Hosts, Stays(h)
  PROVE  /\ Page(h)' = Page(h) /\ PageOwner(h)' = PageOwner(h)
         /\ RevisionClaim(h)' = RevisionClaim(h)
BY DEF Stays, Page, PageOwner, RevisionClaim, Loop

LEMMA WriteRecords ==
  ASSUME StoreShape, NEW X, db' = [db EXCEPT !.records = X]
  PROVE  /\ StoreShape' /\ db'.records = X /\ db'.identities = db.identities
         /\ db'.receipts = db.receipts /\ db'.findings = db.findings
         /\ db'.outcomes = db.outcomes /\ db'.owners = db.owners
         /\ db'.revisions = db.revisions
BY DEF StoreShape, StoreFields

LEMMA WriteIdentities ==
  ASSUME StoreShape, NEW X, db' = [db EXCEPT !.identities = X]
  PROVE  /\ StoreShape' /\ db'.records = db.records /\ db'.identities = X
         /\ db'.receipts = db.receipts /\ db'.findings = db.findings
         /\ db'.outcomes = db.outcomes /\ db'.owners = db.owners
         /\ db'.revisions = db.revisions
BY DEF StoreShape, StoreFields

LEMMA WriteReceipts ==
  ASSUME StoreShape, NEW X, db' = [db EXCEPT !.receipts = X]
  PROVE  /\ StoreShape' /\ db'.records = db.records /\ db'.identities = db.identities
         /\ db'.receipts = X /\ db'.findings = db.findings
         /\ db'.outcomes = db.outcomes /\ db'.owners = db.owners
         /\ db'.revisions = db.revisions
BY DEF StoreShape, StoreFields

LEMMA WriteFindings ==
  ASSUME StoreShape, NEW X, db' = [db EXCEPT !.findings = X]
  PROVE  /\ StoreShape' /\ db'.records = db.records /\ db'.identities = db.identities
         /\ db'.receipts = db.receipts /\ db'.findings = X
         /\ db'.outcomes = db.outcomes /\ db'.owners = db.owners
         /\ db'.revisions = db.revisions
BY DEF StoreShape, StoreFields

LEMMA WriteOutcomes ==
  ASSUME StoreShape, NEW X, db' = [db EXCEPT !.outcomes = X]
  PROVE  /\ StoreShape' /\ db'.records = db.records /\ db'.identities = db.identities
         /\ db'.receipts = db.receipts /\ db'.findings = db.findings
         /\ db'.outcomes = X /\ db'.owners = db.owners
         /\ db'.revisions = db.revisions
BY DEF StoreShape, StoreFields

LEMMA WriteOwners ==
  ASSUME StoreShape, NEW X, db' = [db EXCEPT !.owners = X]
  PROVE  /\ StoreShape' /\ db'.records = db.records /\ db'.identities = db.identities
         /\ db'.receipts = db.receipts /\ db'.findings = db.findings
         /\ db'.outcomes = db.outcomes /\ db'.owners = X
         /\ db'.revisions = db.revisions
BY DEF StoreShape, StoreFields

LEMMA WriteRevisions ==
  ASSUME StoreShape, NEW X, db' = [db EXCEPT !.revisions = X]
  PROVE  /\ StoreShape' /\ db'.records = db.records /\ db'.identities = db.identities
         /\ db'.receipts = db.receipts /\ db'.findings = db.findings
         /\ db'.outcomes = db.outcomes /\ db'.owners = db.owners
         /\ db'.revisions = X
BY DEF StoreShape, StoreFields

LEMMA WriteImports ==
  ASSUME StoreShape, NEW X, db' = [db EXCEPT !.imports = X]
  PROVE  /\ StoreShape' /\ db'.records = db.records /\ db'.identities = db.identities
         /\ db'.receipts = db.receipts /\ db'.findings = db.findings
         /\ db'.outcomes = db.outcomes /\ db'.owners = db.owners
         /\ db'.revisions = db.revisions
BY DEF StoreShape, StoreFields

(* What the call of g has seen of the store stays.                         *)
LEMMA OthersKept ==
  ASSUME NEW g \in Hosts, work'[g] = work[g], Grows, HostInv(g)
  PROVE  HostInv(g)'
<1>1. /\ Tally(g)' = Tally(g) /\ Page(g)' = Page(g) /\ PageOwner(g)' = PageOwner(g)
      /\ RevisionClaim(g)' = RevisionClaim(g) /\ Projection(g)' = Projection(g)
  BY DEF Tally, Page, PageOwner, RevisionClaim, Loop, Projection
<1>2. Placed(g)'
  BY DEF HostInv, Placed, At
<1>3. Counted(g)'
  BY <1>1 DEF HostInv, Counted, At
<1>4. Listed(g)'
  <2>1. ASSUME NEW r PROVE Earlier(g, r)' <=> Earlier(g, r)
    BY <1>1 DEF Earlier
  <2>2. ASSUME NEW r, IdentitiesOf(db, r) # {} PROVE IdentitiesOf(db', r) # {}
    BY <2>2 DEF IdentitiesOf, Grows
  <2> QED
    BY <1>1, <2>1, <2>2 DEF HostInv, Listed, Grows
<1>5. InWork(g)'
  <2>1. Repeated(g)' <=> Repeated(g)
    BY <1>1 DEF Repeated
  <2> QED
    BY <1>1, <2>1 DEF HostInv, InWork, At, Grows
<1>6. Accepting(g)'
  BY <1>1 DEF HostInv, Accepting, At, Grows
<1>7. Claiming(g)'
  BY <1>1 DEF HostInv, Claiming, At
<1> QED
  BY <1>2, <1>3, <1>4, <1>5, <1>6, <1>7 DEF HostInv

-------------------------------------------------------------------------------
(***************************************************************************)
(* What a step keeps when it does not touch it.                            *)
(***************************************************************************)

LEMMA HostsKept ==
  ASSUME IInv, NEW h \in Hosts, Frame(h), Grows, HostInv(h)'
  PROVE  \A g \in Hosts : HostInv(g)'
BY OthersKept DEF IInv, Frame

LEMMA ReceiptsKept ==
  ASSUME IInv, Grows, db'.receipts = db.receipts
  PROVE  ReceiptsOwn' /\ CommittedWhole'
<1>1. ReceiptsOwn'
  BY DEF IInv, ReceiptsOwn, Grows
<1>2. ASSUME NEW r, IdentitiesOf(db, r) # {} PROVE IdentitiesOf(db', r) # {}
  BY <1>2 DEF IdentitiesOf, Grows
<1>3. CommittedWhole'
  BY <1>2 DEF IInv, CommittedWhole, Grows
<1> QED
  BY <1>1, <1>3

LEMMA HistoriesKept ==
  ASSUME IInv, db'.outcomes = db.outcomes
  PROVE  Histories' /\ OutcomesFold'
BY DEF IInv, Histories, OutcomesFold, FoldsClaims

LEMMA SettledKept ==
  ASSUME IInv, Grows, IsFiniteSet(db'.revisions), Settled' \subseteq Settled
  PROVE  SettledOnce'
BY DEF IInv, SettledOnce, Grows

LEMMA SettledSame ==
  ASSUME NEW h \in Hosts, Frame(h), db'.receipts = db.receipts,
         work'[h].page.accepting => Tally(h).accepting /\ Stays(h)
  PROVE  Settled' \subseteq Settled
<1>1. ASSUME NEW g \in Hosts, work'[g].page.accepting
      PROVE  Tally(g).accepting /\ RevisionClaim(g)' = RevisionClaim(g)
  <2>1. CASE g = h
    BY <1>1, <2>1, SamePage
  <2>2. CASE g # h
    BY <1>1, <2>2 DEF Frame, Tally, RevisionClaim, Loop, Page
  <2> QED
    BY <2>1, <2>2
<1>2. ASSUME NEW c \in Settled' PROVE c \in Settled
  <2>1. CASE \E g \in Hosts : work'[g].page.accepting /\ c = RevisionClaim(g)'
    BY <1>1, <2>1 DEF Settled
  <2>2. CASE \E p \in db'.receipts : p.derivatives # {} /\ c = ReceiptRevision(p)
    BY <2>2 DEF Settled
  <2> QED
    BY <1>2, <2>1, <2>2 DEF Settled, Tally
<1> QED
  BY <1>2

LEMMA StoreSame ==
  ASSUME IInv, UNCHANGED db
  PROVE  /\ StoreShape' /\ UniqueRecords' /\ UniqueOwners' /\ ReceiptsOwn'
         /\ CommittedWhole' /\ Histories' /\ OutcomesFold' /\ Grows
         /\ IsFiniteSet(db'.revisions)
<1>1. Grows
  BY DEF Grows
<1>2. /\ StoreShape' /\ UniqueRecords' /\ UniqueOwners'
      /\ IsFiniteSet(db'.revisions)
  BY DEF IInv, StoreShape, UniqueRecords, UniqueOwners, SettledOnce
<1> QED
  BY <1>1, <1>2, ReceiptsKept, HistoriesKept

(* A step of one call that writes nothing.                                 *)
LEMMA QuietStep ==
  ASSUME IInv, NEW h \in Hosts, Frame(h), UNCHANGED db, HostInv(h)',
         work'[h].page.accepting => Tally(h).accepting /\ Stays(h)
  PROVE  IInv'
<1>1. /\ StoreShape' /\ UniqueRecords' /\ UniqueOwners' /\ ReceiptsOwn'
      /\ CommittedWhole' /\ Histories' /\ OutcomesFold' /\ Grows
      /\ IsFiniteSet(db'.revisions)
  BY StoreSame
<1>2. \A g \in Hosts : HostInv(g)'
  BY <1>1, HostsKept
<1>3. SettledOnce'
  BY <1>1, SettledSame, SettledKept
<1> QED
  BY <1>1, <1>2, <1>3 DEF IInv, Frame

(* A page, and its projections.                                            *)
LEMMA PageTypes ==
  ASSUME NEW h \in Hosts, work[h].input \in Inputs,
         work[h].at \in DOMAIN work[h].input
  PROVE  /\ Page(h) \in Pages /\ Len(Page(h).records) \in Nat
         /\ DOMAIN Page(h).records = 1..Len(Page(h).records)
         /\ \A n \in 1..Len(Page(h).records) : Page(h).records[n].kind \in Kinds
         /\ Page(h).status \in {"available", "unreadable"}
         /\ Page(h).status = "available" => Page(h).revision # None
         /\ Page(h).status # "available" => Len(Page(h).records) = 0
<1>1. Page(h) \in Pages
  BY DEF Page, Pages, Elements
<1> DEFINE page == Page(h)
<1> HIDE DEF page
<1>2. /\ page.records \in Seq(Elements(page.records))
      /\ \A p \in Elements(page.records) : p.kind \in Kinds
      /\ page.status \in {"available", "unreadable"}
      /\ page.status = "available" => page.revision # None
      /\ page.status # "available" => page.records = <<>>
  BY <1>1, IngestAssumption DEF page
<1>3. /\ Len(page.records) \in Nat /\ DOMAIN page.records = 1..Len(page.records)
  BY <1>2, LenProperties
<1>4. \A n \in 1..Len(page.records) : page.records[n].kind \in Kinds
  BY <1>2, <1>3 DEF Elements
<1> QED
  BY <1>1, <1>2, <1>3, <1>4 DEF page

(* A call set aside, or back between two pages.                            *)
LEMMA ResetHost ==
  ASSUME NEW h \in Hosts, NEW w, work'[h] = w, w.page = NoTally,
         w.pc \in {"idle", "open"},
         w.pc = "open" => w.input \in Inputs /\ w.at \in Nat \ {0}
  PROVE  HostInv(h)' /\ ~work'[h].page.accepting
<1>1. ~work'[h].page.accepting
  BY DEF NoTally
<1>2. /\ work'[h].pc \notin Opened /\ work'[h].pc \notin Reading
      /\ work'[h].pc \notin Taken
      /\ work'[h].pc \notin {"confirm", "records", "claim", "findings"}
  BY DEF Opened, Reading, Taken
<1>3. Placed(h)'
  BY <1>2 DEF Placed, At
<1>4. Counted(h)' /\ Listed(h)' /\ InWork(h)' /\ Claiming(h)'
  BY <1>2 DEF Counted, Listed, InWork, Claiming, At
<1>5. Accepting(h)'
  BY <1>1, <1>2 DEF Accepting, At, Tally
<1> QED
  BY <1>1, <1>3, <1>4, <1>5 DEF HostInv

LEMMA IdleShape == CallShape(Idle) /\ TallyShape(Idle.page) /\ Idle.page = NoTally
BY DEF Idle, NoTally, CallShape, TallyShape, CallFields, TallyFields

LEMMA SetAside ==
  ASSUME IInv, NEW h \in Hosts, work' = [work EXCEPT ![h] = Idle]
  PROVE  Frame(h) /\ HostInv(h)' /\ ~work'[h].page.accepting
<1>1. Frame(h) /\ work'[h] = Idle
  BY IdleShape, SetFacts DEF IInv
<1>2. Idle.pc = "idle"
  BY DEF Idle
<1> QED
  BY <1>1, <1>2, IdleShape, ResetHost

LEMMA CrashKeeps == ASSUME IInv, NEW h \in Hosts, Crash(h) PROVE IInv'
<1>1. UNCHANGED db /\ work' = [work EXCEPT ![h] = Idle]
  BY DEF Crash
<1> QED
  BY <1>1, SetAside, QuietStep

LEMMA StartKeeps == ASSUME IInv, NEW h \in Hosts, StartIngest(h) PROVE IInv'
<1>1. PICK input \in Inputs :
        work' = [work EXCEPT ![h] = [Idle EXCEPT !.pc = "open", !.input = input]]
  BY DEF StartIngest
<1> DEFINE w == [Idle EXCEPT !.pc = "open", !.input = input]
<1>2. CallShape(w)
  BY DEF CallShape, CallFields, Idle
<1>3. /\ TallyShape(w.page) /\ w.page = NoTally /\ w.pc = "open"
      /\ w.input = input /\ w.at = 1
  BY IdleShape DEF Idle
<1>0. work' = [work EXCEPT ![h] = w]
  BY <1>1
<1> HIDE DEF w
<1>4. Frame(h) /\ work'[h] = w
  BY <1>0, <1>2, <1>3, SetFacts DEF IInv
<1>5. HostInv(h)' /\ ~work'[h].page.accepting
  BY <1>3, <1>4, ResetHost
<1>6. UNCHANGED db
  BY DEF StartIngest
<1> QED
  BY <1>4, <1>5, <1>6, QuietStep

LEMMA ImportKeeps == ASSUME IInv, NEW h \in Hosts, Import(h) PROVE IInv'
<1>1. PICK X : db' = [db EXCEPT !.imports = X]
  BY DEF Import
<1>2. /\ StoreShape' /\ db'.records = db.records /\ db'.identities = db.identities
      /\ db'.receipts = db.receipts /\ db'.findings = db.findings
      /\ db'.outcomes = db.outcomes /\ db'.owners = db.owners
      /\ db'.revisions = db.revisions
  BY <1>1, WriteImports DEF IInv
<1>3. Frame(h) /\ HostInv(h)' /\ ~work'[h].page.accepting
  BY SetAside DEF Import
<1>4. Grows
  BY <1>2 DEF Grows
<1>5. \A g \in Hosts : HostInv(g)'
  BY <1>3, <1>4, HostsKept
<1>6. SettledOnce'
  BY <1>2, <1>3, <1>4, SettledSame, SettledKept DEF IInv, SettledOnce
<1>7. ReceiptsOwn' /\ CommittedWhole' /\ Histories' /\ OutcomesFold'
  BY <1>2, <1>4, ReceiptsKept, HistoriesKept
<1>8. UniqueRecords' /\ UniqueOwners'
  BY <1>2 DEF IInv, UniqueRecords, UniqueOwners
<1> QED
  BY <1>2, <1>3, <1>5, <1>6, <1>7, <1>8 DEF IInv, Frame

LEMMA NextPageKeeps == ASSUME IInv, NEW h \in Hosts, NextPage(h) PROVE IInv'
<1> DEFINE w == [work[h] EXCEPT !.pc = "open", !.at = @ + 1, !.page = NoTally]
<1>1. CallShape(work[h])
  BY DEF IInv, WorkShape
<1>2. /\ CallShape(w) /\ w.page = NoTally /\ w.pc = "open"
      /\ w.input = work[h].input /\ w.at = work[h].at + 1
  BY <1>1 DEF CallShape, CallFields
<1>3. work' = [work EXCEPT ![h] = w] /\ TallyShape(NoTally)
  BY IdleShape DEF NextPage, IInv, WorkShape
<1>4. work[h].input \in Inputs /\ work[h].at \in Nat \ {0}
  BY DEF IInv, HostInv, Placed, NextPage, At
<1> HIDE DEF w
<1>5. Frame(h) /\ work'[h] = w
  BY <1>2, <1>3, SetFacts DEF IInv
<1>6. HostInv(h)' /\ ~work'[h].page.accepting
  BY <1>2, <1>4, <1>5, ResetHost
<1> QED
  BY <1>5, <1>6, QuietStep DEF NextPage

-------------------------------------------------------------------------------
(***************************************************************************)
(* One projection.                                                         *)
(***************************************************************************)

(* The projection in hand.                                                 *)
AtRecord(h) ==
  /\ work[h].pc \in {"records"} \cup Taken
  /\ Tally(h).n \in 1..Len(Page(h).records)

(* It is refused, or accepted: the tally has passed it.                    *)
Passes(h) ==
  /\ Frame(h) /\ Stays(h) /\ work'[h].pc = "records"
  /\ work'[h].page.n = Tally(h).n + 1
  /\ work'[h].page.accepting = Tally(h).accepting

RefusesOne(h) ==
  /\ Passes(h) /\ work'[h].page.rejected = Tally(h).rejected + 1
  /\ work'[h].page.reused = Tally(h).reused
  /\ work'[h].page.derivatives = Tally(h).derivatives

ReusesOne(h) ==
  /\ Passes(h) /\ work'[h].page.rejected = Tally(h).rejected
  /\ work'[h].page.reused = Tally(h).reused + 1
  /\ work'[h].page.derivatives = Tally(h).derivatives

AcceptsOne(h) ==
  /\ Passes(h) /\ work'[h].page.rejected = Tally(h).rejected
  /\ work'[h].page.reused = Tally(h).reused
  /\ work'[h].page.derivatives = Tally(h).derivatives \cup {Tally(h).now}

LEMMA RefuseRefuses ==
  ASSUME IInv, NEW h \in Hosts, NEW code, Refuse(h, code)
  PROVE  RefusesOne(h)
<1> DEFINE t == Tally(h)
           u == [[t EXCEPT !.rejected = @ + 1, !.diagnostics[code] = @ + 1]
                   EXCEPT !.n = @ + 1, !.now = None]
<1>1. TallyShape(t)
  BY DEF IInv, WorkShape, Tally
<1>2. Put(h, "records", u)
  BY DEF Refuse, NextRecord
<1> HIDE DEF t
<1>3. /\ TallyShape(u) /\ u.n = t.n + 1 /\ u.accepting = t.accepting
      /\ u.rejected = t.rejected + 1 /\ u.reused = t.reused
      /\ u.derivatives = t.derivatives
  BY <1>1 DEF TallyShape, TallyFields
<1> HIDE DEF u
<1>4. Frame(h) /\ Stays(h) /\ work'[h].pc = "records" /\ work'[h].page = u
  BY <1>2, <1>3, PutFacts DEF IInv
<1> QED
  BY <1>3, <1>4 DEF RefusesOne, Passes, t

LEMMA RefuseContentRefuses ==
  ASSUME IInv, NEW h \in Hosts, RefuseContent(h)
  PROVE  RefusesOne(h)
<1> DEFINE t == Tally(h)
           u == [[t EXCEPT !.rejected = @ + 1, !.refused = @ + 1,
                           !.diagnostics["policy.blocked"] = @ + 1]
                   EXCEPT !.n = @ + 1, !.now = None]
<1>1. TallyShape(t)
  BY DEF IInv, WorkShape, Tally
<1>2. Put(h, "records", u)
  BY DEF RefuseContent, NextRecord
<1> HIDE DEF t
<1>3. /\ TallyShape(u) /\ u.n = t.n + 1 /\ u.accepting = t.accepting
      /\ u.rejected = t.rejected + 1 /\ u.reused = t.reused
      /\ u.derivatives = t.derivatives
  BY <1>1 DEF TallyShape, TallyFields
<1> HIDE DEF u
<1>4. Frame(h) /\ Stays(h) /\ work'[h].pc = "records" /\ work'[h].page = u
  BY <1>2, <1>3, PutFacts DEF IInv
<1> QED
  BY <1>3, <1>4 DEF RefusesOne, Passes, t

LEMMA MismatchRefuses ==
  ASSUME IInv, NEW h \in Hosts,
         NextRecord(h, [Tally(h) EXCEPT !.rejected = @ + 1, !.mismatched = @ + 1,
                          !.diagnostics["evidence.ownership_mismatch"] = @ + 1])
  PROVE  RefusesOne(h)
<1> DEFINE t == Tally(h)
           u == [[t EXCEPT !.rejected = @ + 1, !.mismatched = @ + 1,
                           !.diagnostics["evidence.ownership_mismatch"] = @ + 1]
                   EXCEPT !.n = @ + 1, !.now = None]
<1>1. TallyShape(t)
  BY DEF IInv, WorkShape, Tally
<1>2. Put(h, "records", u)
  BY DEF NextRecord
<1> HIDE DEF t
<1>3. /\ TallyShape(u) /\ u.n = t.n + 1 /\ u.accepting = t.accepting
      /\ u.rejected = t.rejected + 1 /\ u.reused = t.reused
      /\ u.derivatives = t.derivatives
  BY <1>1 DEF TallyShape, TallyFields
<1> HIDE DEF u
<1>4. Frame(h) /\ Stays(h) /\ work'[h].pc = "records" /\ work'[h].page = u
  BY <1>2, <1>3, PutFacts DEF IInv
<1> QED
  BY <1>3, <1>4 DEF RefusesOne, Passes, t

LEMMA AcceptAccepts ==
  ASSUME IInv, NEW h \in Hosts, NEW pending, Accept(h, pending)
  PROVE  IF Tally(h).owned THEN AcceptsOne(h) ELSE ReusesOne(h)
<1> DEFINE t == Tally(h)
           a == [[t EXCEPT !.derivatives = @ \cup {t.now}, !.pending = @ \o pending]
                   EXCEPT !.n = @ + 1, !.now = None]
           b == [[t EXCEPT !.reused = @ + 1, !.pending = @ \o pending]
                   EXCEPT !.n = @ + 1, !.now = None]
<1>1. TallyShape(t)
  BY DEF IInv, WorkShape, Tally
<1>2. Tally(h).owned => Put(h, "records", a)
  BY DEF Accept, NextRecord
<1>3. ~Tally(h).owned => Put(h, "records", b)
  BY DEF Accept, NextRecord
<1> HIDE DEF t
<1>4. /\ TallyShape(a) /\ a.n = t.n + 1 /\ a.accepting = t.accepting
      /\ a.rejected = t.rejected /\ a.reused = t.reused
      /\ a.derivatives = t.derivatives \cup {t.now}
  BY <1>1 DEF TallyShape, TallyFields
<1>5. /\ TallyShape(b) /\ b.n = t.n + 1 /\ b.accepting = t.accepting
      /\ b.rejected = t.rejected /\ b.reused = t.reused + 1
      /\ b.derivatives = t.derivatives
  BY <1>1 DEF TallyShape, TallyFields
<1> HIDE DEF a, b
<1>6. CASE Tally(h).owned
  <2>1. Frame(h) /\ Stays(h) /\ work'[h].pc = "records" /\ work'[h].page = a
    BY <1>2, <1>4, <1>6, PutFacts DEF IInv
  <2> QED
    BY <1>4, <1>6, <2>1 DEF AcceptsOne, Passes, t
<1>7. CASE ~Tally(h).owned
  <2>1. Frame(h) /\ Stays(h) /\ work'[h].pc = "records" /\ work'[h].page = b
    BY <1>3, <1>5, <1>7, PutFacts DEF IInv
  <2> QED
    BY <1>5, <1>7, <2>1 DEF ReusesOne, Passes, t
<1> QED
  BY <1>6, <1>7

(* What holds after any of the three, but for the new derivative.          *)
LEMMA PassKeeps ==
  ASSUME IInv, NEW h \in Hosts, AtRecord(h), Passes(h), Grows,
         IsFiniteSet(work'[h].page.derivatives),
         work'[h].page.rejected \in Nat, work'[h].page.reused \in Nat,
         Cardinality(work'[h].page.derivatives) + work'[h].page.rejected
           + work'[h].page.reused = work'[h].page.n - 1,
         \A r \in work'[h].page.derivatives :
           \/ r \in Tally(h).derivatives
           \/ /\ r \in db'.records
              /\ IsEpisode(r) => IdentitiesOf(db', r) # {}
              /\ r.kind = Projection(h).kind /\ r.id = Projection(h).id
              /\ OwnerClaim(r, PageOwner(h)) \in db'.owners
  PROVE  HostInv(h)'
<1>1. /\ Page(h)' = Page(h) /\ PageOwner(h)' = PageOwner(h)
      /\ RevisionClaim(h)' = RevisionClaim(h)
  BY SamePage DEF Passes
<1>2. work[h].pc \in Reading /\ work[h].pc \in Opened /\ ~At(h, "idle")
  BY DEF AtRecord, Reading, Opened, Taken, At
<1>3. /\ work'[h].pc = "records" /\ work'[h].pc \in Reading /\ work'[h].pc \in Opened
      /\ work'[h].pc \notin Taken
      /\ work'[h].pc \notin {"idle", "revision", "confirm", "findings", "claim"}
  BY DEF Passes, Reading, Opened, Taken
<1>4. /\ work[h].input \in Inputs /\ work[h].at \in Nat \ {0}
      /\ work[h].at \in DOMAIN work[h].input
  BY <1>2 DEF IInv, HostInv, Placed
<1>5. Placed(h)'
  BY <1>4 DEF Placed, Passes, Stays
<1> DEFINE n == Tally(h).n
           size == Len(Page(h).records)
<1>6. size \in Nat /\ n \in 1..size /\ n \in Nat
  BY <1>4, PageTypes DEF AtRecord
<1>7. work'[h].page.n = n + 1 /\ work'[h].page.accepting = Tally(h).accepting
  BY DEF Passes
<1>8. Counted(h)'
  <2>1. n + 1 \in 1..(size + 1)
    BY <1>6
  <2> HIDE DEF n, size
  <2>3. /\ work'[h].page.n \in 1..(size + 1) /\ Len(Page(h)'.records) = size
        /\ Tally(h)' = work'[h].page
    BY <1>1, <1>7, <2>1 DEF Tally, size
  <2> QED
    BY <1>3, <2>3 DEF Counted, At
<1>9. Listed(h)'
  <2>1. ASSUME NEW r \in work'[h].page.derivatives
        PROVE  /\ r \in db'.records /\ Earlier(h, r)'
               /\ IsEpisode(r) => IdentitiesOf(db', r) # {}
               /\ OwnerClaim(r, PageOwner(h)) \in db'.owners
    <3>1. CASE r \in Tally(h).derivatives
      <4>1. /\ r \in db.records /\ Earlier(h, r)
            /\ IsEpisode(r) => IdentitiesOf(db, r) # {}
            /\ OwnerClaim(r, PageOwner(h)) \in db.owners
        BY <1>2, <3>1 DEF IInv, HostInv, Listed
      <4>2. PICK m \in 1..(n - 1) : /\ Page(h).records[m].kind = r.kind
                                    /\ Page(h).records[m].id = r.id
        BY <4>1 DEF Earlier
      <4>3. m \in 1..(work'[h].page.n - 1)
        BY <1>6, <1>7
      <4>4. Earlier(h, r)'
        BY <1>1, <4>2, <4>3 DEF Earlier, Tally
      <4> QED
        BY <4>1, <4>4 DEF Grows, IdentitiesOf
    <3>2. CASE r \notin Tally(h).derivatives
      <4>1. /\ r \in db'.records
            /\ IsEpisode(r) => IdentitiesOf(db', r) # {}
            /\ r.kind = Page(h).records[n].kind /\ r.id = Page(h).records[n].id
            /\ OwnerClaim(r, PageOwner(h)) \in db'.owners
        BY <3>2 DEF Projection
      <4>2. n \in 1..(work'[h].page.n - 1)
        BY <1>6, <1>7
      <4>3. Earlier(h, r)'
        BY <1>1, <4>1, <4>2 DEF Earlier, Tally
      <4> QED
        BY <4>1, <4>3
    <3> QED
      BY <3>1, <3>2
  <2> QED
    BY <1>1, <2>1 DEF Listed, Tally
<1>10. InWork(h)' /\ Claiming(h)'
  BY <1>3 DEF InWork, Claiming, At
<1>11. Accepting(h)'
  <2>1. Tally(h).accepting
    BY <1>6 DEF IInv, HostInv, Accepting, AtRecord
  <2> QED
    BY <1>3, <1>7, <2>1 DEF Accepting, At, Tally
<1> QED
  BY <1>5, <1>8, <1>9, <1>10, <1>11 DEF HostInv

LEMMA RefusedKeeps ==
  ASSUME IInv, NEW h \in Hosts, AtRecord(h), RefusesOne(h) \/ ReusesOne(h), Grows
  PROVE  HostInv(h)'
<1> DEFINE t == Tally(h)
           u == work'[h].page
<1>1. work[h].pc \in Reading
  BY DEF AtRecord, Reading, Taken
<1>2. /\ t.n \in Nat /\ t.rejected \in Nat /\ t.reused \in Nat
      /\ IsFiniteSet(t.derivatives)
      /\ Cardinality(t.derivatives) + t.rejected + t.reused = t.n - 1
  BY <1>1 DEF IInv, HostInv, Counted
<1>3. Cardinality(t.derivatives) \in Nat
  BY <1>2, FS_CardinalityType
<1>4. Passes(h) /\ u.derivatives = t.derivatives /\ u.n = t.n + 1
  BY DEF RefusesOne, ReusesOne, Passes
<1>5. \/ u.rejected = t.rejected + 1 /\ u.reused = t.reused
      \/ u.rejected = t.rejected /\ u.reused = t.reused + 1
  BY DEF RefusesOne, ReusesOne
<1> HIDE DEF t, u
<1>6. /\ u.rejected \in Nat /\ u.reused \in Nat
      /\ Cardinality(u.derivatives) + u.rejected + u.reused = u.n - 1
  <2> DEFINE c == Cardinality(t.derivatives)
  <2>1. Cardinality(u.derivatives) = c
    BY <1>4
  <2> HIDE DEF c
  <2>2. c \in Nat /\ c + t.rejected + t.reused = t.n - 1
    BY <1>2, <1>3 DEF c
  <2> QED
    BY <1>2, <1>4, <1>5, <2>1, <2>2
<1> QED
  BY <1>2, <1>4, <1>6, PassKeeps DEF t, u

LEMMA RefusedStep ==
  ASSUME IInv, NEW h \in Hosts, AtRecord(h), RefusesOne(h), UNCHANGED db
  PROVE  IInv'
<1>1. HostInv(h)'
  BY StoreSame, RefusedKeeps
<1> QED
  BY <1>1, QuietStep DEF RefusesOne, Passes

LEMMA InHand ==
  ASSUME IInv, NEW h \in Hosts, work[h].pc \in Taken
  PROVE  AtRecord(h)
<1>1. /\ work[h].pc \in Reading /\ work[h].pc \in Opened
      /\ work[h].pc \notin {"idle", "findings"}
  BY DEF Reading, Opened, Taken
<1>2. work[h].input \in Inputs /\ work[h].at \in DOMAIN work[h].input
  BY <1>1 DEF IInv, HostInv, Placed, At
<1>3. Len(Page(h).records) \in Nat
  BY <1>2, PageTypes
<1>4. /\ Tally(h).n \in 1..(Len(Page(h).records) + 1)
      /\ Tally(h).n <= Len(Page(h).records)
  BY <1>1 DEF IInv, HostInv, Counted
<1> QED
  BY <1>3, <1>4 DEF AtRecord

LEMMA AcceptedKeeps ==
  ASSUME IInv, NEW h \in Hosts, work[h].pc \in Taken, AcceptsOne(h) \/ ReusesOne(h),
         AcceptsOne(h) => Tally(h).owned, Grows, Tally(h).now \in db'.records,
         IsEpisode(Tally(h).now) => IdentitiesOf(db', Tally(h).now) # {}
  PROVE  HostInv(h)'
<1>1. CASE ReusesOne(h)
  BY <1>1, RefusedKeeps, InHand
<1>2. CASE AcceptsOne(h)
  <2> DEFINE t == Tally(h)
             u == work'[h].page
  <2>1. work[h].pc \in Reading
    BY DEF Reading
  <2>2. /\ t.n \in Nat /\ t.rejected \in Nat /\ t.reused \in Nat
        /\ IsFiniteSet(t.derivatives)
        /\ Cardinality(t.derivatives) + t.rejected + t.reused = t.n - 1
    BY <2>1 DEF IInv, HostInv, Counted
  <2>3. Cardinality(t.derivatives) \in Nat
    BY <2>2, FS_CardinalityType
  <2>4. /\ Passes(h) /\ u.n = t.n + 1 /\ u.rejected = t.rejected
        /\ u.reused = t.reused /\ u.derivatives = t.derivatives \cup {t.now}
    BY <1>2 DEF AcceptsOne, Passes
  <2>5. /\ t.now.kind = Projection(h).kind /\ t.now.id = Projection(h).id
        /\ ~Repeated(h) /\ OwnerClaim(t.now, PageOwner(h)) \in db.owners
    BY <1>2 DEF IInv, HostInv, InWork
  <2>6. t.now \notin t.derivatives
    <3>1. ASSUME Earlier(h, t.now) PROVE FALSE
      BY <2>5, <3>1 DEF Earlier, Repeated
    <3> QED
      BY <2>1, <3>1 DEF IInv, HostInv, Listed
  <2>7. /\ IsFiniteSet(u.derivatives)
        /\ Cardinality(u.derivatives) = Cardinality(t.derivatives) + 1
    <3> DEFINE D == t.derivatives
               x == t.now
    <3>1. IsFiniteSet(D) /\ x \notin D /\ u.derivatives = D \cup {x}
      BY <2>2, <2>4, <2>6
    <3> HIDE DEF D, x
    <3>2. /\ IsFiniteSet(D \cup {x})
          /\ Cardinality(D \cup {x}) = Cardinality(D) + 1
      BY <3>1, FS_AddElement
    <3> QED
      BY <3>1, <3>2 DEF D
  <2>8. Cardinality(u.derivatives) + u.rejected + u.reused = u.n - 1
    <3> DEFINE c == Cardinality(t.derivatives)
               d == Cardinality(u.derivatives)
    <3>1. c \in Nat /\ c + t.rejected + t.reused = t.n - 1 /\ d = c + 1
      BY <2>2, <2>3, <2>7
    <3> HIDE DEF c, d, t, u
    <3>2. d + u.rejected + u.reused = u.n - 1
      BY <2>2, <2>4, <3>1
    <3> QED
      BY <3>2 DEF d
  <2>9. ASSUME NEW r \in u.derivatives
        PROVE  \/ r \in t.derivatives
               \/ /\ r \in db'.records
                  /\ IsEpisode(r) => IdentitiesOf(db', r) # {}
                  /\ r.kind = Projection(h).kind /\ r.id = Projection(h).id
                  /\ OwnerClaim(r, PageOwner(h)) \in db'.owners
    BY <2>4, <2>5 DEF Grows
  <2> QED
    BY <2>2, <2>4, <2>7, <2>8, <2>9, InHand, PassKeeps
<1> QED
  BY <1>1, <1>2

(* The tally stays as it is while a record is in work.                     *)
LEMMA MoveKeeps ==
  ASSUME IInv, NEW h \in Hosts, AtRecord(h), Frame(h), Stays(h), Grows,
         work'[h].pc \in Taken, InWork(h)',
         work'[h].page.n = Tally(h).n, work'[h].page.rejected = Tally(h).rejected,
         work'[h].page.reused = Tally(h).reused,
         work'[h].page.accepting = Tally(h).accepting,
         work'[h].page.derivatives = Tally(h).derivatives
  PROVE  HostInv(h)'
<1>1. /\ Page(h)' = Page(h) /\ PageOwner(h)' = PageOwner(h)
      /\ RevisionClaim(h)' = RevisionClaim(h)
  BY SamePage
<1>2. work[h].pc \in Reading /\ work[h].pc \in Opened /\ ~At(h, "idle")
  BY DEF AtRecord, Reading, Opened, Taken, At
<1>3. /\ work'[h].pc \in Reading /\ work'[h].pc \in Opened
      /\ work'[h].pc \notin {"idle", "revision", "confirm", "findings", "claim"}
  BY DEF Reading, Opened, Taken
<1>4. /\ work[h].input \in Inputs /\ work[h].at \in Nat \ {0}
      /\ work[h].at \in DOMAIN work[h].input
  BY <1>2 DEF IInv, HostInv, Placed
<1>5. Placed(h)'
  BY <1>4 DEF Placed, Stays
<1>6. Counted(h)'
  BY <1>1, <1>2, <1>3 DEF IInv, HostInv, Counted, At, Tally, AtRecord
<1>7. Listed(h)'
  <2>1. ASSUME NEW r PROVE Earlier(h, r)' <=> Earlier(h, r)
    BY <1>1 DEF Earlier, Tally
  <2>2. ASSUME NEW r, IdentitiesOf(db, r) # {} PROVE IdentitiesOf(db', r) # {}
    BY <2>2 DEF IdentitiesOf, Grows
  <2> QED
    BY <1>1, <1>2, <2>1, <2>2 DEF IInv, HostInv, Listed, Grows, Tally
<1>8. Claiming(h)'
  BY <1>3 DEF Claiming, At
<1>9. Accepting(h)'
  <2>1. Tally(h).accepting
    BY DEF IInv, HostInv, Accepting, AtRecord
  <2> QED
    BY <1>3, <2>1 DEF Accepting, At, Tally
<1> QED
  BY <1>5, <1>6, <1>7, <1>8, <1>9 DEF HostInv

(* The owner claim of a derivative: the first one stands.                  *)
LEMMA ClaimKeeps ==
  ASSUME IInv, NEW h \in Hosts, At(h, "records"), AtRecord(h), NEW r,
         r.kind = Projection(h).kind, r.id = Projection(h).id, ~Repeated(h),
         ClaimDerivativePage(h, r)
  PROVE  IInv'
<1> DEFINE marks == Marking(Tally(h).committed, r)
           proposed == IF marks = {} THEN PageOwner(h) ELSE OwnerFromReceipt(Only(marks))
           standing == {c \in db.owners : c.derivative = r}
           owner == IF standing = {} THEN proposed ELSE Only(standing).owner
<1>1. CASE Refuse(h, "store.corrupt") /\ UNCHANGED db
  BY <1>1, RefuseRefuses, RefusedStep
<1>2. CASE /\ db' = [db EXCEPT !.owners = @ \cup {OwnerClaim(r, owner)}]
           /\ \/ Refuse(h, "store.corrupt")
              \/ Put(h, "create",
                     [Tally(h) EXCEPT !.now = r, !.owned = owner = PageOwner(h)])
  <2>1. standing # {} => Only(standing) \in standing
    BY DEF Only
  <2> HIDE DEF marks, proposed
  <2>2. /\ StoreShape' /\ db'.records = db.records /\ db'.identities = db.identities
        /\ db'.receipts = db.receipts /\ db'.findings = db.findings
        /\ db'.outcomes = db.outcomes /\ db'.owners = db.owners \cup {OwnerClaim(r, owner)}
        /\ db'.revisions = db.revisions
    BY <1>2, WriteOwners DEF IInv
  <2>3. Grows
    BY <2>2 DEF Grows
  <2>4. UniqueOwners'
    <3>1. ASSUME NEW c \in db.owners, c.derivative = r PROVE c = OwnerClaim(r, owner)
      <4>1. c \in standing
        BY <3>1
      <4>2. Only(standing) \in standing /\ owner = Only(standing).owner
        BY <2>1, <4>1
      <4>3. c = Only(standing) /\ c = OwnerClaim(c.derivative, c.owner)
        BY <4>2, <3>1 DEF IInv, UniqueOwners
      <4> QED
        BY <3>1, <4>2, <4>3
    <3> HIDE DEF owner
    <3>2. OwnerClaim(r, owner).derivative = r /\ OwnerClaim(r, owner).owner = owner
      BY DEF OwnerClaim
    <3> QED
      BY <2>2, <3>1, <3>2 DEF IInv, UniqueOwners
  <2> HIDE DEF standing, owner
  <2>5. HostInv(h)' /\ Frame(h) /\ Stays(h) /\ work'[h].page.accepting = Tally(h).accepting
    <3>1. CASE Refuse(h, "store.corrupt")
      <4>1. RefusesOne(h)
        BY <3>1, RefuseRefuses
      <4> QED
        BY <4>1, <2>3, RefusedKeeps DEF RefusesOne, Passes
    <3>2. CASE Put(h, "create",
                   [Tally(h) EXCEPT !.now = r, !.owned = owner = PageOwner(h)])
      <4> DEFINE t == Tally(h)
                 o == (owner = PageOwner(h))
                 u == [t EXCEPT !.now = r, !.owned = o]
      <4>1. TallyShape(t)
        BY DEF IInv, WorkShape, Tally
      <4>2. Put(h, "create", u)
        BY <3>2
      <4>3. o => OwnerClaim(r, PageOwner(h)) \in db'.owners
        BY <2>2
      <4> HIDE DEF t, o
      <4>4. /\ TallyShape(u) /\ u.n = t.n /\ u.accepting = t.accepting
            /\ u.rejected = t.rejected /\ u.reused = t.reused
            /\ u.derivatives = t.derivatives /\ u.now = r /\ u.owned = o
        BY <4>1 DEF TallyShape, TallyFields
      <4> HIDE DEF u
      <4>5. Frame(h) /\ Stays(h) /\ work'[h].pc = "create" /\ work'[h].page = u
        BY <4>2, <4>4, PutFacts DEF IInv
      <4>6. /\ Page(h)' = Page(h) /\ PageOwner(h)' = PageOwner(h)
        BY <4>5, SamePage
      <4>7. Projection(h)' = Projection(h) /\ (Repeated(h)' <=> Repeated(h))
        BY <4>4, <4>5, <4>6 DEF Projection, Repeated, Tally, t
      <4>8. InWork(h)'
        <5>1. /\ r.kind = Projection(h)'.kind /\ r.id = Projection(h)'.id
              /\ ~Repeated(h)' /\ Tally(h)'.now = r /\ At(h, "create")'
          BY <4>4, <4>5, <4>7 DEF Tally, At
        <5>2. Tally(h)'.owned => OwnerClaim(r, PageOwner(h)') \in db'.owners
          BY <4>3, <4>4, <4>5, <4>6 DEF Tally
        <5> QED
          BY <5>1, <5>2 DEF InWork
      <4>9. HostInv(h)'
        BY <2>3, <4>4, <4>5, <4>8, MoveKeeps DEF t, Taken
      <4> QED
        BY <4>4, <4>5, <4>9 DEF t
    <3> QED
      BY <1>2, <3>1, <3>2
  <2>6. \A g \in Hosts : HostInv(g)'
    BY <2>3, <2>5, HostsKept
  <2>7. SettledOnce'
    BY <2>2, <2>3, <2>5, SettledSame, SettledKept DEF IInv, SettledOnce
  <2>8. ReceiptsOwn' /\ CommittedWhole' /\ Histories' /\ OutcomesFold'
    BY <2>2, <2>3, ReceiptsKept, HistoriesKept
  <2>9. UniqueRecords'
    BY <2>2 DEF IInv, UniqueRecords
  <2> QED
    BY <2>2, <2>4, <2>5, <2>6, <2>7, <2>8, <2>9 DEF IInv, Frame
<1> QED
  BY <1>1, <1>2 DEF ClaimDerivativePage, OwnerClaim

-------------------------------------------------------------------------------
(***************************************************************************)
(* The steps of a page, one by one.                                        *)
(***************************************************************************)

LEMMA TakingAt ==
  ASSUME IInv, NEW h \in Hosts, At(h, "records"), Tally(h).n <= Len(Page(h).records)
  PROVE  AtRecord(h)
<1>1. work[h].pc \in Reading /\ work[h].pc \in Opened /\ ~At(h, "idle")
  BY DEF Reading, Opened, At
<1>2. Len(Page(h).records) \in Nat
  BY <1>1, PageTypes DEF IInv, HostInv, Placed
<1>3. Tally(h).n \in 1..(Len(Page(h).records) + 1)
  BY <1>1 DEF IInv, HostInv, Counted
<1> QED
  BY <1>2, <1>3 DEF AtRecord, At

LEMMA EpisodeKeeps == ASSUME IInv, NEW h \in Hosts, IngestEpisode(h) PROVE IInv'
<1>1. At(h, "records") /\ AtRecord(h) /\ Projection(h).kind = "episode"
  BY TakingAt DEF IngestEpisode, Taking
<1> DEFINE r == EpisodeRecord(Projection(h))
<1>2. r.kind = "episode" /\ r.id = Projection(h).id
  BY DEF EpisodeRecord
<1>3. CASE \E code : Refuse(h, code) /\ UNCHANGED db
  BY <1>1, <1>3, RefuseRefuses, RefusedStep
<1>4. CASE ~Repeated(h) /\ ClaimDerivativePage(h, r)
  <2> HIDE DEF r
  <2> QED
    BY <1>1, <1>2, <1>4, ClaimKeeps
<1> QED
  BY <1>3, <1>4 DEF IngestEpisode

LEMMA ObservationKeeps == ASSUME IInv, NEW h \in Hosts, IngestObservation(h) PROVE IInv'
<1>1. At(h, "records") /\ AtRecord(h) /\ Projection(h).kind = "observation"
  BY TakingAt DEF IngestObservation, Taking
<1> DEFINE r == Observation(h, Projection(h))
<1>2. r.kind = "observation" /\ r.id = Projection(h).id
  BY DEF Observation
<1>3. CASE \E code : Refuse(h, code) /\ UNCHANGED db
  BY <1>1, <1>3, RefuseRefuses, RefusedStep
<1>4. CASE RefuseContent(h)
  BY <1>1, <1>4, RefuseContentRefuses, RefusedStep DEF RefuseContent
<1>5. CASE ~Repeated(h) /\ ClaimDerivativePage(h, r)
  <2> HIDE DEF r
  <2> QED
    BY <1>1, <1>2, <1>5, ClaimKeeps
<1> QED
  BY <1>3, <1>4, <1>5 DEF IngestObservation

LEMMA MeasurementKeeps == ASSUME IInv, NEW h \in Hosts, IngestMeasurement(h) PROVE IInv'
<1>1. At(h, "records") /\ AtRecord(h) /\ Projection(h).kind = "measurement"
  BY TakingAt DEF IngestMeasurement, Taking
<1> DEFINE r == Measurement(h, Projection(h))
<1>2. r.kind = "measurement" /\ r.id = Projection(h).id
  BY DEF Measurement
<1>3. CASE \E code : Refuse(h, code) /\ UNCHANGED db
  BY <1>1, <1>3, RefuseRefuses, RefusedStep
<1>4. CASE RefuseContent(h)
  BY <1>1, <1>4, RefuseContentRefuses, RefusedStep DEF RefuseContent
<1>5. CASE /\ NextRecord(h, [Tally(h) EXCEPT !.rejected = @ + 1, !.mismatched = @ + 1,
                               !.diagnostics["evidence.ownership_mismatch"] = @ + 1])
           /\ UNCHANGED db
  BY <1>1, <1>5, MismatchRefuses, RefusedStep
<1>6. CASE ~Repeated(h) /\ ClaimDerivativePage(h, r)
  <2> HIDE DEF r
  <2> QED
    BY <1>1, <1>2, <1>6, ClaimKeeps
<1> QED
  BY <1>3, <1>4, <1>5, <1>6 DEF IngestMeasurement

LEMMA FailKeeps == ASSUME IInv, NEW h \in Hosts, FailRecord(h) PROVE IInv'
<1>1. AtRecord(h)
  BY TakingAt, InHand DEF FailRecord, Taken
<1> QED
  BY <1>1, RefuseRefuses, RefusedStep DEF FailRecord

(* A turn of the record in work from one write to the next.                *)
LEMMA TurnKeeps ==
  ASSUME IInv, NEW h \in Hosts, work[h].pc \in Taken, NEW pc \in Taken,
         pc # "create", Put(h, pc, Tally(h)), Grows, Tally(h).now \in db'.records
  PROVE  /\ HostInv(h)' /\ Frame(h) /\ Stays(h)
         /\ work'[h].page.accepting = Tally(h).accepting
<1>1. Frame(h) /\ Stays(h) /\ work'[h].pc = pc /\ work'[h].page = Tally(h)
  BY PutFacts DEF IInv, WorkShape, Tally
<1>2. /\ Page(h)' = Page(h) /\ PageOwner(h)' = PageOwner(h)
  BY <1>1, SamePage
<1>3. Projection(h)' = Projection(h) /\ (Repeated(h)' <=> Repeated(h))
  BY <1>1, <1>2 DEF Projection, Repeated, Tally
<1>4. InWork(h)'
  BY <1>1, <1>2, <1>3 DEF IInv, HostInv, InWork, Tally, Grows
<1>5. HostInv(h)'
  BY <1>1, <1>4, InHand, MoveKeeps
<1> QED
  BY <1>1, <1>5

(* A step that leaves the store's index of what is committed alone.        *)
LEMMA WriteStep ==
  ASSUME IInv, NEW h \in Hosts, Frame(h), HostInv(h)', Grows, StoreShape',
         work'[h].page.accepting => Tally(h).accepting /\ Stays(h),
         db'.receipts = db.receipts, db'.revisions = db.revisions,
         db'.outcomes = db.outcomes, db'.owners = db.owners, UniqueRecords'
  PROVE  IInv'
<1>1. \A g \in Hosts : HostInv(g)'
  BY HostsKept
<1>2. SettledOnce'
  BY SettledSame, SettledKept DEF IInv, SettledOnce
<1>3. ReceiptsOwn' /\ CommittedWhole' /\ Histories' /\ OutcomesFold'
  BY ReceiptsKept, HistoriesKept
<1>4. UniqueOwners'
  BY DEF IInv, UniqueOwners
<1> QED
  BY <1>1, <1>2, <1>3, <1>4 DEF IInv, Frame

LEMMA CreateKeeps == ASSUME IInv, NEW h \in Hosts, CreateDerivative(h) PROVE IInv'
<1> DEFINE r == Tally(h).now
<1>1. At(h, "create") /\ work[h].pc \in Taken
  BY DEF CreateDerivative, At, Taken
<1>2. AtRecord(h)
  BY <1>1, InHand
<1>3. CASE Refuse(h, "store.conflict") /\ UNCHANGED db
  BY <1>2, <1>3, RefuseRefuses, RefusedStep
<1>4. CASE /\ Stored(r.kind, r.id) \subseteq {r}
           /\ db' = [db EXCEPT !.records = @ \cup {r}]
           /\ IF IsEpisode(r) THEN Put(h, "identity", Tally(h)) ELSE Accept(h, <<>>)
  <2>1. /\ StoreShape' /\ db'.records = db.records \cup {r}
        /\ db'.identities = db.identities
        /\ db'.receipts = db.receipts /\ db'.findings = db.findings
        /\ db'.outcomes = db.outcomes /\ db'.owners = db.owners
        /\ db'.revisions = db.revisions
    BY <1>4, WriteRecords DEF IInv
  <2>2. Grows
    BY <2>1 DEF Grows
  <2>3. UniqueRecords'
    <3> HIDE DEF r
    <3>1. \A s \in db.records : s.kind = r.kind /\ s.id = r.id => s = r
      BY <1>4 DEF Stored
    <3> QED
      BY <2>1, <3>1 DEF IInv, UniqueRecords
  <2>4. /\ HostInv(h)' /\ Frame(h)
        /\ work'[h].page.accepting => Tally(h).accepting /\ Stays(h)
    <3>1. CASE IsEpisode(r)
      <4>1. Put(h, "identity", Tally(h))
        BY <1>4, <3>1
      <4> QED
        BY <1>1, <2>1, <2>2, <4>1, TurnKeeps DEF Taken
    <3>2. CASE ~IsEpisode(r)
      <4>1. IF Tally(h).owned THEN AcceptsOne(h) ELSE ReusesOne(h)
        BY <1>4, <3>2, AcceptAccepts
      <4>2. CASE Tally(h).owned
        BY <1>1, <2>1, <2>2, <3>2, <4>1, <4>2, AcceptedKeeps DEF AcceptsOne, Passes
      <4>3. CASE ~Tally(h).owned
        BY <1>2, <2>2, <4>1, <4>3, RefusedKeeps DEF ReusesOne, Passes
      <4> QED
        BY <4>2, <4>3
    <3> QED
      BY <3>1, <3>2
  <2> QED
    BY <2>1, <2>2, <2>3, <2>4, WriteStep
<1> QED
  BY <1>3, <1>4 DEF CreateDerivative

(* With one identity the episode is accepted, with two it is refused.      *)
LEMMA IdentifiedKeeps ==
  ASSUME IInv, NEW h \in Hosts, work[h].pc \in {"identity", "identified"},
         Identified(h), UNCHANGED db
  PROVE  IInv'
<1>1. work[h].pc \in Taken /\ ~At(h, "create")
  BY DEF Taken, At
<1>2. AtRecord(h)
  BY <1>1, InHand
<1>3. CASE Refuse(h, "episode.identity_conflict")
  BY <1>2, <1>3, RefuseRefuses, RefusedStep
<1>4. CASE /\ Sole(IdentitiesOf(db, Tally(h).now))
           /\ Accept(h, PendingOutcome(Projection(h)))
  <2>1. IdentitiesOf(db, Tally(h).now) # {}
    BY <1>4, FS_EmptySet DEF Sole
  <2>2. Tally(h).now \in db.records
    BY <1>1 DEF IInv, HostInv, InWork
  <2>3. Grows
    BY StoreSame
  <2>4. IF Tally(h).owned THEN AcceptsOne(h) ELSE ReusesOne(h)
    BY <1>4, AcceptAccepts
  <2>5. HostInv(h)'
    <3>1. CASE Tally(h).owned
      BY <1>1, <2>1, <2>2, <2>3, <2>4, <3>1, AcceptedKeeps
    <3>2. CASE ~Tally(h).owned
      BY <1>2, <2>3, <2>4, <3>2, RefusedKeeps
    <3> QED
      BY <3>1, <3>2
  <2> QED
    BY <2>4, <2>5, QuietStep DEF AcceptsOne, ReusesOne, Passes
<1> QED
  BY <1>3, <1>4 DEF Identified

LEMMA IdentityKeeps == ASSUME IInv, NEW h \in Hosts, PersistIdentity(h) PROVE IInv'
<1>1. At(h, "identity") /\ work[h].pc \in Taken /\ ~At(h, "create")
  BY DEF PersistIdentity, At, Taken
<1>2. CASE Identified(h) /\ UNCHANGED db
  BY <1>1, <1>2, IdentifiedKeeps DEF At
<1>3. CASE /\ db' = [db EXCEPT !.identities = @ \cup {IdentityClaim(h)}]
           /\ Put(h, "identified", Tally(h))
  <2>1. /\ StoreShape' /\ db'.records = db.records
        /\ db'.identities = db.identities \cup {IdentityClaim(h)}
        /\ db'.receipts = db.receipts /\ db'.findings = db.findings
        /\ db'.outcomes = db.outcomes /\ db'.owners = db.owners
        /\ db'.revisions = db.revisions
    BY <1>3, WriteIdentities DEF IInv
  <2>2. Grows
    BY <2>1 DEF Grows
  <2>3. Tally(h).now \in db'.records
    BY <1>1, <2>1 DEF IInv, HostInv, InWork
  <2>4. /\ HostInv(h)' /\ Frame(h) /\ Stays(h)
        /\ work'[h].page.accepting = Tally(h).accepting
    BY <1>1, <1>3, <2>2, <2>3, TurnKeeps DEF Taken
  <2>5. UniqueRecords'
    BY <2>1 DEF IInv, UniqueRecords
  <2> QED
    BY <2>1, <2>2, <2>4, <2>5, WriteStep
<1> QED
  BY <1>2, <1>3 DEF PersistIdentity

LEMMA ConfirmIdentityKeeps == ASSUME IInv, NEW h \in Hosts, ConfirmIdentity(h) PROVE IInv'
BY IdentifiedKeeps DEF ConfirmIdentity, At

LEMMA OpenKeeps == ASSUME IInv, NEW h \in Hosts, OpenPage(h) PROVE IInv'
<1> DEFINE t == [NoTally EXCEPT !.committed = db.receipts]
           next == IF Page(h).revision = None THEN "records" ELSE "revision"
           size == Len(Page(h).records)
<1>1. /\ TallyShape(t) /\ t.n = 1 /\ t.accepting = FALSE /\ t.rejected = 0
      /\ t.reused = 0 /\ t.derivatives = {}
  BY DEF NoTally, TallyShape, TallyFields
<1>2. Put(h, next, t) /\ UNCHANGED db
  BY DEF OpenPage
<1>3. At(h, "open") /\ ~At(h, "idle") /\ work[h].at <= Len(work[h].input)
  BY DEF OpenPage, At
<1>4. work[h].input \in Inputs /\ work[h].at \in Nat \ {0}
  BY <1>3 DEF IInv, HostInv, Placed
<1>5. work[h].at \in DOMAIN work[h].input
  <2> DEFINE input == work[h].input
  <2>1. input \in Seq(Elements(input))
    BY <1>4, IngestAssumption
  <2> HIDE DEF input
  <2>2. Len(input) \in Nat /\ DOMAIN input = 1..Len(input)
    BY <2>1, LenProperties
  <2> QED
    BY <1>3, <1>4, <2>2 DEF input
<1>6. /\ size \in Nat
      /\ Page(h).revision = None => size = 0
  BY <1>4, <1>5, PageTypes
<1> HIDE DEF t, size
<1>7. Frame(h) /\ Stays(h) /\ work'[h].pc = next /\ work'[h].page = t
  BY <1>1, <1>2, PutFacts DEF IInv
<1>8. Page(h)' = Page(h)
  BY <1>7, SamePage
<1>9. HostInv(h)'
  <2>1. /\ work'[h].pc \in Reading /\ work'[h].pc \notin Taken
        /\ work'[h].pc \notin {"idle", "confirm", "findings", "claim"}
    BY <1>7 DEF Reading, Taken
  <2>2. Placed(h)'
    BY <1>4, <1>5, <1>7, <2>1 DEF Placed, Stays, At
  <2>3. Counted(h)'
    <3>1. IsFiniteSet({}) /\ Cardinality({}) = 0
      BY FS_EmptySet
    <3>2. Tally(h)' = t /\ Len(Page(h)'.records) = size
      BY <1>7, <1>8 DEF Tally, size
    <3>3. 1 \in 1..(size + 1)
      BY <1>6
    <3>4. /\ t.n \in 1..(size + 1) /\ t.rejected \in Nat /\ t.reused \in Nat
          /\ IsFiniteSet(t.derivatives) /\ t.n = 1
      BY <1>1, <3>1, <3>3
    <3>5. Cardinality(t.derivatives) + t.rejected + t.reused = t.n - 1
      <4>1. Cardinality(t.derivatives) = 0
        BY <1>1, <3>1
      <4> QED
        BY <1>1, <4>1
    <3> QED
      BY <2>1, <3>2, <3>4, <3>5 DEF Counted, At
  <2>4. Listed(h)'
    BY <1>1, <1>7 DEF Listed, Tally
  <2>5. InWork(h)' /\ Claiming(h)'
    BY <2>1 DEF InWork, Claiming, At
  <2>6. Accepting(h)'
    <3>1. work'[h].pc = "records" => ~(1 <= size)
      BY <1>6, <1>7
    <3> QED
      BY <1>1, <1>7, <1>8, <2>1, <3>1 DEF Accepting, At, Tally, size
  <2> QED
    BY <2>2, <2>3, <2>4, <2>5, <2>6 DEF HostInv
<1> QED
  BY <1>1, <1>2, <1>7, <1>9, QuietStep

(* A call that accepts adds its own claim to the settled ones.             *)
LEMMA SettledMore ==
  ASSUME NEW h \in Hosts, Frame(h), Stays(h), db'.receipts = db.receipts
  PROVE  /\ Settled' \subseteq Settled \cup {RevisionClaim(h)}
         /\ ~work'[h].page.accepting => Settled' \subseteq Settled
<1>1. RevisionClaim(h)' = RevisionClaim(h)
  BY SamePage
<1>2. ASSUME NEW g \in Hosts, work'[g].page.accepting, g # h
      PROVE  Tally(g).accepting /\ RevisionClaim(g)' = RevisionClaim(g)
  BY <1>2 DEF Frame, Tally, RevisionClaim, Loop, Page
<1>3. ASSUME NEW c \in Settled'
      PROVE  \/ c \in Settled
             \/ c = RevisionClaim(h) /\ work'[h].page.accepting
  <2>1. CASE \E g \in Hosts : work'[g].page.accepting /\ c = RevisionClaim(g)'
    <3>1. PICK g \in Hosts : work'[g].page.accepting /\ c = RevisionClaim(g)'
      BY <2>1
    <3>2. CASE g = h
      BY <1>1, <3>1, <3>2
    <3>3. CASE g # h
      BY <1>2, <3>1, <3>3 DEF Settled
    <3> QED
      BY <3>2, <3>3
  <2>2. CASE \E p \in db'.receipts : p.derivatives # {} /\ c = ReceiptRevision(p)
    BY <2>2 DEF Settled
  <2> QED
    BY <1>3, <2>1, <2>2 DEF Settled, Tally
<1> QED
  BY <1>3

(* A revision that stands alone when it is read is the only one anything   *)
(* of its page is accepted under.                                          *)
LEMMA DecideKeeps ==
  ASSUME IInv, NEW h \in Hosts, work[h].pc \in {"revision", "confirm"}, Decide(h),
         RevisionClaim(h) \in db.revisions, UNCHANGED db
  PROVE  IInv'
<1> DEFINE claims == RevisionsOf(db.revisions, PageOf(RevisionClaim(h)))
           conflict == ~Sole(claims)
           accepting == Page(h).status = "available" /\ ~conflict
           size == Len(Page(h).records)
           t == Tally(h)
           n == IF accepting THEN 1 ELSE size + 1
           rejected == IF accepting THEN 0 ELSE size
           u == [t EXCEPT !.conflict = conflict, !.accepting = accepting, !.n = n,
                          !.rejected = rejected]
<1>1. work[h].pc \in Reading /\ work[h].pc \in Opened /\ ~At(h, "idle")
  BY DEF Reading, Opened, At
<1>2. /\ work[h].input \in Inputs /\ work[h].at \in Nat \ {0}
      /\ work[h].at \in DOMAIN work[h].input
  BY <1>1 DEF IInv, HostInv, Placed
<1>3. size \in Nat
  BY <1>2, PageTypes
<1>4. t.derivatives = {} /\ t.reused = 0
  <2>1. /\ t.n = 1 /\ t.rejected \in Nat /\ t.reused \in Nat
        /\ IsFiniteSet(t.derivatives)
        /\ Cardinality(t.derivatives) + t.rejected + t.reused = t.n - 1
    BY <1>1 DEF IInv, HostInv, Counted
  <2>2. Cardinality(t.derivatives) \in Nat
    BY <2>1, FS_CardinalityType
  <2>3. Cardinality(t.derivatives) = 0 /\ t.reused = 0
    <3> DEFINE c == Cardinality(t.derivatives)
    <3>1. c \in Nat /\ c + t.rejected + t.reused = t.n - 1
      BY <2>1, <2>2
    <3> HIDE DEF c, t
    <3>2. c = 0 /\ t.reused = 0
      BY <2>1, <3>1
    <3> QED
      BY <3>2 DEF c
  <2> QED
    BY <2>1, <2>3, FS_EmptySet
<1>5. TallyShape(t)
  BY DEF IInv, WorkShape, Tally
<1>6. Put(h, "records", u)
  BY DEF Decide
<1> HIDE DEF claims, conflict, accepting, size, t, n, rejected
<1>7. /\ TallyShape(u) /\ u.n = n /\ u.accepting = accepting
      /\ u.rejected = rejected /\ u.reused = t.reused
      /\ u.derivatives = t.derivatives
  BY <1>5 DEF TallyShape, TallyFields
<1> HIDE DEF u
<1>8. Frame(h) /\ Stays(h) /\ work'[h].pc = "records" /\ work'[h].page = u
  BY <1>6, <1>7, PutFacts DEF IInv
<1>9. Page(h)' = Page(h)
  BY <1>8, SamePage
<1>10. /\ n \in 1..(size + 1) /\ rejected \in Nat /\ 0 + rejected + 0 = n - 1
       /\ n <= size => accepting
  BY <1>3 DEF n, rejected
<1>11. HostInv(h)'
  <2>1. /\ work'[h].pc \in Reading /\ work'[h].pc \in Opened /\ work'[h].pc \notin Taken
        /\ work'[h].pc \notin {"idle", "revision", "confirm", "findings", "claim"}
    BY <1>8 DEF Reading, Opened, Taken
  <2>2. Placed(h)'
    BY <1>2, <1>8 DEF Placed, Stays
  <2>3. Tally(h)' = u /\ Len(Page(h)'.records) = size
    BY <1>8, <1>9 DEF Tally, size
  <2>4. Counted(h)'
    <3>1. IsFiniteSet({}) /\ Cardinality({}) = 0
      BY FS_EmptySet
    <3>2. /\ u.n \in 1..(size + 1) /\ u.rejected \in Nat /\ u.reused \in Nat
          /\ IsFiniteSet(u.derivatives)
      BY <1>4, <1>7, <1>10, <3>1
    <3>3. Cardinality(u.derivatives) + u.rejected + u.reused = u.n - 1
      <4>1. Cardinality(u.derivatives) = 0
        BY <1>4, <1>7, <3>1
      <4> QED
        BY <1>4, <1>7, <1>10, <4>1
    <3> QED
      BY <2>1, <2>3, <3>2, <3>3 DEF Counted, At
  <2>5. Listed(h)'
    BY <1>4, <1>7, <2>3 DEF Listed
  <2>6. InWork(h)' /\ Claiming(h)'
    BY <2>1 DEF InWork, Claiming, At
  <2>7. Accepting(h)'
    BY <1>4, <1>7, <1>10, <2>1, <2>3 DEF Accepting, At
  <2> QED
    BY <2>2, <2>4, <2>5, <2>6, <2>7 DEF HostInv
<1>12. /\ StoreShape' /\ UniqueRecords' /\ UniqueOwners' /\ ReceiptsOwn'
       /\ CommittedWhole' /\ Histories' /\ OutcomesFold' /\ Grows
       /\ IsFiniteSet(db'.revisions)
  BY StoreSame
<1>13. \A g \in Hosts : HostInv(g)'
  BY <1>8, <1>11, <1>12, HostsKept
<1>14. SettledOnce'
  <2> DEFINE rc == RevisionClaim(h)
  <2>1. /\ Settled' \subseteq Settled \cup {rc}
        /\ ~accepting => Settled' \subseteq Settled
    BY <1>7, <1>8, SettledMore
  <2>2. CASE ~accepting
    BY <1>12, <2>1, <2>2, SettledKept
  <2>3. CASE accepting
    <3>1. Sole(claims) /\ claims \subseteq db.revisions /\ IsFiniteSet(db.revisions)
      BY <2>3 DEF accepting, conflict, claims, RevisionsOf, IInv, SettledOnce
    <3>2. IsFiniteSet(claims)
      BY <3>1, FS_Subset
    <3>3. PICK x : claims = {x}
      BY <3>1, <3>2, FS_Singleton DEF Sole
    <3> HIDE DEF rc
    <3>4. rc \in db.revisions
      BY DEF rc
    <3>5. ASSUME NEW c \in db.revisions, PageOf(c) = PageOf(rc) PROVE c = rc
      BY <3>3, <3>4, <3>5 DEF claims, RevisionsOf, rc
    <3>6. /\ Settled \subseteq db.revisions
          /\ \A c, d \in Settled : PageOf(c) = PageOf(d) => c = d
      BY DEF IInv, SettledOnce
    <3>7. \A c, d \in Settled' : PageOf(c) = PageOf(d) => c = d
      BY <2>1, <3>4, <3>5, <3>6
    <3>8. Settled' \subseteq db'.revisions
      BY <2>1, <3>4, <3>6
    <3> QED
      BY <1>12, <3>7, <3>8 DEF SettledOnce
  <2> QED
    BY <2>2, <2>3
<1> QED
  BY <1>8, <1>12, <1>13, <1>14 DEF IInv, Frame

LEMMA RevisionKeeps == ASSUME IInv, NEW h \in Hosts, ClaimRevision(h) PROVE IInv'
<1>1. At(h, "revision")
  BY DEF ClaimRevision
<1>2. CASE RevisionClaim(h) \in db.revisions /\ Decide(h) /\ UNCHANGED db
  BY <1>1, <1>2, DecideKeeps DEF At
<1>3. CASE /\ db' = [db EXCEPT !.revisions = @ \cup {RevisionClaim(h)}]
           /\ Put(h, "confirm", Tally(h))
  <2>1. /\ StoreShape' /\ db'.records = db.records /\ db'.identities = db.identities
        /\ db'.receipts = db.receipts /\ db'.findings = db.findings
        /\ db'.outcomes = db.outcomes /\ db'.owners = db.owners
        /\ db'.revisions = db.revisions \cup {RevisionClaim(h)}
    BY <1>3, WriteRevisions DEF IInv
  <2>2. Grows
    BY <2>1 DEF Grows
  <2>3. Frame(h) /\ Stays(h) /\ work'[h].pc = "confirm" /\ work'[h].page = Tally(h)
    BY <1>3, PutFacts DEF IInv, WorkShape, Tally
  <2>4. /\ Page(h)' = Page(h) /\ PageOwner(h)' = PageOwner(h)
        /\ RevisionClaim(h)' = RevisionClaim(h)
    BY <2>3, SamePage
  <2>5. work[h].pc \in Reading /\ work[h].pc \in Opened /\ ~At(h, "idle")
    BY <1>1 DEF Reading, Opened, At
  <2>6. /\ work'[h].pc \in Reading /\ work'[h].pc \in Opened /\ work'[h].pc \notin Taken
        /\ work'[h].pc \notin {"idle", "records", "findings", "claim"}
    BY <2>3 DEF Reading, Opened, Taken
  <2>7. HostInv(h)'
    <3>1. Placed(h)'
      BY <2>3, <2>5 DEF IInv, HostInv, Placed, Stays
    <3>2. Counted(h)'
      BY <1>1, <2>3, <2>4, <2>5, <2>6 DEF IInv, HostInv, Counted, At, Tally
    <3>3. Listed(h)'
      <4>1. ASSUME NEW r PROVE Earlier(h, r)' <=> Earlier(h, r)
        BY <2>3, <2>4 DEF Earlier, Tally
      <4>2. ASSUME NEW r PROVE IdentitiesOf(db', r) = IdentitiesOf(db, r)
        BY <2>1 DEF IdentitiesOf
      <4> QED
        BY <2>1, <2>3, <2>4, <2>5, <4>1, <4>2 DEF IInv, HostInv, Listed, Tally
    <3>4. InWork(h)' /\ Claiming(h)'
      BY <2>6 DEF InWork, Claiming, At
    <3>5. Accepting(h)'
      BY <2>1, <2>3, <2>4, <2>5, <2>6 DEF IInv, HostInv, Accepting, At, Tally, Taken
    <3> QED
      BY <3>1, <3>2, <3>3, <3>4, <3>5 DEF HostInv
  <2>8. \A g \in Hosts : HostInv(g)'
    BY <2>2, <2>3, <2>7, HostsKept
  <2>9. SettledOnce'
    <3>1. IsFiniteSet(db'.revisions)
      BY <2>1, FS_AddElement DEF IInv, SettledOnce
    <3> QED
      BY <2>1, <2>2, <2>3, <3>1, SettledSame, SettledKept
  <2>10. ReceiptsOwn' /\ CommittedWhole' /\ Histories' /\ OutcomesFold'
    BY <2>1, <2>2, ReceiptsKept, HistoriesKept
  <2>11. UniqueRecords' /\ UniqueOwners'
    BY <2>1 DEF IInv, UniqueRecords, UniqueOwners
  <2> QED
    BY <2>1, <2>3, <2>8, <2>9, <2>10, <2>11 DEF IInv, Frame
<1> QED
  BY <1>2, <1>3 DEF ClaimRevision

LEMMA ConfirmKeeps == ASSUME IInv, NEW h \in Hosts, ConfirmRevision(h) PROVE IInv'
<1>1. At(h, "confirm") /\ Decide(h) /\ UNCHANGED db
  BY DEF ConfirmRevision
<1>2. RevisionClaim(h) \in db.revisions
  BY <1>1 DEF IInv, HostInv, Accepting
<1> QED
  BY <1>1, <1>2, DecideKeeps DEF At

LEMMA CheckKeeps == ASSUME IInv, NEW h \in Hosts, CheckOutcomes(h) PROVE IInv'
<1> DEFINE t == Tally(h)
           lost == Len(t.pending) - Len(ValidOutcomes(h))
           u == [t EXCEPT !.pending = ValidOutcomes(h), !.mismatched = @ + lost,
                   !.diagnostics["evidence.ownership_mismatch"] = @ + lost]
<1>1. Put(h, "findings", u) /\ UNCHANGED db
  BY DEF CheckOutcomes
<1>2. TallyShape(t)
  BY DEF IInv, WorkShape, Tally
<1>3. At(h, "records") /\ Tally(h).n > Len(Page(h).records)
  BY DEF CheckOutcomes
<1> HIDE DEF t, lost
<1>4. /\ TallyShape(u) /\ u.n = t.n /\ u.accepting = t.accepting
      /\ u.rejected = t.rejected /\ u.reused = t.reused
      /\ u.derivatives = t.derivatives
  BY <1>2 DEF TallyShape, TallyFields
<1> HIDE DEF u
<1>5. Frame(h) /\ Stays(h) /\ work'[h].pc = "findings" /\ work'[h].page = u
  BY <1>1, <1>4, PutFacts DEF IInv
<1>6. /\ Page(h)' = Page(h) /\ PageOwner(h)' = PageOwner(h)
      /\ RevisionClaim(h)' = RevisionClaim(h)
  BY <1>5, SamePage
<1>7. work[h].pc \in Reading /\ work[h].pc \in Opened /\ ~At(h, "idle")
  BY <1>3 DEF Reading, Opened, At
<1>8. /\ work'[h].pc \in Reading /\ work'[h].pc \in Opened /\ work'[h].pc \notin Taken
      /\ work'[h].pc \notin {"idle", "revision", "confirm", "records", "claim"}
  BY <1>5 DEF Reading, Opened, Taken
<1>9. HostInv(h)'
  <2>1. Placed(h)'
    BY <1>5, <1>7 DEF IInv, HostInv, Placed, Stays
  <2>2. Counted(h)'
    <3>1. /\ Tally(h).n \in 1..(Len(Page(h).records) + 1)
          /\ Len(Page(h).records) \in Nat
      BY <1>7, PageTypes DEF IInv, HostInv, Counted, Placed
    <3>2. Tally(h).n = Len(Page(h).records) + 1
      BY <1>3, <3>1
    <3> QED
      BY <1>4, <1>5, <1>6, <1>7, <1>8, <3>2 DEF IInv, HostInv, Counted, At, Tally, t
  <2>3. Listed(h)'
    <3>1. ASSUME NEW r PROVE Earlier(h, r)' <=> Earlier(h, r)
      BY <1>4, <1>5, <1>6 DEF Earlier, Tally, t
    <3>2. ASSUME NEW r PROVE IdentitiesOf(db', r) = IdentitiesOf(db, r)
      BY <1>1
    <3> QED
      BY <1>1, <1>4, <1>5, <1>6, <1>7, <3>1, <3>2 DEF IInv, HostInv, Listed, Tally, t
  <2>4. InWork(h)' /\ Claiming(h)'
    BY <1>8 DEF InWork, Claiming, At
  <2>5. Accepting(h)'
    BY <1>4, <1>5, <1>7, <1>8 DEF IInv, HostInv, Accepting, At, Tally, t
  <2> QED
    BY <2>1, <2>2, <2>3, <2>4, <2>5 DEF HostInv
<1> QED
  BY <1>1, <1>4, <1>5, <1>9, QuietStep DEF t

LEMMA FindingKeeps ==
  ASSUME IInv, NEW h \in Hosts, PersistHealthFinding(h)
  PROVE  IInv'
<1>1. PICK f : db' = [db EXCEPT !.findings = @ \cup {f}]
  BY DEF PersistHealthFinding
<1>2. UNCHANGED work
  BY DEF PersistHealthFinding
<1>3. /\ StoreShape' /\ db'.records = db.records /\ db'.identities = db.identities
      /\ db'.receipts = db.receipts /\ db'.findings = db.findings \cup {f}
      /\ db'.outcomes = db.outcomes /\ db'.owners = db.owners
      /\ db'.revisions = db.revisions
  BY <1>1, WriteFindings DEF IInv
<1>4. Grows
  BY <1>3 DEF Grows
<1>5. Frame(h) /\ Stays(h)
  BY <1>2 DEF Frame, Stays, IInv, WorkShape
<1>6. HostInv(h)'
  BY <1>2, <1>4, OthersKept DEF IInv
<1>7. UniqueRecords'
  BY <1>3 DEF IInv, UniqueRecords
<1>8. work'[h].page.accepting = Tally(h).accepting
  BY <1>2 DEF Tally
<1> QED
  BY <1>3, <1>4, <1>5, <1>6, <1>7, <1>8, WriteStep

-------------------------------------------------------------------------------
(***************************************************************************)
(* The receipt of a page.                                                  *)
(***************************************************************************)

OfKind(page, k) == {n \in DOMAIN page.records : page.records[n].kind = k}

(* The three kinds make up a page.                                         *)
LEMMA KindsCount ==
  ASSUME NEW page, NEW size \in Nat, DOMAIN page.records = 1..size,
         \A n \in 1..size : page.records[n].kind \in Kinds
  PROVE  /\ \A k \in Kinds : IsFiniteSet(OfKind(page, k))
         /\ Cardinality(OfKind(page, "episode")) + Cardinality(OfKind(page, "observation"))
              + Cardinality(OfKind(page, "measurement")) = size
<1> DEFINE A == OfKind(page, "episode")
           B == OfKind(page, "observation")
           C == OfKind(page, "measurement")
<1>1. IsFiniteSet(1..size) /\ Cardinality(1..size) = size
  <2>1. 1 \in Int /\ size \in Int /\ (IF 1 > size THEN 0 ELSE size - 1 + 1) = size
    OBVIOUS
  <2>2. /\ IsFiniteSet(1..size)
        /\ Cardinality(1..size) = IF 1 > size THEN 0 ELSE size - 1 + 1
    BY <2>1, FS_Interval
  <2> QED
    BY <2>1, <2>2
<1>2. \A k \in Kinds : OfKind(page, k) \subseteq 1..size
  BY DEF OfKind
<1>3. \A k \in Kinds : IsFiniteSet(OfKind(page, k))
  BY <1>1, <1>2, FS_Subset
<1>4. A \cap B = {} /\ (A \cup B) \cap C = {} /\ (A \cup B) \cup C = 1..size
  BY DEF OfKind, Kinds
<1>5. IsFiniteSet(A) /\ IsFiniteSet(B) /\ IsFiniteSet(C)
  BY <1>3 DEF Kinds
<1> HIDE DEF A, B, C
<1>6. /\ IsFiniteSet(A \cup B)
      /\ Cardinality(A \cup B) = Cardinality(A) + Cardinality(B) - Cardinality(A \cap B)
  BY <1>5, FS_Union
<1>7. Cardinality((A \cup B) \cup C)
        = Cardinality(A \cup B) + Cardinality(C) - Cardinality((A \cup B) \cap C)
  BY <1>5, <1>6, FS_Union
<1>8. Cardinality({}) = 0
  BY FS_EmptySet
<1>9. Cardinality(A) \in Nat /\ Cardinality(B) \in Nat /\ Cardinality(C) \in Nat
  BY <1>5, FS_CardinalityType
<1> DEFINE a == Cardinality(A)
           b == Cardinality(B)
           c == Cardinality(C)
           ab == Cardinality(A \cup B)
<1>10. a \in Nat /\ b \in Nat /\ c \in Nat /\ ab = a + b - 0 /\ size = ab + c - 0
  BY <1>1, <1>4, <1>6, <1>7, <1>8, <1>9
<1> HIDE DEF a, b, c, ab
<1>11. a + b + c = size
  BY <1>10
<1>12. Cardinality(A) + Cardinality(B) + Cardinality(C) = size
  BY <1>11 DEF a, b, c
<1> QED
  BY <1>3, <1>12 DEF A, B, C

(* Derivatives with an id each are no more than the projections they are   *)
(* of.                                                                     *)
LEMMA NoMoreThan ==
  ASSUME NEW page, NEW D, NEW k, IsFiniteSet(OfKind(page, k)),
         \A r \in D : /\ r.kind = k
                      /\ \E m \in DOMAIN page.records :
                           page.records[m].kind = k /\ page.records[m].id = r.id,
         \A r, s \in D : r.id = s.id => r = s
  PROVE  Cardinality(D) <= Cardinality(OfKind(page, k))
<1> DEFINE T == OfKind(page, k)
           f == [r \in D |-> CHOOSE m \in T : page.records[m].id = r.id]
<1>1. \A r \in D : f[r] \in T /\ page.records[f[r]].id = r.id
  BY DEF OfKind
<1>2. f \in [D -> T]
  BY <1>1
<1> HIDE DEF f, T
<1>3. \A r, s \in D : f[r] = f[s] => r = s
  BY <1>1
<1>4. f \in Injection(D, T)
  BY <1>2, <1>3 DEF Injection, IsInjective
<1> QED
  BY <1>4, FS_Injection DEF T

LEMMA ReceiptReadable ==
  ASSUME IInv, NEW h \in Hosts, At(h, "findings")
  PROVE  ReadableReceipt(SourcePageReceipt(h))
<1> DEFINE R == SourcePageReceipt(h)
           page == Page(h)
           size == Len(page.records)
           D == Tally(h).derivatives
<1>1. work[h].pc \in Reading /\ work[h].pc \in Opened /\ ~At(h, "idle")
  BY DEF Reading, Opened, At
<1>2. /\ size \in Nat /\ DOMAIN page.records = 1..size
      /\ \A n \in 1..size : page.records[n].kind \in Kinds
      /\ page.status \in {"available", "unreadable"}
      /\ page.status = "available" => page.revision # None
      /\ page.status # "available" => size = 0
  BY <1>1, PageTypes DEF IInv, HostInv, Placed
<1>3. /\ R.status = page.status /\ R.revision = page.revision
      /\ R.derivatives = D /\ R.rejected = Tally(h).rejected
      /\ R.reused = Tally(h).reused
      /\ \A k \in Kinds : R.counts[k] = Cardinality(OfKind(page, k))
  BY DEF SourcePageReceipt, ProjectionCounts, OfKind
<1>4. /\ Tally(h).n = size + 1
      /\ Cardinality(D) + Tally(h).rejected + Tally(h).reused = Tally(h).n - 1
  BY <1>1 DEF IInv, HostInv, Counted
<1> HIDE DEF R, page, size, D
<1>5. /\ \A k \in Kinds : IsFiniteSet(OfKind(page, k))
      /\ Cardinality(OfKind(page, "episode")) + Cardinality(OfKind(page, "observation"))
           + Cardinality(OfKind(page, "measurement")) = size
  BY <1>2, KindsCount
<1>6. R.counts["episode"] + R.counts["observation"] + R.counts["measurement"] = size
  BY <1>3, <1>5 DEF Kinds
<1>7. Cardinality(D) + R.rejected + R.reused = size
  BY <1>2, <1>3, <1>4
<1>8. ASSUME NEW k \in Kinds
      PROVE  Cardinality({r \in D : r.kind = k}) <= R.counts[k]
  <2> DEFINE E == {r \in D : r.kind = k}
  <2>1. ASSUME NEW r \in E
        PROVE  \E m \in DOMAIN page.records :
                 page.records[m].kind = k /\ page.records[m].id = r.id
    <3>1. r \in D /\ r.kind = k
      OBVIOUS
    <3>2. PICK m \in 1..(Tally(h).n - 1) :
            page.records[m].kind = r.kind /\ page.records[m].id = r.id
      BY <1>1, <3>1 DEF IInv, HostInv, Listed, Earlier, D, page
    <3>3. m \in 1..size
      BY <1>2, <1>4, <3>2
    <3> QED
      BY <1>2, <3>1, <3>2, <3>3
  <2>2. ASSUME NEW r \in E, NEW s \in E, r.id = s.id PROVE r = s
    <3>1. r \in db.records /\ s \in db.records
      BY <1>1 DEF IInv, HostInv, Listed, D
    <3> QED
      BY <2>2, <3>1 DEF IInv, UniqueRecords
  <2>3. \A r \in E : r.kind = k
    OBVIOUS
  <2> HIDE DEF E
  <2>4. Cardinality(E) <= Cardinality(OfKind(page, k))
    BY <1>5, <2>1, <2>2, <2>3, NoMoreThan
  <2> QED
    BY <1>3, <2>4 DEF E
<1>9. SourcePageState(R)
  BY <1>2, <1>3 DEF SourcePageState
<1>10. ReadableReceipt(R)
  BY <1>2, <1>3, <1>6, <1>7, <1>8, <1>9 DEF ReadableReceipt
<1> QED
  BY <1>10 DEF R

LEMMA CommitKeeps == ASSUME IInv, NEW h \in Hosts, CommitPage(h) PROVE IInv'
<1> DEFINE R == SourcePageReceipt(h)
           w == [work[h] EXCEPT !.pc = "outcomes", !.done = Append(@, R)]
<1>1. At(h, "findings") /\ work[h].pc \in Reading /\ work[h].pc \in Opened
      /\ ~At(h, "idle")
  BY DEF CommitPage, Reading, Opened, At
<1>2. ReadableReceipt(R)
  BY <1>1, ReceiptReadable
<1>3. /\ PageOf(R) = <<Loop(h).registration, Page(h).artifact, Page(h).ref>>
      /\ R.findings = PageFindings(h) /\ R.derivatives = Tally(h).derivatives
      /\ OwnerFromReceipt(R) = PageOwner(h) /\ ReceiptRevision(R) = RevisionClaim(h)
  BY DEF SourcePageReceipt, PageOf, OwnerFromReceipt, PageOwner, ReceiptRevision,
         RevisionClaim
<1>4. ASSUME NEW f \in PageFindings(h) PROVE PageOf(f) = PageOf(R)
  <2>1. \E code, effect, count : f = Finding(h, code, effect, count)
    BY DEF PageFindings
  <2> QED
    BY <1>3, <2>1 DEF Finding, PageOf
<1>5. db' = [db EXCEPT !.receipts = @ \cup {R}] /\ PageFindings(h) \subseteq db.findings
  BY DEF CommitPage
<1>6. /\ CallShape(w) /\ w.pc = "outcomes" /\ w.page = work[h].page
      /\ w.input = work[h].input /\ w.at = work[h].at
  BY DEF IInv, WorkShape, CallShape, CallFields
<1>7. work' = [work EXCEPT ![h] = w]
  BY DEF CommitPage, IInv, WorkShape
<1>8. TallyShape(work[h].page)
  BY DEF IInv, WorkShape
<1> HIDE DEF R, w
<1>9. Frame(h) /\ work'[h] = w
  BY <1>6, <1>7, <1>8, SetFacts DEF IInv
<1>10. Stays(h) /\ work'[h].page = Tally(h)
  BY <1>6, <1>9 DEF Stays, Tally
<1>11. /\ StoreShape' /\ db'.records = db.records /\ db'.identities = db.identities
       /\ db'.receipts = db.receipts \cup {R} /\ db'.findings = db.findings
       /\ db'.outcomes = db.outcomes /\ db'.owners = db.owners
       /\ db'.revisions = db.revisions
  BY <1>5, WriteReceipts DEF IInv
<1>12. Grows
  BY <1>11 DEF Grows
<1>13. HostInv(h)'
  <2>1. /\ work'[h].pc \in Opened /\ work'[h].pc \notin Reading /\ work'[h].pc \notin Taken
        /\ work'[h].pc \notin {"idle", "confirm", "records", "claim"}
    BY <1>6, <1>9 DEF Opened, Reading, Taken
  <2>2. Placed(h)'
    BY <1>1, <1>10 DEF IInv, HostInv, Placed, Stays
  <2>3. Counted(h)' /\ Listed(h)' /\ InWork(h)' /\ Claiming(h)' /\ Accepting(h)'
    BY <2>1 DEF Counted, Listed, InWork, Claiming, Accepting, At
  <2> QED
    BY <2>2, <2>3 DEF HostInv
<1>14. \A g \in Hosts : HostInv(g)'
  BY <1>9, <1>12, <1>13, HostsKept
<1>15. SettledOnce'
  <2>1. ASSUME NEW g \in Hosts, work'[g].page.accepting
        PROVE  Tally(g).accepting /\ RevisionClaim(g)' = RevisionClaim(g)
    <3>1. CASE g = h
      BY <1>10, <2>1, <3>1, SamePage
    <3>2. CASE g # h
      BY <1>9, <2>1, <3>2 DEF Frame, Tally, RevisionClaim, Loop, Page
    <3> QED
      BY <3>1, <3>2
  <2>2. R.derivatives # {} => ReceiptRevision(R) \in Settled
    BY <1>1, <1>3 DEF IInv, HostInv, Accepting, Settled
  <2>3. ASSUME NEW c \in Settled' PROVE c \in Settled
    <3>1. CASE \E g \in Hosts : work'[g].page.accepting /\ c = RevisionClaim(g)'
      BY <2>1, <3>1 DEF Settled
    <3>2. CASE \E p \in db'.receipts : p.derivatives # {} /\ c = ReceiptRevision(p)
      BY <1>11, <2>2, <3>2 DEF Settled
    <3> QED
      BY <2>3, <3>1, <3>2 DEF Settled, Tally
  <2> QED
    BY <1>11, <1>12, <2>3, SettledKept DEF IInv, SettledOnce
<1>16. ReceiptsOwn'
  <2>1. \A r \in R.derivatives : OwnerClaim(r, OwnerFromReceipt(R)) \in db.owners
    BY <1>1, <1>3 DEF IInv, HostInv, Listed
  <2> QED
    BY <1>11, <2>1 DEF IInv, ReceiptsOwn
<1>17. CommittedWhole'
  <2>1. \A r \in R.derivatives :
          r \in db.records /\ (IsEpisode(r) => IdentitiesOf(db, r) # {})
    BY <1>1, <1>3 DEF IInv, HostInv, Listed
  <2>2. ASSUME NEW r PROVE IdentitiesOf(db', r) = IdentitiesOf(db, r)
    BY <1>11 DEF IdentitiesOf
  <2>3. ASSUME NEW p \in db'.receipts
        PROVE  /\ p.derivatives \subseteq db'.records /\ p.findings \subseteq db'.findings
               /\ \A f \in p.findings : PageOf(f) = PageOf(p)
               /\ \A r \in p.derivatives : IsEpisode(r) => IdentitiesOf(db', r) # {}
               /\ ReadableReceipt(p)
    <3>1. CASE p = R
      BY <1>2, <1>3, <1>4, <1>5, <1>11, <2>1, <2>2, <3>1
    <3>2. CASE p # R
      BY <1>11, <2>2, <3>2 DEF IInv, CommittedWhole
    <3> QED
      BY <3>1, <3>2
  <2> QED
    BY <2>3 DEF CommittedWhole
<1>18. Histories' /\ OutcomesFold'
  BY <1>11, HistoriesKept
<1>19. UniqueRecords' /\ UniqueOwners'
  BY <1>11 DEF IInv, UniqueRecords, UniqueOwners
<1> QED
  BY <1>9, <1>11, <1>14, <1>15, <1>16, <1>17, <1>18, <1>19 DEF IInv, Frame

-------------------------------------------------------------------------------
(***************************************************************************)
(* Outcome claims.                                                         *)
(***************************************************************************)

LEMMA ResolveKeeps == ASSUME IInv, NEW h \in Hosts, ResolveOutcome(h) PROVE IInv'
<1> DEFINE t == Tally(h)
           o == Head(t.pending)
           claim == OutcomeClaim(h, o)
           u == [t EXCEPT !.pending = Tail(@), !.claim = claim]
<1>1. At(h, "outcomes") /\ UNCHANGED db
  BY DEF ResolveOutcome
<1>2. CASE work' = [work EXCEPT ![h] = Idle]
  BY <1>1, <1>2, SetAside, QuietStep
<1>3. CASE OwnedMeasurements(claim) /\ Put(h, "claim", u)
  <2>1. TallyShape(t)
    BY DEF IInv, WorkShape, Tally
  <2> HIDE DEF t, o, claim
  <2>2. TallyShape(u) /\ u.accepting = t.accepting /\ u.claim = claim
    BY <2>1 DEF TallyShape, TallyFields
  <2> HIDE DEF u
  <2>3. Frame(h) /\ Stays(h) /\ work'[h].pc = "claim" /\ work'[h].page = u
    BY <1>3, <2>2, PutFacts DEF IInv
  <2>4. work[h].pc \in Opened /\ ~At(h, "idle")
    BY <1>1 DEF Opened, At
  <2>5. /\ work'[h].pc \in Opened /\ work'[h].pc \notin Reading /\ work'[h].pc \notin Taken
        /\ work'[h].pc \notin {"idle", "confirm", "records"}
    BY <2>3 DEF Opened, Reading, Taken
  <2>6. Placed(h)'
    BY <2>3, <2>4 DEF IInv, HostInv, Placed, Stays
  <2>7. Counted(h)' /\ Listed(h)' /\ InWork(h)' /\ Accepting(h)'
    BY <2>5 DEF Counted, Listed, InWork, Accepting, At
  <2>8. Claiming(h)'
    BY <1>3, <2>2, <2>3 DEF Claiming, Tally
  <2>9. HostInv(h)'
    BY <2>6, <2>7, <2>8 DEF HostInv
  <2> QED
    BY <1>1, <2>2, <2>3, <2>9, QuietStep DEF t
<1> QED
  BY <1>2, <1>3 DEF ResolveOutcome

(* A history grows by an attempt it does not hold.                         *)
LEMMA AppendNew ==
  ASSUME NEW s, s \in Seq(Elements(s)), NEW c, c \notin Elements(s), ~Repeats(s)
  PROVE  /\ Append(s, c) \in Seq(Elements(Append(s, c)))
         /\ Elements(Append(s, c)) = Elements(s) \cup {c}
         /\ ~Repeats(Append(s, c))
<1> DEFINE S == Elements(s)
           a == Append(s, c)
           n == Len(s)
<1>1. n \in Nat /\ DOMAIN s = 1..n
  BY LenProperties
<1>2. s \in Seq(S \cup {c})
  <2>1. \A i \in 1..n : s[i] \in S
    BY <1>1 DEF Elements
  <2> QED
    BY <1>1, <2>1
<1>3. /\ a \in Seq(S \cup {c}) /\ Len(a) = n + 1 /\ DOMAIN a = 1..(n + 1)
      /\ \A i \in 1..n : a[i] = s[i]
      /\ a[n + 1] = c
  BY <1>2, AppendProperties
<1>4. Elements(a) = S \cup {c}
  <2> HIDE DEF a, n
  <2>1. ASSUME NEW x \in Elements(a) PROVE x \in S \cup {c}
    <3>1. PICK i \in 1..(n + 1) : x = a[i]
      BY <1>3 DEF Elements
    <3>2. i \in 1..n \/ i = n + 1
      BY <1>1, <3>1
    <3> QED
      BY <1>1, <1>3, <3>1, <3>2 DEF Elements
  <2>2. ASSUME NEW x \in S PROVE x \in Elements(a)
    <3>1. PICK i \in 1..n : x = s[i]
      BY <1>1 DEF Elements
    <3>2. i \in 1..(n + 1)
      BY <1>1, <3>1
    <3> QED
      BY <1>3, <3>1, <3>2 DEF Elements
  <2>3. n + 1 \in 1..(n + 1)
    BY <1>1
  <2>4. c \in Elements(a)
    BY <1>3, <2>3 DEF Elements
  <2> QED
    BY <2>1, <2>2, <2>4
<1>5. IsFiniteSet(S)
  <2>1. s \in Surjection(1..n, S)
    BY <1>1, <1>2 DEF Surjection, Elements
  <2>2. IsFiniteSet(1..n)
    BY <1>1, FS_Interval
  <2> QED
    BY <2>1, <2>2, FS_Surjection
<1>6. Cardinality(S) \in Nat /\ ~(Cardinality(S) < n)
  BY <1>5, FS_CardinalityType DEF Repeats
<1>7. Cardinality(S \cup {c}) = Cardinality(S) + 1
  BY <1>5, FS_AddElement
<1>8. ~(Cardinality(Elements(a)) < Len(a))
  <2> DEFINE m == Cardinality(S)
  <2>1. m \in Nat /\ ~(m < n) /\ Cardinality(Elements(a)) = m + 1 /\ Len(a) = n + 1
    BY <1>3, <1>4, <1>6, <1>7
  <2> HIDE DEF m, n, a
  <2> QED
    BY <1>1, <2>1
<1> QED
  BY <1>3, <1>4, <1>8 DEF Repeats

LEMMA PersistOutcomeKeeps ==
  ASSUME IInv, NEW h \in Hosts, PersistOutcomeClaim(h)
  PROVE  IInv'
<1> DEFINE t == Tally(h)
           c == t.claim
           history == db.outcomes[c.episode]
           u == [t EXCEPT !.claim = None]
<1>1. At(h, "claim") /\ OwnedMeasurements(c)
  BY DEF PersistOutcomeClaim, IInv, HostInv, Claiming
<1>2. Put(h, "outcomes", u)
  BY DEF PersistOutcomeClaim
<1>3. TallyShape(t)
  BY DEF IInv, WorkShape, Tally
<1>4. \/ UNCHANGED db
      \/ /\ c \notin Elements(history)
         /\ db' = [db EXCEPT !.outcomes[c.episode] = Append(@, c)]
  BY DEF PersistOutcomeClaim
<1> HIDE DEF t
<1>5. TallyShape(u) /\ u.accepting = t.accepting
  BY <1>3 DEF TallyShape, TallyFields
<1> HIDE DEF c, u
<1>6. Frame(h) /\ Stays(h) /\ work'[h].pc = "outcomes" /\ work'[h].page = u
  BY <1>2, <1>5, PutFacts DEF IInv
<1>7. work[h].pc \in Opened /\ ~At(h, "idle")
  BY <1>1 DEF Opened, At
<1>8. HostInv(h)'
  <2>1. /\ work'[h].pc \in Opened /\ work'[h].pc \notin Reading /\ work'[h].pc \notin Taken
        /\ work'[h].pc \notin {"idle", "confirm", "records", "claim"}
    BY <1>6 DEF Opened, Reading, Taken
  <2>2. Placed(h)'
    BY <1>6, <1>7 DEF IInv, HostInv, Placed, Stays
  <2>3. Counted(h)' /\ Listed(h)' /\ InWork(h)' /\ Claiming(h)' /\ Accepting(h)'
    BY <2>1 DEF Counted, Listed, InWork, Claiming, Accepting, At
  <2> QED
    BY <2>2, <2>3 DEF HostInv
<1>9. work'[h].page.accepting => Tally(h).accepting /\ Stays(h)
  BY <1>5, <1>6 DEF t
<1>10. CASE UNCHANGED db
  BY <1>6, <1>8, <1>9, <1>10, QuietStep
<1>11. CASE /\ c \notin Elements(history)
            /\ db' = [db EXCEPT !.outcomes[c.episode] = Append(@, c)]
  <2> DEFINE X == [db.outcomes EXCEPT ![c.episode] = Append(@, c)]
  <2>1. db' = [db EXCEPT !.outcomes = X]
    BY <1>11 DEF IInv, StoreShape, StoreFields
  <2> HIDE DEF X
  <2>2. /\ StoreShape' /\ db'.records = db.records /\ db'.identities = db.identities
        /\ db'.receipts = db.receipts /\ db'.findings = db.findings
        /\ db'.outcomes = X /\ db'.owners = db.owners
        /\ db'.revisions = db.revisions
    BY <2>1, WriteOutcomes DEF IInv
  <2>3. Grows
    BY <2>2 DEF Grows
  <2>4. /\ X = [id \in Ids |-> X[id]]
        /\ \A id \in Ids : X[id] = IF id = c.episode THEN Append(history, c)
                                   ELSE db.outcomes[id]
    BY DEF X, IInv, Histories
  <2> HIDE DEF history
  <2>5. ASSUME NEW id \in Ids
        PROVE  /\ X[id] \in Seq(Elements(X[id])) /\ ~Repeats(X[id])
               /\ \A d \in Elements(X[id]) : d.episode = id /\ OwnedMeasurements(d)
    <3> DEFINE old == db.outcomes[id]
    <3>1. /\ old \in Seq(Elements(old)) /\ ~Repeats(old)
          /\ \A d \in Elements(old) : d.episode = id /\ OwnedMeasurements(d)
      BY DEF IInv, Histories, OutcomesFold, FoldsClaims
    <3>2. CASE id = c.episode
      <4>1. X[id] = Append(old, c) /\ c \notin Elements(old)
        BY <1>11, <2>4, <3>2 DEF history
      <4> HIDE DEF old
      <4>2. /\ Append(old, c) \in Seq(Elements(Append(old, c)))
            /\ Elements(Append(old, c)) = Elements(old) \cup {c}
            /\ ~Repeats(Append(old, c))
        BY <3>1, <4>1, AppendNew
      <4> QED
        BY <1>1, <3>1, <3>2, <4>1, <4>2
    <3>3. CASE id # c.episode
      BY <2>4, <3>1, <3>3
    <3> QED
      BY <3>2, <3>3
  <2>6. Histories' /\ OutcomesFold'
    BY <2>2, <2>4, <2>5 DEF Histories, OutcomesFold, FoldsClaims
  <2>7. \A g \in Hosts : HostInv(g)'
    BY <1>6, <1>8, <2>3, HostsKept
  <2>8. SettledOnce'
    BY <1>6, <1>9, <2>2, <2>3, SettledSame, SettledKept DEF IInv, SettledOnce
  <2>9. ReceiptsOwn' /\ CommittedWhole'
    BY <2>2, <2>3, ReceiptsKept
  <2>10. UniqueRecords' /\ UniqueOwners'
    BY <2>2 DEF IInv, UniqueRecords, UniqueOwners
  <2> QED
    BY <1>6, <2>2, <2>6, <2>7, <2>8, <2>9, <2>10 DEF IInv, Frame
<1> QED
  BY <1>4, <1>10, <1>11

-------------------------------------------------------------------------------
(***************************************************************************)
(* The theorems.                                                           *)
(***************************************************************************)

LEMMA InitHolds == Init => IInv
<1> SUFFICES ASSUME Init PROVE IInv
  OBVIOUS
<1>1. /\ StoreShape /\ db.records = {} /\ db.receipts = {} /\ db.owners = {}
      /\ db.revisions = {} /\ db.outcomes = [id \in Ids |-> <<>>]
  BY DEF Init, EmptyStore, StoreShape, StoreFields
<1>2. \A h \in Hosts : work[h] = Idle
  BY DEF Init
<1>3. WorkShape
  BY <1>2, IdleShape DEF Init, WorkShape
<1>4. ASSUME NEW h \in Hosts PROVE HostInv(h) /\ ~Tally(h).accepting
  <2>1. /\ work[h].pc = "idle" /\ ~Tally(h).accepting
    BY <1>2, IdleShape DEF Idle, NoTally, Tally
  <2>2. /\ work[h].pc \notin Opened /\ work[h].pc \notin Reading
        /\ work[h].pc \notin Taken
        /\ work[h].pc \notin {"confirm", "records", "claim"}
    BY <2>1 DEF Opened, Reading, Taken
  <2>3. Placed(h) /\ Counted(h) /\ Listed(h) /\ InWork(h) /\ Claiming(h)
    BY <2>1, <2>2 DEF Placed, Counted, Listed, InWork, Claiming, At
  <2>4. Accepting(h)
    BY <2>1, <2>2 DEF Accepting, At
  <2> QED
    BY <2>1, <2>3, <2>4 DEF HostInv
<1>5. UniqueRecords /\ UniqueOwners /\ ReceiptsOwn /\ CommittedWhole
  BY <1>1 DEF UniqueRecords, UniqueOwners, ReceiptsOwn, CommittedWhole
<1>6. SettledOnce
  <2>1. Settled = {}
    BY <1>1, <1>4 DEF Settled
  <2> QED
    BY <1>1, <2>1, FS_EmptySet DEF SettledOnce
<1>7. Histories /\ OutcomesFold
  <2>1. Elements(<<>>) = {} /\ Len(<<>>) = 0 /\ Cardinality({}) = 0
    BY FS_EmptySet DEF Elements
  <2>2. ~Repeats(<<>>) /\ <<>> \in Seq(Elements(<<>>))
    BY <2>1 DEF Repeats
  <2> QED
    BY <1>1, <2>1, <2>2 DEF Histories, OutcomesFold, FoldsClaims
<1> QED
  BY <1>1, <1>3, <1>4, <1>5, <1>6, <1>7 DEF IInv

LEMMA StepKeeps == IInv /\ [Next]_vars => IInv'
<1> SUFFICES ASSUME IInv, [Next]_vars PROVE IInv'
  OBVIOUS
<1>1. CASE UNCHANGED vars
  <2>1. UNCHANGED db /\ UNCHANGED work
    BY <1>1 DEF vars
  <2>2. /\ StoreShape' /\ UniqueRecords' /\ UniqueOwners' /\ ReceiptsOwn'
        /\ CommittedWhole' /\ Histories' /\ OutcomesFold' /\ Grows
        /\ IsFiniteSet(db'.revisions)
    BY <2>1, StoreSame
  <2>3. \A h \in Hosts : HostInv(h)'
    BY <2>1, <2>2, OthersKept DEF IInv
  <2>4. Settled' = Settled
    BY <2>1 DEF Settled, Tally, RevisionClaim, Loop, Page
  <2>5. SettledOnce' /\ WorkShape'
    BY <2>1, <2>2, <2>4, SettledKept DEF IInv, WorkShape
  <2> QED
    BY <2>2, <2>3, <2>5 DEF IInv
<1>2. ASSUME NEW h \in Hosts, StartIngest(h) \/ HostStep(h) \/ FailRecord(h) \/ Crash(h)
      PROVE  IInv'
  BY <1>2, StartKeeps, FailKeeps, CrashKeeps, OpenKeeps, RevisionKeeps, ConfirmKeeps,
     EpisodeKeeps, ObservationKeeps, MeasurementKeeps, CreateKeeps, IdentityKeeps,
     ConfirmIdentityKeeps, CheckKeeps, FindingKeeps, CommitKeeps, ResolveKeeps,
     PersistOutcomeKeeps, NextPageKeeps, ImportKeeps DEF HostStep
<1> QED
  BY <1>1, <1>2 DEF Next

(* The strengthened invariant holds in every reachable state.              *)
THEOREM Inductive == Spec => []IInv
BY InitHolds, StepKeeps, PTL DEF Spec

(* A receipt is the last of its page, lists what is stored, and can be     *)
(* read back: whatever crashes, faults and rivals there are.               *)
THEOREM Whole == Spec => []CommittedWhole
<1>1. IInv => CommittedWhole
  BY DEF IInv
<1> QED
  BY <1>1, Inductive, PTL

(* One owner claim stands for a derivative, so that two receipts that list *)
(* it are of one page under one configuration.                             *)
THEOREM OnePage == Spec => []OnePageCommits
<1>1. IInv => OnePageCommits
  <2> SUFFICES ASSUME IInv, NEW p \in db.receipts, NEW q \in db.receipts,
                      NEW r \in p.derivatives, r \in q.derivatives
               PROVE  OwnerFromReceipt(p) = OwnerFromReceipt(q)
    BY DEF OnePageCommits
  <2> DEFINE a == OwnerFromReceipt(p)
             b == OwnerFromReceipt(q)
  <2>1. OwnerClaim(r, a) \in db.owners /\ OwnerClaim(r, b) \in db.owners
    BY DEF IInv, ReceiptsOwn
  <2> HIDE DEF a, b
  <2>2. /\ OwnerClaim(r, a).derivative = r /\ OwnerClaim(r, a).owner = a
        /\ OwnerClaim(r, b).derivative = r /\ OwnerClaim(r, b).owner = b
    BY DEF OwnerClaim
  <2>3. a = b
    BY <2>1, <2>2 DEF IInv, UniqueOwners
  <2> QED
    BY <2>3 DEF a, b
<1> QED
  BY <1>1, Inductive, PTL

(* Only a revision that stood alone when it was read is accepted under, so *)
(* that a page commits derivatives of one.                                 *)
THEOREM OneRevision == Spec => []OneRevisionCommits
<1>1. IInv => OneRevisionCommits
  <2> SUFFICES ASSUME IInv, NEW p \in db.receipts, NEW q \in db.receipts,
                      PageOf(p) = PageOf(q), p.derivatives # {}, q.derivatives # {}
               PROVE  p.revision = q.revision
    BY DEF OneRevisionCommits
  <2>1. ReceiptRevision(p) \in Settled /\ ReceiptRevision(q) \in Settled
    BY DEF Settled
  <2>2. PageOf(ReceiptRevision(p)) = PageOf(ReceiptRevision(q))
    BY DEF PageOf, ReceiptRevision
  <2>3. ReceiptRevision(p) = ReceiptRevision(q)
    BY <2>1, <2>2 DEF IInv, SettledOnce
  <2> QED
    BY <2>3 DEF ReceiptRevision
<1> QED
  BY <1>1, Inductive, PTL

(* A history repeats no attempt, and its claims own what they measured.    *)
THEOREM Folds == Spec => []OutcomesFold
<1>1. IInv => OutcomesFold
  BY DEF IInv
<1> QED
  BY <1>1, Inductive, PTL

-------------------------------------------------------------------------------
(***************************************************************************)
(* The two resolvers.  They are functions of one view, so what they agree  *)
(* on is shown of any view; the store's part is that an id names one       *)
(* record and that citations are sequences (Citing).                       *)
(***************************************************************************)

(* A view and a window the resolvers may be compared on.                   *)
Comparable(view, window) ==
  /\ window \in Seq(Elements(window))
  /\ \A input \in Elements(window) : input.kind \in {"observation", "measurement"}
  /\ \A r, s \in view.records : r.kind = s.kind /\ r.id = s.id => r = s
  /\ \A r \in view.records :
       r.kind = "measurement" => r.cites \in Seq(Elements(r.cites))
  /\ WindowClosed(view, window) /\ Unambiguous(view, window)

LEMMA WorseFacts ==
  ASSUME NEW S
  PROVE  /\ WorseOf(S) \in {"invalid", "incomplete", "ready"}
         /\ WorseOf(S) = "invalid" <=> "invalid" \in S
         /\ WorseOf(S) = "incomplete" <=> "incomplete" \in S /\ "invalid" \notin S
BY DEF WorseOf, Health

(* A receipt's finding is missing, or is about another page.               *)
Stray(view, R) ==
  \E p \in R : \E f \in p.findings : f \notin view.findings \/ PageOf(f) # PageOf(p)

(* The findings that count.                                                *)
Weighed(view, R) ==
  {f \in view.findings : \E p \in R : f \in p.findings \/ PageOf(f) = PageOf(p)}

(* Both folds of the pages' health come to this.                           *)
Folded(view, R) ==
  WorseOf({Health(Stray(view, R), FALSE), ReceiptGrade(R), Grade(Weighed(view, R))})

LEMMA CandidateFolds ==
  ASSUME NEW view, NEW R
  PROVE  FoldReceiptHealth(view, R) = Folded(view, R)
<1> DEFINE listed == UNION {p.findings : p \in R}
           stray == \/ listed \ view.findings # {}
                    \/ \E p \in R : \E f \in p.findings : PageOf(f) # PageOf(p)
           pages == {PageOf(p) : p \in R}
           current == {f \in view.findings : PageOf(f) \in pages}
           counted == (listed \cap view.findings) \cup current
<1>1. FoldReceiptHealth(view, R)
        = WorseOf({Health(stray, FALSE), ReceiptGrade(R), Grade(counted)})
  BY DEF FoldReceiptHealth
<1>2. Health(stray, FALSE) = Health(Stray(view, R), FALSE)
  <2>1. stray <=> Stray(view, R)
    BY DEF Stray
  <2> QED
    BY <2>1 DEF Health
<1>3. counted = Weighed(view, R)
  BY DEF Weighed
<1> HIDE DEF stray, counted
<1> QED
  BY <1>1, <1>2, <1>3 DEF Folded

LEMMA DetectorFolds ==
  ASSUME NEW view, NEW R
  PROVE  FoldDetectorHealth(view, R) = Folded(view, R)
<1> DEFINE requiring(f) == {p \in R : f \in p.findings}
           pages == {PageOf(p) : p \in R}
           foreign(f) == \E p \in requiring(f) : PageOf(f) # PageOf(p)
           kept == {f \in view.findings :
                      ~foreign(f) /\ (requiring(f) # {} \/ PageOf(f) \in pages)}
           missing == \E p \in R : p.findings \ kept # {}
<1>1. FoldDetectorHealth(view, R)
        = WorseOf({Health(missing, FALSE), ReceiptGrade(R), Grade(kept)})
  BY DEF FoldDetectorHealth
<1>2. missing <=> Stray(view, R)
  <2>1. ASSUME Stray(view, R) PROVE missing
    <3>0. PICK p \in R : \E f \in p.findings :
            f \notin view.findings \/ PageOf(f) # PageOf(p)
      BY <2>1 DEF Stray
    <3>1. PICK f \in p.findings : f \notin view.findings \/ PageOf(f) # PageOf(p)
      BY <3>0
    <3>2. f \notin kept
      BY <3>1
    <3> QED
      BY <3>1, <3>2
  <2>2. ASSUME missing PROVE Stray(view, R)
    <3>0. PICK p \in R : p.findings \ kept # {}
      BY <2>2
    <3>1. PICK f \in p.findings : f \notin kept
      BY <3>0
    <3>2. p \in requiring(f)
      BY <3>1
    <3>3. CASE f \in view.findings
      BY <3>1, <3>2, <3>3 DEF Stray
    <3> QED
      BY <3>1, <3>3 DEF Stray
  <2> QED
    BY <2>1, <2>2
<1>3. ~Stray(view, R) => kept = Weighed(view, R)
  BY DEF Stray, Weighed
<1> HIDE DEF missing, kept
<1>4. CASE Stray(view, R)
  <2>1. "invalid" \in {Health(missing, FALSE), ReceiptGrade(R), Grade(kept)}
    BY <1>2, <1>4 DEF Health
  <2>2. "invalid" \in {Health(Stray(view, R), FALSE), ReceiptGrade(R),
                       Grade(Weighed(view, R))}
    BY <1>4 DEF Health
  <2> QED
    BY <1>1, <2>1, <2>2, WorseFacts DEF Folded
<1>5. CASE ~Stray(view, R)
  <2>1. Health(missing, FALSE) = Health(Stray(view, R), FALSE)
    BY <1>2, <1>5 DEF Health
  <2> QED
    BY <1>1, <1>3, <1>5, <2>1 DEF Folded
<1> QED
  BY <1>4, <1>5

(* More pages are never in better health.                                  *)
LEMMA FoldWorsens ==
  ASSUME NEW view, NEW R, NEW Q, R \subseteq Q
  PROVE  /\ Folded(view, R) = "invalid" => Folded(view, Q) = "invalid"
         /\ Folded(view, R) = "incomplete" => Folded(view, Q) # "ready"
<1>1. /\ Stray(view, R) => Stray(view, Q)
      /\ Weighed(view, R) \subseteq Weighed(view, Q)
  BY DEF Stray, Weighed
<1>2. /\ ReceiptGrade(R) = "invalid" => ReceiptGrade(Q) = "invalid"
      /\ ReceiptGrade(R) = "incomplete" => ReceiptGrade(Q) \in {"invalid", "incomplete"}
  BY DEF ReceiptGrade, Health
<1>3. /\ Grade(Weighed(view, R)) = "invalid" => Grade(Weighed(view, Q)) = "invalid"
      /\ Grade(Weighed(view, R)) = "incomplete"
           => Grade(Weighed(view, Q)) \in {"invalid", "incomplete"}
  BY <1>1 DEF Grade, Health
<1>4. Health(Stray(view, R), FALSE) = "invalid" => Health(Stray(view, Q), FALSE) = "invalid"
  BY <1>1 DEF Health
<1>5. Health(Stray(view, R), FALSE) # "incomplete"
  BY DEF Health
<1> QED
  BY <1>2, <1>3, <1>4, <1>5, WorseFacts DEF Folded

(* A binding is of its record.                                             *)
LEMMA OfItsRecord ==
  ASSUME NEW view, NEW loop, NEW scope, NEW r, NEW b \in Bindings(view, loop, scope, r)
  PROVE  b.record = r
BY DEF Bindings

LEMMA CountUp == ASSUME NEW n \in Nat PROVE Cardinality(1..n) = n
<1>1. 1 \in Int /\ n \in Int
  OBVIOUS
<1>2. Cardinality(1..n) = IF 1 > n THEN 0 ELSE n - 1 + 1
  BY <1>1, FS_Interval
<1> QED
  BY <1>2

(* With a reference for every id, every id is in its place.                *)
LEMMA AllInOrder ==
  ASSUME NEW ids, ids \in Seq(Elements(ids)), NEW refs,
         \A n \in DOMAIN ids : refs[ids[n]] # {}
  PROVE  /\ InOrder(ids, refs) = [k \in 1..Len(ids) |-> Only(refs[ids[k]])]
         /\ Len(InOrder(ids, refs)) = Len(ids)
<1> DEFINE N == Len(ids)
           bound == {n \in DOMAIN ids : refs[ids[n]] # {}}
           place(n) == Cardinality({m \in bound : m <= n})
<1>1. N \in Nat /\ DOMAIN ids = 1..N
  BY LenProperties
<1>2. bound = 1..N
  BY <1>1
<1> HIDE DEF N
<1>3. Cardinality(bound) = N
  BY <1>1, <1>2, CountUp
<1>4. ASSUME NEW n \in 1..N PROVE place(n) = n
  <2>1. {m \in bound : m <= n} = 1..n
    BY <1>1, <1>2
  <2>2. n \in Nat
    BY <1>1
  <2>3. Cardinality(1..n) = n
    BY <2>2, CountUp
  <2> QED
    BY <2>1, <2>3
<1> HIDE DEF place
<1>5. ASSUME NEW k \in 1..N PROVE (CHOOSE n \in bound : place(n) = k) = k
  BY <1>2, <1>4
<1>6. InOrder(ids, refs) = [k \in 1..Cardinality(bound) |->
                              Only(refs[ids[CHOOSE n \in bound : place(n) = k]])]
  BY DEF InOrder, place
<1> HIDE DEF bound
<1>7. InOrder(ids, refs) = [k \in 1..N |-> Only(refs[ids[k]])]
  BY <1>3, <1>5, <1>6
<1>8. Len([k \in 1..N |-> Only(refs[ids[k]])]) = N
  BY <1>1
<1> QED
  BY <1>7, <1>8 DEF N

(* An id of the window names one record, for both resolvers.               *)
LEMMA OneLoaded ==
  ASSUME NEW view, NEW window, Comparable(view, window),
         NEW input \in Elements(window)
  PROVE  \E r \in view.records :
           /\ r.kind = input.kind /\ r.id = input.id
           /\ Named(view, input) = {r} /\ Loaded(view, input.id) = {r}
<1>1. PICK r \in view.records : r.kind = input.kind /\ r.id = input.id
  BY DEF Comparable, WindowClosed, Named
<1>2. Named(view, input) = {r}
  BY <1>1 DEF Named, Comparable
<1>3. r \in Loaded(view, input.id)
  BY <1>1 DEF Loaded, IsEpisode, Comparable
<1>4. input.id \in Elements(WindowIds(window))
  BY DEF Elements, WindowIds
<1>5. ASSUME NEW s \in Loaded(view, input.id) PROVE s = r
  <2>1. s.kind = r.kind
    BY <1>3, <1>4 DEF Comparable, Unambiguous
  <2> QED
    BY <1>1, <2>1 DEF Loaded, Comparable
<1> QED
  BY <1>1, <1>2, <1>3, <1>5

(* Distinct ids of a window are no more than the window lists.             *)
LEMMA NoMore ==
  ASSUME NEW window, window \in Seq(Elements(window)),
         NEW cites, cites \in Seq(Elements(cites)), ~Repeats(cites),
         \A c \in Elements(cites) : Disclosed(window, c) # {}
  PROVE  Len(cites) <= Len(window)
<1> DEFINE n == Len(window)
           I == {window[k].id : k \in 1..n}
           f == [k \in 1..n |-> window[k].id]
           C == Elements(cites)
<1>1. n \in Nat /\ DOMAIN window = 1..n /\ Len(cites) \in Nat
  BY LenProperties
<1>2. f \in Surjection(1..n, I)
  BY DEF Surjection
<1>3. IsFiniteSet(1..n) /\ Cardinality(1..n) = n
  BY <1>1, CountUp, FS_Interval
<1>4. IsFiniteSet(I) /\ Cardinality(I) <= n
  BY <1>2, <1>3, FS_Surjection
<1>5. C \in SUBSET I
  <2>1. ASSUME NEW c \in C PROVE c \in I
    <3>1. PICK input \in Elements(window) : input.id = c
      BY <2>1 DEF Disclosed
    <3>2. PICK k \in 1..n : input = window[k]
      BY <1>1 DEF Elements
    <3> QED
      BY <3>1, <3>2
  <2> QED
    BY <2>1
<1>6. IsFiniteSet(C) /\ Cardinality(C) <= Cardinality(I)
  BY <1>4, <1>5, FS_Subset
<1>7. Cardinality(C) \in Nat /\ Cardinality(I) \in Nat
  BY <1>4, <1>6, FS_CardinalityType
<1>8. Len(cites) <= Cardinality(C)
  BY <1>1, <1>7 DEF Repeats
<1> QED
  BY <1>1, <1>4, <1>6, <1>7, <1>8

(***************************************************************************)
(* Window and candidate resolution of one window that both paths take.     *)
(* Its citations are within every ceiling, for they are ids of it (<1>9).  *)
(* The same records are bound (<1>5, <1>6), and a measurement's citations,  *)
(* being observations of the window, resolve alone as they do in it        *)
(* (<1>10).  They are at fault only if an observation of the window is     *)
(* (<1>13, <1>19), so that the statuses agree (<1>29); and unless they     *)
(* are, both qualify the same measurements (<1>15).                        *)
(***************************************************************************)
LEMMA Agreement ==
  ASSUME NEW view, NEW loop, NEW scope, NEW window, Comparable(view, window),
         Len(window) <= MaxEvidenceIds
  PROVE  LET c == ResolveEvidence(view, loop, scope, WindowIds(window), TRUE)
             d == ResolveDetectorEvidence(view, loop, scope, window)
         IN  c.status = d.status /\ (c.status # "invalid" => c.refs = d.refs)
<1> DEFINE ids == WindowIds(window)
           cands(id) == UNION {Bindings(view, loop, scope, r) :
                                 r \in {r \in Loaded(view, id) :
                                          Sole(Loaded(view, id))}}
           call == UNION {cands(id) : id \in Elements(ids)}
           measured == {b \in call : b.record.kind = "measurement"}
           support(b) == ResolveObservations(view, loop, scope, b.record.cites)
           reference(b) == Reference(b, IF b \in measured THEN support(b).refs
                                                          ELSE <<>>)
           qualified(b) ==
             b \in measured =>
               /\ support(b).status # "invalid"
               /\ Len(support(b).refs) = Len(b.record.cites)
               /\ OwnSupports(b, support(b).refs)
               /\ TRUE => LatestLists(view, reference(b))
           refs == [id \in Elements(ids) |->
                      {reference(b) : b \in {b \in cands(id) : qualified(b)}}]
           bound(input) == UNION {Bindings(view, loop, scope, r) :
                                    r \in Named(view, input)}
           all == UNION {bound(input) : input \in Elements(window)}
           observed(id) == {Reference(b, <<>>) :
                              b \in UNION {bound(input) :
                                             input \in Disclosed(window, id)}}
           measurement(b) ==
             Reference(b, InOrder(b.record.cites,
                                  [c \in Elements(b.record.cites) |-> observed(c)]))
           supported(b) ==
             /\ \A c \in Elements(b.record.cites) : observed(c) # {}
             /\ OwnSupports(b, measurement(b).supports)
           oversized(b) ==
             /\ b.record.kind = "measurement" /\ supported(b)
             /\ Len(b.record.cites) > MaxSupports
           detected(b) == supported(b) /\ LatestLists(view, measurement(b))
           found == [input \in Elements(window) |->
                       IF input.kind = "observation" THEN observed(input.id)
                       ELSE {measurement(b) : b \in {b \in bound(input) : detected(b)}}]
           cstatus == WorseOf({Health(\E id \in Elements(ids) : refs[id] = {},
                                      \E b \in call : Partial(b)),
                               FoldReceiptHealth(view, PagesOf(call))}
                              \cup {support(b).status : b \in measured})
           dstatus == WorseOf({Health(\E input \in Elements(window) : found[input] = {},
                                      \E b \in all : Partial(b)),
                               FoldDetectorHealth(view, PagesOf(all))})
<1>1. /\ window # <<>> /\ ~Repeats(ids) /\ window \in Seq(Elements(window))
      /\ \A input \in Elements(window) :
           /\ input.kind \in {"observation", "measurement"}
           /\ input.id \in Elements(ids)
      /\ \A id \in Elements(ids) : \E input \in Elements(window) : input.id = id
  BY DEF Comparable, WindowClosed, WindowIds, Elements
<1>2. /\ DOMAIN ids = DOMAIN window /\ Exact(ids)
      /\ \A n \in DOMAIN window : ids[n] = window[n].id
  <2>1. /\ ids # <<>> /\ DOMAIN ids = DOMAIN window
        /\ \A n \in DOMAIN window : ids[n] = window[n].id
    BY <1>1 DEF WindowIds
  <2>2. Len(ids) = Len(window)
    BY <1>1, LenProperties DEF WindowIds
  <2> QED
    BY <1>1, <2>1, <2>2 DEF Exact
<1>3. ResolveEvidence(view, loop, scope, ids, TRUE)
        = [status |-> cstatus, refs |-> InOrder(ids, refs)]
  BY <1>1, <1>2 DEF ResolveEvidence
<1>4. ResolveDetectorEvidence(view, loop, scope, window)
         = IF \E b \in all : oversized(b)
           THEN [status |-> "throws", refs |-> <<>>]
           ELSE [status |-> dstatus, refs |-> InOrder(window, found)]
  BY DEF ResolveDetectorEvidence, Comparable
<1> HIDE DEF ids
<1>5. ASSUME NEW input \in Elements(window)
      PROVE  /\ cands(input.id) = bound(input)
             /\ \A b \in bound(input) : b.record \in Named(view, input)
  <2>1. PICK r \in view.records :
          Named(view, input) = {r} /\ Loaded(view, input.id) = {r}
    BY OneLoaded
  <2>2. Sole({r})
    BY FS_Singleton DEF Sole
  <2>3. {s \in Loaded(view, input.id) : Sole(Loaded(view, input.id))} = {r}
    BY <2>1, <2>2
  <2>4. cands(input.id) = bound(input)
    BY <2>1, <2>3
  <2>5. \A b \in bound(input) : b.record = r
    BY <2>1, OfItsRecord
  <2> QED
    BY <2>1, <2>4, <2>5
<1>6. call = all
  BY <1>1, <1>5
<1>7. ASSUME NEW b \in all
      PROVE  \E input \in Elements(window) :
               /\ b \in bound(input) /\ b.record \in view.records
               /\ b.record.kind = input.kind /\ b.record.id = input.id
               /\ b.record \in Named(view, input)
  BY <1>5 DEF Named
<1>8. ASSUME NEW c, Disclosed(window, c) # {}
      PROVE  /\ cands(c) \subseteq all
             /\ observed(c) = {Reference(b, <<>>) :
                                 b \in {b \in cands(c) : b.record.kind = "observation"}}
             /\ \E input \in Elements(window) :
                  input.kind = "observation" /\ input.id = c
  <2>1. \A input \in Disclosed(window, c) :
          /\ input \in Elements(window) /\ input.kind = "observation" /\ input.id = c
          /\ bound(input) = cands(c)
    BY <1>5 DEF Disclosed
  <2>2. UNION {bound(input) : input \in Disclosed(window, c)} = cands(c)
    BY <1>8, <2>1
  <2>3. \A b \in cands(c) : b.record.kind = "observation"
    BY <1>5, <1>8, <2>1 DEF Named
  <2>4. {b \in cands(c) : b.record.kind = "observation"} = cands(c)
    BY <2>3
  <2>5. cands(c) \subseteq all
    BY <1>8, <2>1
  <2> HIDE DEF cands, bound, all
  <2> QED
    BY <1>8, <2>1, <2>2, <2>4, <2>5
<1>9. ASSUME NEW b \in all, b.record.kind = "measurement"
      PROVE  /\ b.record.cites \in Seq(Elements(b.record.cites))
             /\ \A c \in Elements(b.record.cites) : Disclosed(window, c) # {}
             /\ Exact(b.record.cites) /\ ~(Len(b.record.cites) > MaxSupports)
  <2> DEFINE own == b.record.cites
  <2>1. /\ own \in Seq(Elements(own)) /\ own # <<>> /\ ~Repeats(own)
        /\ \A c \in Elements(own) : Disclosed(window, c) # {}
    BY <1>7, <1>9 DEF Comparable, WindowClosed
  <2>2. Len(own) \in Nat /\ Len(window) \in Nat
    BY <1>1, <2>1, LenProperties
  <2> HIDE DEF own
  <2>3. Len(own) <= Len(window)
    BY <1>1, <2>1, NoMore
  <2>4. Len(own) <= MaxEvidenceIds /\ ~(Len(own) > MaxSupports)
    BY <2>2, <2>3, CeilingAssumption
  <2> QED
    BY <2>1, <2>4 DEF own, Exact
<1> DEFINE cites(b) == b.record.cites
           cited(b) == UNION {cands(c) : c \in Elements(cites(b))}
           sources(b) == [c \in Elements(cites(b)) |-> observed(c)]
           bare(b) == \E c \in Elements(cites(b)) : observed(c) = {}
           unsure(b) == \E x \in cited(b) : Partial(x)
<1>10. ASSUME NEW b \in all, b.record.kind = "measurement"
       PROVE  /\ support(b).refs = InOrder(cites(b), sources(b))
              /\ support(b).status
                   = WorseOf({Health(bare(b), unsure(b)),
                              Folded(view, PagesOf(cited(b)))})
              /\ cited(b) \subseteq all
  <2> DEFINE own == [c \in Elements(cites(b)) |->
                       {Reference(x, <<>>) :
                          x \in {x \in cands(c) : x.record.kind = "observation"}}]
  <2>1. support(b)
          = [status |-> WorseOf({Health(\E c \in Elements(cites(b)) : own[c] = {},
                                        unsure(b)),
                                 FoldReceiptHealth(view, PagesOf(cited(b)))}),
             refs |-> InOrder(cites(b), own)]
    BY <1>9, <1>10 DEF ResolveObservations
  <2> HIDE DEF cands, observed, all, support
  <2>2. \A c \in Elements(cites(b)) : Disclosed(window, c) # {}
    BY <1>9, <1>10
  <2>3. own = sources(b)
    BY <1>8, <2>2
  <2>4. cited(b) \subseteq all
    BY <1>8, <2>2
  <2>5. Health(\E c \in Elements(cites(b)) : own[c] = {}, unsure(b))
          = Health(bare(b), unsure(b))
    BY <2>3
  <2>6. /\ support(b).status
             = WorseOf({Health(\E c \in Elements(cites(b)) : own[c] = {}, unsure(b)),
                        FoldReceiptHealth(view, PagesOf(cited(b)))})
        /\ support(b).refs = InOrder(cites(b), own)
    BY <2>1
  <2>7. FoldReceiptHealth(view, PagesOf(cited(b))) = Folded(view, PagesOf(cited(b)))
    BY CandidateFolds
  <2> QED
    BY <2>3, <2>4, <2>5, <2>6, <2>7
<1>11. FoldReceiptHealth(view, PagesOf(call)) = Folded(view, PagesOf(all))
       /\ FoldDetectorHealth(view, PagesOf(all)) = Folded(view, PagesOf(all))
  BY <1>6, CandidateFolds, DetectorFolds
<1>12. measured = {b \in all : b.record.kind = "measurement"}
  BY <1>6
<1> HIDE DEF cands, call, measured, support, bound, all, observed
<1> DEFINE worst == Folded(view, PagesOf(all))
<1>13. ASSUME NEW b \in measured
       PROVE  /\ bare(b) => support(b).status = "invalid"
              /\ support(b).status = "invalid" => bare(b) \/ worst = "invalid"
              /\ support(b).status = "incomplete"
                   => worst # "ready" \/ \E x \in all : Partial(x)
  <2> DEFINE R == PagesOf(cited(b))
             Q == PagesOf(all)
  <2>1. b \in all /\ b.record.kind = "measurement"
    BY <1>12
  <2>2. support(b).status = WorseOf({Health(bare(b), unsure(b)), Folded(view, R)})
        /\ cited(b) \subseteq all
    BY <1>10, <2>1
  <2>3. R \subseteq Q
    BY <2>2 DEF PagesOf
  <2>4. unsure(b) => \E x \in all : Partial(x)
    BY <2>2
  <2> HIDE DEF R, Q, unsure, bare
  <2>5. /\ Folded(view, R) = "invalid" => Folded(view, Q) = "invalid"
        /\ Folded(view, R) = "incomplete" => Folded(view, Q) # "ready"
    BY <2>3, FoldWorsens
  <2>6. /\ bare(b) => Health(bare(b), unsure(b)) = "invalid"
        /\ Health(bare(b), unsure(b)) = "invalid" => bare(b)
        /\ Health(bare(b), unsure(b)) = "incomplete" => unsure(b)
    BY DEF Health
  <2> DEFINE own == Health(bare(b), unsure(b))
             folded == Folded(view, R)
  <2> HIDE DEF own, folded
  <2>7. support(b).status = WorseOf({own, folded})
    BY <2>2 DEF own, folded
  <2>8. /\ WorseOf({own, folded}) = "invalid" <=> own = "invalid" \/ folded = "invalid"
        /\ WorseOf({own, folded}) = "incomplete" => own = "incomplete" \/ folded = "incomplete"
    BY WorseFacts
  <2> QED
    BY <2>4, <2>5, <2>6, <2>7, <2>8 DEF own, folded, Q
<1>14. ASSUME NEW b \in measured
       PROVE  /\ reference(b) = measurement(b)
              /\ ~bare(b) => Len(support(b).refs) = Len(cites(b))
              /\ measurement(b).supports = support(b).refs
  <2>1. b \in all /\ b.record.kind = "measurement"
    BY <1>12
  <2>2. support(b).refs = InOrder(cites(b), sources(b)) /\ cites(b) \in Seq(Elements(cites(b)))
    BY <1>9, <1>10, <2>1
  <2>3. reference(b) = measurement(b) /\ measurement(b).supports = support(b).refs
    BY <2>2 DEF Reference
  <2>4. ASSUME ~bare(b) PROVE Len(support(b).refs) = Len(cites(b))
    <3>1. \A n \in DOMAIN cites(b) : sources(b)[cites(b)[n]] # {}
      BY <2>4 DEF Elements
    <3> HIDE DEF cites, sources
    <3> QED
      BY <2>2, <3>1, AllInOrder
  <2> QED
    BY <2>3, <2>4
<1>15. ASSUME NEW b \in measured, support(b).status # "invalid"
       PROVE  qualified(b) <=> detected(b)
  <2>1. ~bare(b)
    BY <1>13, <1>15
  <2> QED
    BY <1>14, <1>15, <2>1
<1>16. ASSUME NEW b \in all, b \notin measured
       PROVE  reference(b) = Reference(b, <<>>) /\ qualified(b)
  BY <1>16
<1>17. ASSUME NEW input \in Elements(window)
       PROVE  /\ cands(input.id) = bound(input) /\ bound(input) \subseteq all
              /\ input.kind = "observation" =>
                   /\ \A b \in bound(input) : b \notin measured
                   /\ observed(input.id) = {Reference(b, <<>>) : b \in bound(input)}
              /\ input.kind = "measurement" => bound(input) \subseteq measured
  <2>1. cands(input.id) = bound(input) /\ bound(input) \subseteq all
    BY <1>5 DEF all
  <2>2. \A b \in bound(input) : b.record.kind = input.kind
    BY <1>5 DEF Named
  <2>3. input.kind = "observation" => Disclosed(window, input.id) # {}
    BY DEF Disclosed
  <2>4. input.kind = "observation" =>
          observed(input.id)
            = {Reference(b, <<>>) : b \in {b \in bound(input) : b.record.kind = "observation"}}
    BY <1>8, <2>1, <2>3
  <2>5. input.kind = "observation" =>
          {b \in bound(input) : b.record.kind = "observation"} = bound(input)
    BY <2>2
  <2> QED
    BY <1>12, <2>1, <2>2, <2>4, <2>5
<1> DEFINE sound == \A b \in measured : support(b).status # "invalid"
<1>18. ASSUME sound, NEW input \in Elements(window)
       PROVE  refs[input.id] = found[input]
  <2>1. refs[input.id] = {reference(b) : b \in {b \in bound(input) : qualified(b)}}
    BY <1>1, <1>17
  <2> HIDE DEF refs
  <2>2. CASE input.kind = "observation"
    <3>1. found[input] = {Reference(b, <<>>) : b \in bound(input)}
      BY <1>17, <2>2
    <3>2. \A b \in bound(input) : reference(b) = Reference(b, <<>>) /\ qualified(b)
      BY <1>16, <1>17, <2>2
    <3> HIDE DEF found, reference, qualified
    <3> QED
      BY <2>1, <3>1, <3>2
  <2>3. CASE input.kind = "measurement"
    <3>1. found[input] = {measurement(b) : b \in {b \in bound(input) : detected(b)}}
      BY <2>3
    <3>2. \A b \in bound(input) :
            reference(b) = measurement(b) /\ (qualified(b) <=> detected(b))
      BY <1>14, <1>15, <1>17, <1>18, <2>3
    <3> HIDE DEF found, reference, qualified, measurement, detected
    <3> QED
      BY <2>1, <3>1, <3>2
  <2> QED
    BY <1>1, <2>2, <2>3
<1>19. ASSUME NEW b \in measured, bare(b)
       PROVE  \E input \in Elements(window) : found[input] = {}
  <2>1. PICK c \in Elements(cites(b)) : observed(c) = {}
    BY <1>19
  <2>2. Disclosed(window, c) # {}
    BY <1>9, <1>12
  <2>3. PICK input \in Elements(window) : input.kind = "observation" /\ input.id = c
    BY <1>8, <2>2
  <2> QED
    BY <2>1, <2>3
<1> DEFINE lost == \E id \in Elements(ids) : refs[id] = {}
           missed == \E input \in Elements(window) : found[input] = {}
           partial == \E b \in all : Partial(b)
<1>20. sound => (lost <=> missed)
  <2> SUFFICES ASSUME sound PROVE lost <=> missed
    OBVIOUS
  <2>1. \A input \in Elements(window) : refs[input.id] = found[input]
    BY <1>18
  <2> HIDE DEF refs, found
  <2> QED
    BY <1>1, <2>1
<1>21. /\ cstatus = WorseOf({Health(lost, partial), worst}
                            \cup {support(b).status : b \in measured})
       /\ dstatus = WorseOf({Health(missed, partial), worst})
  BY <1>6, <1>11
<1> HIDE DEF cstatus, dstatus, refs, found, worst, bare
<1>22. \A b \in measured : support(b).status = "invalid" => missed \/ worst = "invalid"
  BY <1>13, <1>19
<1> HIDE DEF lost, missed, partial
<1> DEFINE cown == Health(lost, partial)
           down == Health(missed, partial)
<1>23. /\ cown = "invalid" <=> lost
       /\ cown = "incomplete" <=> ~lost /\ partial
       /\ down = "invalid" <=> missed
       /\ down = "incomplete" <=> ~missed /\ partial
  BY DEF Health
<1> HIDE DEF cown, down
<1>24. /\ cstatus \in {"invalid", "incomplete", "ready"}
       /\ cstatus = "invalid" <=> cown = "invalid" \/ worst = "invalid" \/ ~sound
       /\ cstatus = "incomplete" <=>
            /\ cstatus # "invalid"
            /\ \/ cown = "incomplete" \/ worst = "incomplete"
               \/ \E b \in measured : support(b).status = "incomplete"
  BY <1>21, WorseFacts DEF cown
<1>25. /\ dstatus \in {"invalid", "incomplete", "ready"}
       /\ dstatus = "invalid" <=> down = "invalid" \/ worst = "invalid"
       /\ dstatus = "incomplete" <=>
            dstatus # "invalid" /\ (down = "incomplete" \/ worst = "incomplete")
  BY <1>21, WorseFacts DEF down
<1>26. worst \in {"invalid", "incomplete", "ready"}
  BY WorseFacts DEF worst, Folded
<1>27. (\E b \in measured : support(b).status = "incomplete")
         => worst # "ready" \/ partial
  BY <1>13 DEF partial
<1>28. ~sound => missed \/ worst = "invalid"
  BY <1>22
<1>29. cstatus = dstatus
  BY <1>20, <1>23, <1>24, <1>25, <1>26, <1>27, <1>28
<1>30. ASSUME cstatus # "invalid" PROVE InOrder(ids, refs) = InOrder(window, found)
  <2>1. sound /\ ~lost /\ ~missed
    BY <1>20, <1>23, <1>24, <1>30
  <2>2. \A n \in DOMAIN window :
          /\ window[n] \in Elements(window) /\ ids[n] \in Elements(ids)
          /\ refs[ids[n]] # {} /\ refs[ids[n]] = found[window[n]]
    BY <1>1, <1>2, <1>18, <2>1 DEF Elements, lost
  <2>3. ids \in Seq(Elements(ids)) /\ Len(ids) = Len(window)
    BY <1>1, <1>2, LenProperties DEF ids, WindowIds, Elements
  <2>4. InOrder(ids, refs) = [k \in 1..Len(ids) |-> Only(refs[ids[k]])]
    BY <1>2, <2>2, <2>3, AllInOrder
  <2>5. InOrder(window, found) = [k \in 1..Len(window) |-> Only(found[window[k]])]
    <3>1. \A n \in DOMAIN window : found[window[n]] # {}
      BY <2>2
    <3>2. window \in Seq(Elements(window))
      BY <1>1
    <3> QED
      BY <3>1, <3>2, AllInOrder
  <2>6. DOMAIN window = 1..Len(window)
    BY <1>1, LenProperties
  <2> QED
    BY <2>2, <2>3, <2>4, <2>5, <2>6
<1> DEFINE c == ResolveEvidence(view, loop, scope, ids, TRUE)
           d == ResolveDetectorEvidence(view, loop, scope, window)
<1>31. /\ c.status = cstatus /\ c.refs = InOrder(ids, refs)
       /\ d.status = dstatus /\ d.refs = InOrder(window, found)
  <2> DEFINE crefs == InOrder(ids, refs)
             drefs == InOrder(window, found)
  <2>1. c = [status |-> cstatus, refs |-> crefs]
    BY <1>3
  <2>2. d = [status |-> dstatus, refs |-> drefs]
    <3>1. \A b \in all : ~oversized(b)
      BY <1>9
    <3> HIDE DEF oversized
    <3> QED
      BY <1>4, <3>1
  <2> HIDE DEF c, d, crefs, drefs
  <2>3. c.status = cstatus /\ c.refs = crefs
    BY <2>1
  <2>4. d.status = dstatus /\ d.refs = drefs
    BY <2>2
  <2> QED
    BY <2>3, <2>4 DEF crefs, drefs
<1> HIDE DEF c, d
<1>32. c.status = d.status /\ (c.status # "invalid" => c.refs = d.refs)
  BY <1>29, <1>30, <1>31
<1> QED
  BY <1>32 DEF c, d, ids

(* What is measured cites a sequence, in the store and in work.            *)
Citing(r) == r.kind = "measurement" => r.cites \in Seq(Elements(r.cites))

CitingInv ==
  /\ \A r \in db.records : Citing(r)
  /\ \A h \in Hosts : work[h].pc \in Taken => Citing(Tally(h).now)

OthersStay(h) == \A g \in Hosts \ {h} : work'[g] = work[g]

(* What a step of h brings to the store or takes in work is Citing.        *)
Cites(h) ==
  /\ OthersStay(h)
  /\ \A r \in db'.records : r \in db.records \/ Citing(r)
  /\ work'[h].pc \in Taken => Citing(work'[h].page.now)

LEMMA Moves ==
  ASSUME WorkShape, NEW h \in Hosts, NEW pc, NEW t, Put(h, pc, t)
  PROVE  OthersStay(h) /\ work'[h].pc = pc /\ work'[h].page = t
<1>1. work' = [g \in Hosts |-> IF g = h THEN [work[h] EXCEPT !.pc = pc, !.page = t]
                               ELSE work[g]]
  BY DEF Put, WorkShape
<1>2. CallShape(work[h])
  BY DEF WorkShape
<1> QED
  BY <1>1, <1>2 DEF CallShape, CallFields, OthersStay

(* A step to a counter that has nothing in work.                           *)
LEMMA Lays ==
  ASSUME WorkShape, NEW h \in Hosts, NEW pc, NEW t, Put(h, pc, t), pc \notin Taken,
         db'.records = db.records
  PROVE  Cites(h)
BY Moves DEF Cites

LEMMA RefuseLays ==
  ASSUME WorkShape, NEW h \in Hosts, db'.records = db.records,
         \/ \E t : NextRecord(h, t)
         \/ \E code : Refuse(h, code)
         \/ \E pending : Accept(h, pending)
         \/ RefuseContent(h)
  PROVE  Cites(h)
<1>1. "records" \notin Taken
  BY DEF Taken
<1>2. \E t : NextRecord(h, t)
  BY DEF Refuse, Accept, RefuseContent
<1>3. \E t : Put(h, "records", t)
  BY <1>2 DEF NextRecord
<1> QED
  BY <1>1, <1>3, Lays

LEMMA ClaimCites ==
  ASSUME IInv, NEW h \in Hosts, NEW r, Citing(r), ClaimDerivativePage(h, r)
  PROVE  Cites(h)
<1>1. PICK X : db' = db \/ db' = [db EXCEPT !.owners = X]
  BY DEF ClaimDerivativePage
<1>2. db'.records = db.records
  BY <1>1, WriteOwners DEF IInv
<1>3. CASE \E code : Refuse(h, code)
  BY <1>2, <1>3, RefuseLays DEF IInv
<1>4. CASE \E o : Put(h, "create", [Tally(h) EXCEPT !.now = r, !.owned = o])
  <2>1. PICK o : Put(h, "create", [Tally(h) EXCEPT !.now = r, !.owned = o])
    BY <1>4
  <2>2. work'[h].page = [Tally(h) EXCEPT !.now = r, !.owned = o] /\ OthersStay(h)
    BY <2>1, Moves DEF IInv
  <2>3. TallyShape(Tally(h))
    BY DEF IInv, WorkShape, Tally
  <2>4. work'[h].page.now = r
    BY <2>2, <2>3 DEF TallyShape, TallyFields
  <2> QED
    BY <1>2, <2>2, <2>4 DEF Cites
<1> QED
  BY <1>3, <1>4 DEF ClaimDerivativePage

LEMMA StepCites ==
  ASSUME IInv, CitingInv, NEW h \in Hosts,
         StartIngest(h) \/ HostStep(h) \/ FailRecord(h) \/ Crash(h)
  PROVE  Cites(h)
<1>1. WorkShape /\ StoreShape /\ CallShape(work[h]) /\ TallyShape(Tally(h))
  BY DEF IInv, WorkShape, Tally
<1>2. /\ "records" \notin Taken /\ "revision" \notin Taken /\ "confirm" \notin Taken
      /\ "findings" \notin Taken /\ "outcomes" \notin Taken /\ "claim" \notin Taken
      /\ "open" \notin Taken /\ "idle" \notin Taken
  BY DEF Taken
<1>3. ASSUME NEW w, work' = [work EXCEPT ![h] = w], w.pc \notin Taken,
             db'.records = db.records
      PROVE  Cites(h)
  BY <1>1, <1>3 DEF WorkShape, Cites, OthersStay
<1>4. CASE StartIngest(h)
  <2>1. PICK input \in Inputs :
          work' = [work EXCEPT ![h] = [Idle EXCEPT !.pc = "open", !.input = input]]
    BY <1>4 DEF StartIngest
  <2>2. [Idle EXCEPT !.pc = "open", !.input = input].pc = "open"
    BY DEF Idle
  <2> QED
    BY <1>2, <1>3, <1>4, <2>1, <2>2 DEF StartIngest
<1>5. Idle.pc \notin Taken
  BY <1>2 DEF Idle
<1>6. CASE Crash(h)
  BY <1>3, <1>5, <1>6 DEF Crash
<1>7. CASE FailRecord(h)
  BY <1>1, <1>7, RefuseLays DEF FailRecord
<1>8. CASE OpenPage(h)
  BY <1>1, <1>2, <1>8, Lays DEF OpenPage
<1>9. ASSUME Decide(h), db'.records = db.records PROVE Cites(h)
  BY <1>1, <1>2, <1>9, Lays DEF Decide
<1>10. CASE ClaimRevision(h)
  <2>1. CASE Decide(h) /\ UNCHANGED db
    BY <1>9, <2>1
  <2>2. CASE /\ db' = [db EXCEPT !.revisions = @ \cup {RevisionClaim(h)}]
             /\ Put(h, "confirm", Tally(h))
    BY <1>1, <1>2, <2>2, Lays, WriteRevisions
  <2> QED
    BY <1>10, <2>1, <2>2 DEF ClaimRevision
<1>11. CASE ConfirmRevision(h)
  BY <1>9, <1>11 DEF ConfirmRevision
<1>12. CASE IngestEpisode(h)
  <2>1. Citing(EpisodeRecord(Projection(h)))
    BY DEF Citing, EpisodeRecord
  <2> QED
    BY <1>1, <1>12, <2>1, ClaimCites, RefuseLays DEF IngestEpisode
<1>13. CASE IngestObservation(h)
  <2>1. Citing(Observation(h, Projection(h)))
    BY DEF Citing, Observation
  <2>2. RefuseContent(h) => db'.records = db.records
    BY DEF RefuseContent
  <2> QED
    BY <1>1, <1>13, <2>1, <2>2, ClaimCites, RefuseLays DEF IngestObservation
<1>14. CASE IngestMeasurement(h)
  <2> DEFINE p == Projection(h)
  <2>1. /\ work[h].input \in Inputs /\ work[h].at \in DOMAIN work[h].input
        /\ AtRecord(h) /\ p.kind = "measurement"
    BY <1>14, TakingAt DEF IngestMeasurement, Taking, IInv, HostInv, Placed, Opened,
       Reading, At
  <2>2. Page(h) \in Pages /\ Tally(h).n \in DOMAIN Page(h).records
    BY <2>1, PageTypes DEF AtRecord
  <2>3. p.cites \in Seq(Elements(p.cites))
    <3>1. p \in Elements(Page(h).records)
      BY <2>2 DEF Elements, Projection
    <3> HIDE DEF p
    <3> QED
      BY <2>1, <2>2, <3>1, IngestAssumption
  <2>4. Citing(Measurement(h, p))
    BY <2>3 DEF Citing, Measurement
  <2>5. RefuseContent(h) => db'.records = db.records
    BY DEF RefuseContent
  <2> HIDE DEF p
  <2> QED
    BY <1>1, <1>14, <2>4, <2>5, ClaimCites, RefuseLays DEF IngestMeasurement, p
<1>15. CASE CreateDerivative(h)
  <2> DEFINE r == Tally(h).now
  <2>1. work[h].pc \in Taken /\ Citing(r)
    BY <1>15 DEF CreateDerivative, At, Taken, CitingInv
  <2>2. CASE Refuse(h, "store.conflict") /\ UNCHANGED db
    BY <1>1, <2>2, RefuseLays
  <2>3. CASE db' = [db EXCEPT !.records = @ \cup {r}]
    <3>1. db'.records = db.records \cup {r}
      BY <1>1, <2>3, WriteRecords
    <3>2. CASE Put(h, "identity", Tally(h))
      BY <1>1, <2>1, <3>1, <3>2, Moves DEF Cites
    <3>3. CASE Accept(h, <<>>)
      <4>1. PICK t : Put(h, "records", t)
        BY <3>3 DEF Accept, NextRecord
      <4> QED
        BY <1>1, <1>2, <2>1, <3>1, <4>1, Moves DEF Cites
    <3> QED
      BY <1>15, <2>2, <3>2, <3>3 DEF CreateDerivative
  <2> QED
    BY <1>15, <2>2, <2>3 DEF CreateDerivative
<1>16. ASSUME Identified(h), db'.records = db.records PROVE Cites(h)
  BY <1>1, <1>16, RefuseLays DEF Identified
<1>17. CASE PersistIdentity(h)
  <2>1. work[h].pc \in Taken
    BY <1>17 DEF PersistIdentity, At, Taken
  <2>2. CASE Identified(h) /\ UNCHANGED db
    BY <1>16, <2>2
  <2>3. CASE /\ db' = [db EXCEPT !.identities = @ \cup {IdentityClaim(h)}]
             /\ Put(h, "identified", Tally(h))
    <3>1. db'.records = db.records
      BY <1>1, <2>3, WriteIdentities
    <3>2. Citing(Tally(h).now)
      BY <2>1 DEF CitingInv
    <3> QED
      BY <1>1, <2>3, <3>1, <3>2, Moves DEF Cites
  <2> QED
    BY <1>17, <2>2, <2>3 DEF PersistIdentity
<1>18. CASE ConfirmIdentity(h)
  BY <1>16, <1>18 DEF ConfirmIdentity
<1>19. CASE CheckOutcomes(h)
  BY <1>1, <1>2, <1>19, Lays DEF CheckOutcomes
<1>20. CASE PersistHealthFinding(h)
  <2>1. UNCHANGED work /\ \E X : db' = [db EXCEPT !.findings = X]
    BY <1>20 DEF PersistHealthFinding
  <2>2. db'.records = db.records
    BY <1>1, <2>1, WriteFindings
  <2> QED
    BY <2>1, <2>2 DEF Cites, OthersStay, CitingInv, Tally
<1>21. CASE CommitPage(h)
  <2>1. db'.records = db.records
    BY <1>1, <1>21, WriteReceipts DEF CommitPage
  <2> DEFINE done == Append(work[h].done, SourcePageReceipt(h))
             w == [work[h] EXCEPT !.pc = "outcomes", !.done = done]
  <2>2. work' = [work EXCEPT ![h] = w]
    BY <1>1, <1>21 DEF CommitPage, WorkShape
  <2> HIDE DEF done
  <2>3. w.pc = "outcomes"
    BY <1>1 DEF CallShape, CallFields
  <2> HIDE DEF w
  <2> QED
    BY <1>2, <1>3, <2>1, <2>2, <2>3
<1>22. CASE ResolveOutcome(h)
  <2>1. CASE work' = [work EXCEPT ![h] = Idle] /\ UNCHANGED db
    BY <1>3, <1>5, <2>1
  <2>2. CASE UNCHANGED db /\ \E t : Put(h, "claim", t)
    BY <1>1, <1>2, <2>2, Lays
  <2> QED
    BY <1>22, <2>1, <2>2 DEF ResolveOutcome
<1>23. CASE PersistOutcomeClaim(h)
  <2>1. db' = db \/ \E X : db' = [db EXCEPT !.outcomes = X]
    BY <1>23 DEF PersistOutcomeClaim
  <2>2. db'.records = db.records
    BY <1>1, <2>1, WriteOutcomes
  <2> QED
    BY <1>1, <1>2, <1>23, <2>2, Lays DEF PersistOutcomeClaim
<1>24. CASE NextPage(h)
  <2> DEFINE w == [work[h] EXCEPT !.pc = "open", !.at = @ + 1, !.page = NoTally]
  <2>1. work' = [work EXCEPT ![h] = w] /\ UNCHANGED db
    BY <1>1, <1>24 DEF NextPage, WorkShape
  <2>2. w.pc = "open"
    BY <1>1 DEF CallShape, CallFields
  <2> HIDE DEF w
  <2> QED
    BY <1>2, <1>3, <2>1, <2>2
<1>25. CASE Import(h)
  <2>1. /\ work' = [work EXCEPT ![h] = Idle]
        /\ \E X : db' = [db EXCEPT !.imports = X]
    BY <1>25 DEF Import
  <2>2. db'.records = db.records
    BY <1>1, <2>1, WriteImports
  <2> QED
    BY <1>3, <1>5, <2>1, <2>2
<1> QED
  BY <1>4, <1>6, <1>7, <1>8, <1>10, <1>11, <1>12, <1>13, <1>14, <1>15, <1>17, <1>18,
     <1>19, <1>20, <1>21, <1>22, <1>23, <1>24, <1>25 DEF HostStep

LEMMA CitingStands == Spec => []CitingInv
<1>1. Init => CitingInv
  BY DEF Init, CitingInv, EmptyStore, Idle, Taken
<1>2. ASSUME IInv, CitingInv, [Next]_vars PROVE CitingInv'
  <2>1. CASE UNCHANGED vars
    BY <1>2, <2>1 DEF vars, CitingInv, Tally
  <2>2. ASSUME NEW h \in Hosts, StartIngest(h) \/ HostStep(h) \/ FailRecord(h) \/ Crash(h)
        PROVE  CitingInv'
    <3>1. Cites(h)
      BY <1>2, <2>2, StepCites
    <3> QED
      BY <1>2, <3>1 DEF Cites, CitingInv, OthersStay, Tally
  <2> QED
    BY <1>2, <2>1, <2>2 DEF Next
<1>3. IInv /\ CitingInv /\ [Next]_vars => CitingInv'
  BY <1>2
<1> QED
  BY <1>1, <1>3, Inductive, PTL DEF Spec

(* Past its own ceiling the candidate path refuses.                        *)
LEMMA CandidateCeiling ==
  ASSUME NEW view, NEW loop, NEW scope, NEW window, window \in Seq(Elements(window)),
         Len(window) > MaxEvidenceIds
  PROVE  ResolveEvidence(view, loop, scope, WindowIds(window), TRUE).status = "invalid"
<1>1. Len(WindowIds(window)) = Len(window)
  BY LenProperties DEF WindowIds
<1>2. ~Exact(WindowIds(window))
  <2> HIDE DEF WindowIds
  <2>1. Len(window) \in Nat
    BY LenProperties
  <2> QED
    BY <1>1, <2>1, CeilingAssumption DEF Exact
<1> QED
  BY <1>2 DEF ResolveEvidence

(* Whatever the store holds, the candidate path and the detector path give *)
(* a window that discloses its citations and is not ambiguous the same     *)
(* status and, unless it is invalid, the same references; except that the  *)
(* candidate path refuses a window past its own, lower ceiling.            *)
THEOREM OneResolution == Spec => []ResolversAgree
<1>1. ASSUME IInv, CitingInv PROVE ResolversAgree
  <2>1. ASSUME NEW window \in Windows, NEW loop \in Loops,
               WindowClosed(View, window), Unambiguous(View, window)
        PROVE  LET c == ResolveEvidence(View, loop, Scope, WindowIds(window), TRUE)
                   d == ResolveDetectorEvidence(View, loop, Scope, window)
               IN  /\ \/ c.status = d.status
                      \/ c.status = "invalid" /\ Len(window) > MaxEvidenceIds
                   /\ c.status # "invalid" => c.refs = d.refs
    <3>1. View.records = db.records
      BY DEF View
    <3>2. Comparable(View, window)
      BY <1>1, <2>1, <3>1, IngestAssumption
         DEF Comparable, IInv, UniqueRecords, CitingInv, Citing
    <3>3. window \in Seq(Elements(window)) /\ Len(window) \in Nat
      BY <3>2, LenProperties DEF Comparable
    <3> DEFINE c == ResolveEvidence(View, loop, Scope, WindowIds(window), TRUE)
               d == ResolveDetectorEvidence(View, loop, Scope, window)
    <3>4. CASE Len(window) <= MaxEvidenceIds
      <4>1. c.status = d.status /\ (c.status # "invalid" => c.refs = d.refs)
        BY <3>2, <3>4, Agreement
      <4> HIDE DEF c, d
      <4> QED
        BY <4>1 DEF c, d
    <3>5. CASE Len(window) > MaxEvidenceIds
      <4>1. c.status = "invalid"
        BY <3>3, <3>5, CandidateCeiling
      <4> HIDE DEF c, d
      <4> QED
        BY <3>5, <4>1 DEF c, d
    <3>6. Len(window) <= MaxEvidenceIds \/ Len(window) > MaxEvidenceIds
      BY <3>3, CeilingAssumption
    <3> QED
      BY <3>4, <3>5, <3>6
  <2> QED
    BY <2>1 DEF ResolversAgree
<1>2. IInv /\ CitingInv => ResolversAgree
  BY <1>1
<1> QED
  BY <1>2, Inductive, CitingStands, PTL

===============================================================================
