------------------------------- MODULE FileStore -------------------------------
(***************************************************************************)
(* The file store (node/file-store.ts, node/locks.ts): one namespace of    *)
(* cells, each a file, written by processes that may stop, be paused past  *)
(* the life of their lock, or crash anywhere; and a listing of it.         *)
(*                                                                         *)
(* A new cell is published by an exclusive link.  A change is a rename     *)
(* under the lock of its key, whose holder verifies that it still owns the *)
(* lock just before; the two are one step here, as locks.ts asks to        *)
(* believe.  Before either, the namespace counters are bumped under a lock *)
(* of their own.                                                           *)
(***************************************************************************)
EXTENDS Cells, FiniteSets

CONSTANTS
  Procs,        \* writing processes
  Keys,         \* keys of the namespace
  OpsOf,        \* by process, the operations it may call
  Limit,        \* page limit of the listing
  MaxCalls,     \* bound: writes called
  MaxMishaps,   \* bound: crashes, and locks of living holders that expire
  MaxListings   \* bound: listings

Meta == "meta"
Dead == "dead"

Ops == UNION {OpsOf[p] : p \in Procs}
Counters == [next : Nat, writes : Nat]
Lock == [owner : Procs \cup {Dead}, stale : BOOLEAN]

ASSUME FileStoreAssumption ==
  /\ Meta \notin Keys /\ Dead \notin Procs /\ IsFiniteSet(Keys)
  /\ None \notin Ops /\ None \notin Counters /\ None \notin Lock
  /\ None \notin Written(Ops) /\ None \notin Results
  /\ Limit \in Nat \ {0}
  /\ \A op \in Ops :
       /\ op.kind \in Kinds /\ op.key \in Keys /\ op.expected \in Nat
       /\ op.entries \in Seq(Elements(op.entries))
       /\ op.kind # "append" => op.entries = <<>>
       /\ op.kind \in {"append", "tombstone"} => op.digest = None

VARIABLES
  files,   \* by key, the published cell and its insertion index
  meta,    \* the namespace counters
  locks,   \* by key and for the counters, the lock file
  proc,    \* by process, its call
  cache,   \* the listing process's catalog
  lister,  \* its listing
  spent    \* how much of each bound is used

vars == <<files, meta, locks, proc, cache, lister, spent>>

Absent == [cell |-> None, index |-> 0]
Idle == [pc |-> "idle", op |-> None, answer |-> None, held |-> None,
         counters |-> None, index |-> 0]
NoListing == [pc |-> "idle", attempt |-> 0, before |-> None, scanned |-> {},
              after |-> 0, listed |-> <<>>, opened |-> None, revision |-> 0]

Init ==
  /\ files = [k \in Keys |-> Absent]
  /\ meta = [next |-> 0, writes |-> 0]
  /\ locks = [l \in Keys \cup {Meta} |-> None]
  /\ proc = [p \in Procs |-> Idle]
  /\ cache = None /\ lister = NoListing
  /\ spent = [calls |-> 0, mishaps |-> 0, listings |-> 0]

Cell(k) == files[k].cell
Contents == [k \in Keys |-> Cell(k)]

At(p, pc) == proc[p].pc = pc
Op(p) == proc[p].op
Key(p) == Op(p).key
Go(p, pc) == proc' = [proc EXCEPT ![p].pc = pc]
Answered(p, pc, answer) == proc' = [proc EXCEPT ![p].pc = pc, ![p].answer = answer]

-------------------------------------------------------------------------------
(***************************************************************************)
(* Locks.  A lock file names its holder until it expires.  A contender     *)
(* that reads an expired one renames aside whatever is at the path by      *)
(* then.                                                                   *)
(***************************************************************************)

(* The lock a process waits for.                                           *)
Wanted(p) == IF proc[p].pc \in {"meta", "meta stale"} THEN Meta ELSE Key(p)
Waiting(p) == proc[p].pc \in {"lock", "meta"}

(* The holder of the counters' lock reads them at once.                    *)
AcquireLock(p) ==
  /\ Waiting(p) /\ locks[Wanted(p)] = None
  /\ locks' = [locks EXCEPT ![Wanted(p)] = [owner |-> p, stale |-> FALSE]]
  /\ proc' = [proc EXCEPT ![p].pc = IF At(p, "meta") THEN "bump" ELSE "held",
                          ![p].counters = IF At(p, "meta") THEN meta ELSE None]
  /\ UNCHANGED <<files, meta, cache, lister, spent>>

SeeStale(p) ==
  /\ Waiting(p) /\ locks[Wanted(p)] # None /\ locks[Wanted(p)].stale
  /\ Go(p, IF At(p, "meta") THEN "meta stale" ELSE "lock stale")
  /\ UNCHANGED <<files, meta, locks, cache, lister, spent>>

TakeOver(p) ==
  /\ proc[p].pc \in {"meta stale", "lock stale"}
  /\ locks' = [locks EXCEPT ![Wanted(p)] = None]
  /\ Go(p, IF At(p, "meta stale") THEN "meta" ELSE "lock")
  /\ UNCHANGED <<files, meta, cache, lister, spent>>

(* The wait for a lock times out.                                          *)
GiveUp(p) ==
  /\ Waiting(p) /\ locks[Wanted(p)] # None
  /\ Answered(p, "release", Unavailable)
  /\ UNCHANGED <<files, meta, locks, cache, lister, spent>>

Owns(p, l) == locks[l] # None /\ locks[l].owner = p
Verified(p, l) == Owns(p, l) /\ ~locks[l].stale

ReleaseLock(p, l) == locks' = [locks EXCEPT ![l] = IF Owns(p, l) THEN None ELSE @]

(* Time passes: a dead holder's lock expires; a living one's may.          *)
Expire(l) ==
  /\ locks[l] # None /\ ~locks[l].stale
  /\ IF locks[l].owner = Dead THEN UNCHANGED spent
     ELSE /\ spent.mishaps < MaxMishaps
          /\ spent' = [spent EXCEPT !.mishaps = @ + 1]
  /\ locks' = [locks EXCEPT ![l].stale = TRUE]
  /\ UNCHANGED <<files, meta, proc, cache, lister>>

-------------------------------------------------------------------------------
(***************************************************************************)
(* A write.                                                                *)
(***************************************************************************)

Call(p) ==
  /\ At(p, "idle") /\ spent.calls < MaxCalls
  /\ spent' = [spent EXCEPT !.calls = @ + 1]
  /\ \E op \in OpsOf[p] :
       proc' = [proc EXCEPT ![p] = [Idle EXCEPT !.pc = "look", !.op = op]]
  /\ UNCHANGED <<files, meta, locks, cache, lister>>

(* Before any lock: create looks for a cell, the others for none.          *)
Look(p) ==
  /\ At(p, "look")
  /\ LET cell == Cell(Key(p))
         settled == IF Op(p).kind = "create" THEN cell # None
                    ELSE cell = None /\ ~Applies(Op(p), cell)
     IN IF settled THEN Answered(p, "release", Answer(Op(p), cell))
        ELSE Go(p, IF Op(p).kind = "create" THEN "meta" ELSE "lock")
  /\ UNCHANGED <<files, meta, locks, cache, lister, spent>>

(* Under the lock of the key the cell is read again.                       *)
ReadHeld(p) ==
  /\ At(p, "held")
  /\ LET cell == Cell(Key(p))
     IN IF Applies(Op(p), cell)
        THEN proc' = [proc EXCEPT ![p].pc = "meta", ![p].held = cell]
        ELSE Answered(p, "release", Answer(Op(p), cell))
  /\ UNCHANGED <<files, meta, locks, cache, lister, spent>>

CompareAndSetHeld(p) == ReadHeld(p) /\ Op(p).kind = "compareAndSet"
AppendHeld(p) == ReadHeld(p) /\ Op(p).kind = "append"
TombstoneHeld(p) == ReadHeld(p) /\ Op(p).kind = "tombstone"

(* The counters are bumped before the cell is there: an index reserved for *)
(* a cell that never comes is a gap.                                       *)
ReserveWrite(p) ==
  /\ At(p, "bump")
  /\ LET c == proc[p].counters
         new == proc[p].held = None
     IN IF Verified(p, Meta)
        THEN /\ meta' = [next |-> c.next + (IF new THEN 1 ELSE 0), writes |-> c.writes + 1]
             /\ proc' = [proc EXCEPT ![p].pc = "unlock meta", ![p].counters = None,
                                     ![p].index = IF new THEN c.next ELSE 0]
        ELSE Answered(p, "unlock meta", Unavailable) /\ UNCHANGED meta
  /\ UNCHANGED <<files, locks, cache, lister, spent>>

ReleaseMeta(p) ==
  /\ At(p, "unlock meta") /\ ReleaseLock(p, Meta)
  /\ Go(p, IF proc[p].answer = None THEN "publish" ELSE "release")
  /\ UNCHANGED <<files, meta, cache, lister, spent>>

Link(k, cell, index) == files' = [files EXCEPT ![k] = [cell |-> cell, index |-> index]]

(* Mutant: a new cell is renamed over whatever file is there.              *)
CreateOver(p) ==
  /\ At(p, "publish") /\ proc[p].held = None
  /\ Link(Key(p), Effect(Op(p), None), proc[p].index)
  /\ Answered(p, "release", Answer(Op(p), None))
  /\ UNCHANGED <<meta, locks, cache, lister, spent>>

(* A new cell is linked where no file is.                                  *)
CommitCreate(p) ==
  /\ At(p, "publish") /\ proc[p].held = None
  /\ IF Cell(Key(p)) = None
     THEN /\ Link(Key(p), Effect(Op(p), None), proc[p].index)
          /\ Answered(p, "release", Answer(Op(p), None))
     ELSE Go(p, "winner") /\ UNCHANGED files
  /\ UNCHANGED <<meta, locks, cache, lister, spent>>

(* Whoever came second reads what is there; an append lost to it anyway.   *)
ReadWinner(p) ==
  /\ At(p, "winner")
  /\ Answered(p, "release",
       IF Op(p).kind = "create" THEN Answer(Op(p), Cell(Key(p)))
       ELSE [status |-> "conflict", revision |-> Revision(Cell(Key(p)))])
  /\ UNCHANGED <<files, meta, locks, cache, lister, spent>>

(* A change is computed from the cell read under the lock, and renamed     *)
(* over the file if the lock is still held.                                *)
CommitReplace(p) ==
  /\ At(p, "publish") /\ proc[p].held # None
  /\ IF Verified(p, Key(p))
     THEN /\ files' = [files EXCEPT ![Key(p)].cell = Effect(Op(p), proc[p].held)]
          /\ Answered(p, "release", Answer(Op(p), proc[p].held))
     ELSE Answered(p, "release", Unavailable) /\ UNCHANGED files
  /\ UNCHANGED <<meta, locks, cache, lister, spent>>

Release(p) ==
  /\ At(p, "release") /\ ReleaseLock(p, Key(p))
  /\ proc' = [proc EXCEPT ![p] = Idle]
  /\ UNCHANGED <<files, meta, cache, lister, spent>>

(* A crashed holder leaves its lock behind, until it expires.              *)
Crash(p) ==
  /\ ~At(p, "idle") /\ spent.mishaps < MaxMishaps
  /\ spent' = [spent EXCEPT !.mishaps = @ + 1]
  /\ proc' = [proc EXCEPT ![p] = Idle]
  /\ locks' = [l \in DOMAIN locks |->
                 IF Owns(p, l) THEN [locks[l] EXCEPT !.owner = Dead] ELSE locks[l]]
  /\ UNCHANGED <<files, meta, cache, lister>>

-------------------------------------------------------------------------------
(***************************************************************************)
(* A listing, page by page.  The catalog of the namespace, keys by         *)
(* insertion index, is kept while the counters and the directory stay      *)
(* unchanged; every publication changes the directory.                     *)
(***************************************************************************)

Directory == [k \in Keys |-> Revision(Cell(k))]

Present == {k \in Keys : Cell(k) # None}
LiveKeys == {k \in Keys : Live(Cell(k))}

List ==
  /\ lister.pc = "idle" /\ spent.listings < MaxListings
  /\ spent' = [spent EXCEPT !.listings = @ + 1]
  /\ lister' = [NoListing EXCEPT !.pc = "catalog", !.attempt = 1,
                                 !.opened = Directory, !.revision = meta.writes]
  /\ UNCHANGED <<files, meta, locks, proc, cache>>

(* Mutant: the counters alone tell whether the catalog is current.         *)
CacheCounted == cache # None /\ cache.writes = meta.writes

CacheHolds ==
  /\ cache # None
  /\ cache.writes = meta.writes /\ cache.directory = Directory

CatalogFor ==
  /\ lister.pc = "catalog"
  /\ lister' =
       IF CacheHolds
       THEN [lister EXCEPT !.pc = "page", !.scanned = cache.keys]
       ELSE [lister EXCEPT !.pc = "scan", !.scanned = Present,
                           !.before = [writes |-> meta.writes, directory |-> Directory]]
  /\ UNCHANGED <<files, meta, locks, proc, cache, spent>>

(* What was published during the scan may be in it.  An unstable scan is   *)
(* repeated; the third is used, but not kept.                              *)
ScanCatalog ==
  /\ lister.pc = "scan"
  /\ \E late \in SUBSET (Present \ lister.scanned) :
       LET keys == lister.scanned \cup late
           now == [writes |-> meta.writes, directory |-> Directory]
       IN IF now = lister.before
          THEN /\ cache' = [writes |-> now.writes, directory |-> now.directory, keys |-> keys]
               /\ lister' = [lister EXCEPT !.pc = "page", !.scanned = keys, !.before = None]
          ELSE /\ UNCHANGED cache
               /\ lister' = IF lister.attempt < 3
                            THEN [lister EXCEPT !.pc = "catalog", !.attempt = @ + 1,
                                                !.scanned = {}, !.before = None]
                            ELSE [lister EXCEPT !.pc = "page", !.scanned = keys,
                                                !.before = None]
  /\ UNCHANGED <<files, meta, locks, proc, spent>>

(* The keys of a set by insertion index.                                   *)
InOrder(keys) ==
  CHOOSE s \in [1..Cardinality(keys) -> keys] :
    \A m, n \in 1..Cardinality(keys) : m < n => files[s[m]].index < files[s[n]].index

(* Mutant: the cursor counts what was listed.                              *)
ReadPageByCount ==
  /\ lister.pc = "page"
  /\ LET found == InOrder({k \in lister.scanned :
                             files[k].index >= lister.after /\ Live(Cell(k))})
         page == SubSeq(found, 1, IF Len(found) < Limit THEN Len(found) ELSE Limit)
         listed == lister.listed \o page
     IN lister' = IF Len(found) > Len(page)
                  THEN [lister EXCEPT !.pc = "catalog", !.attempt = 1, !.scanned = {},
                                      !.listed = listed, !.after = Len(listed)]
                  ELSE [lister EXCEPT !.pc = "end", !.scanned = {}, !.listed = listed]
  /\ UNCHANGED <<files, meta, locks, proc, cache, spent>>

(* A page: what is live beyond the cursor, and a cursor if there is more.  *)
ReadPage ==
  /\ lister.pc = "page"
  /\ LET found == InOrder({k \in lister.scanned :
                             files[k].index >= lister.after /\ Live(Cell(k))})
         page == SubSeq(found, 1, IF Len(found) < Limit THEN Len(found) ELSE Limit)
         listed == lister.listed \o page
     IN lister' = IF Len(found) > Len(page)
                  THEN [lister EXCEPT !.pc = "catalog", !.attempt = 1, !.scanned = {},
                                      !.listed = listed,
                                      !.after = files[page[Len(page)]].index + 1]
                  ELSE [lister EXCEPT !.pc = "end", !.scanned = {}, !.listed = listed]
  /\ UNCHANGED <<files, meta, locks, proc, cache, spent>>

EndListing ==
  /\ lister.pc = "end" /\ lister' = NoListing
  /\ UNCHANGED <<files, meta, locks, proc, cache, spent>>

-------------------------------------------------------------------------------
Step(p) ==
  \/ AcquireLock(p) \/ SeeStale(p) \/ TakeOver(p) \/ GiveUp(p)
  \/ Look(p) \/ CompareAndSetHeld(p) \/ AppendHeld(p) \/ TombstoneHeld(p)
  \/ ReserveWrite(p) \/ ReleaseMeta(p)
  \/ CommitCreate(p) \/ ReadWinner(p) \/ CommitReplace(p) \/ Release(p)

Listing == List \/ CatalogFor \/ ScanCatalog \/ ReadPage \/ EndListing

Next == \/ \E p \in Procs : Call(p) \/ Step(p) \/ Crash(p)
        \/ \E l \in DOMAIN locks : Expire(l)
        \/ Listing

Spec == Init /\ [][Next]_vars

-------------------------------------------------------------------------------
(***************************************************************************)
(* Properties.                                                             *)
(***************************************************************************)

(* A catalog that is still in use misses no cell, though the counters were *)
(* bumped before the cell it may miss was published.                       *)
CacheComplete == CacheHolds => cache.keys = Present

(* What was live before a listing began, and still is, is listed: once.    *)
EarlierListed ==
  lister.pc = "end" =>
    /\ {k \in LiveKeys : lister.opened[k] > 0} \subseteq Elements(lister.listed)
    /\ Distinct(lister.listed)

Calls == [p \in Procs |-> [op |-> Op(p), answer |-> proc[p].answer]]

(* The file store keeps the promise of the store: no write is lost to a    *)
(* paused, expired or crashed holder of a lock, none takes effect twice,   *)
(* and what an unavailable store was asked is not done.                    *)
Promise == INSTANCE Store WITH cells <- Contents, calls <- Calls

ImplementsStore == Promise!Spec

===============================================================================
