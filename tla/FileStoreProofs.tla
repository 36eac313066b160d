---------------------------- MODULE FileStoreProofs ----------------------------
(***************************************************************************)
(* What the file store keeps, for any writers, keys, operations and        *)
(* bounds: a lock is held by one call, at the steps between its            *)
(* acquisition and its release, so that the cell and the counters its      *)
(* holder read under it are still the current ones; hence insertion        *)
(* indexes are given out once, the catalog in use misses no cell, a        *)
(* listing gives what was there before it began, and every write does what *)
(* the reference store would have done at one instant of the call.         *)
(***************************************************************************)
EXTENDS FileStore, FiniteSetTheorems, SequenceTheorems, TLAPS

Bracket == [writes : Nat, directory : [Keys -> Nat]]

Job ==
  [pc : {"idle", "look", "lock", "lock stale", "held", "meta", "meta stale", "bump",
         "unlock meta", "publish", "winner", "release"},
   op : Ops \cup {None}, answer : Results \cup {None}, held : Written(Ops) \cup {None},
   counters : Counters \cup {None}, index : Nat]

Page ==
  [pc : {"idle", "catalog", "scan", "page", "end"}, attempt : Nat,
   before : Bracket \cup {None}, scanned : SUBSET Keys, after : Nat,
   listed : Seq(Keys), opened : [Keys -> Nat] \cup {None}, revision : Nat]

File == [cell : Written(Ops) \cup {None}, index : Nat]
Catalog == [writes : Nat, directory : [Keys -> Nat], keys : SUBSET Keys]

TypeOK ==
  /\ files \in [Keys -> File]
  /\ meta \in Counters
  /\ locks \in [Keys \cup {Meta} -> Lock \cup {None}]
  /\ proc \in [Procs -> Job]
  /\ cache \in Catalog \cup {None}
  /\ lister \in Page
  /\ spent \in [calls : Nat, mishaps : Nat, listings : Nat]

(* A write that found something to do.                                     *)
Writing == {"meta", "meta stale", "bump", "unlock meta", "publish", "winner"}

(* Where a call stands tells what it knows.                                *)
CallStands(p) ==
  LET j == proc[p] IN
    /\ j.pc = "idle" => j = Idle
    /\ j.pc # "idle" => j.op \in OpsOf[p]
    /\ j.pc \notin {"idle", "unlock meta", "release"} => j.answer = None
    /\ j.pc = "unlock meta" => j.answer \in {None, Unavailable}
    /\ j.pc = "release" => j.answer # None
    /\ j.pc = "look" => j.held = None
    /\ j.pc \in {"lock", "lock stale", "held"} => j.held = None /\ j.op.kind # "create"
    /\ j.pc \in Writing => Applies(j.op, j.held)
    /\ j.pc = "winner" => j.held = None /\ Cell(Key(p)) # None

(* Who owns a lock is between its acquisition and its release, and what it *)
(* read under it is current.                                               *)
LockStands(p, l) ==
  Owns(p, l) =>
    IF l = Meta
    THEN \/ At(p, "bump") /\ proc[p].counters = meta
         \/ At(p, "unlock meta")
    ELSE /\ proc[p].pc \in Writing \cup {"held", "release"} /\ l = Key(p)
         /\ proc[p].pc \in Writing /\ proc[p].held # None => Cell(l) = proc[p].held

CallsStand == \A p \in Procs : CallStands(p)
LocksStand == \A p \in Procs : \A l \in Keys \cup {Meta} : LockStands(p, l)

(* A call that holds an insertion index for a cell to come.                *)
Reserving(p) ==
  /\ proc[p].pc \in {"unlock meta", "publish"}
  /\ proc[p].answer = None /\ proc[p].held = None

(* An insertion index is that of one cell, there or to come.               *)
IndexStands ==
  /\ \A k \in Present : files[k].index < meta.next
  /\ \A j, k \in Present : files[j].index = files[k].index => j = k
  /\ \A p \in Procs : Reserving(p) =>
       /\ proc[p].index < meta.next
       /\ \A k \in Present : files[k].index # proc[p].index
       /\ \A q \in Procs : Reserving(q) /\ proc[q].index = proc[p].index => p = q

In(directory) == {k \in Keys : directory[k] > 0}

(* The catalog is that of the directory it was read from.                  *)
CacheStands == cache # None => cache.keys = In(cache.directory)

Earlier == In(lister.opened)

(* A listing: what it scans holds what was there when it began, and what   *)
(* it listed is all of that before its cursor.                             *)
ListStands ==
  lister.pc # "idle" =>
    /\ lister.opened \in [Keys -> Nat] /\ Earlier \subseteq Present
    /\ lister.pc = "scan" => lister.scanned = In(lister.before.directory)
    /\ lister.pc \in {"scan", "page"} =>
         Earlier \subseteq lister.scanned /\ lister.scanned \subseteq Present
    /\ Distinct(lister.listed) /\ Elements(lister.listed) \subseteq Present
    /\ lister.pc # "end" =>
         /\ \A k \in Elements(lister.listed) : files[k].index < lister.after
         /\ \A k \in LiveKeys \cap Earlier :
              files[k].index < lister.after => k \in Elements(lister.listed)
    /\ lister.pc = "end" => LiveKeys \cap Earlier \subseteq Elements(lister.listed)

IInv == TypeOK /\ CallsStand /\ LocksStand /\ IndexStands /\ CacheStands /\ ListStands

-------------------------------------------------------------------------------
(***************************************************************************)
(* Cells.                                                                  *)
(***************************************************************************)

LEMMA OpFacts ==
  ASSUME NEW p \in Procs, NEW op \in OpsOf[p]
  PROVE  /\ op \in Ops /\ op # None /\ op.kind \in Kinds /\ op.key \in Keys
         /\ op.expected \in Nat /\ op.key # Meta
         /\ op.entries \in Seq(UNION {Elements(o.entries) : o \in Ops})
         /\ op.kind # "append" => op.entries = <<>>
<1>1. op \in Ops
  BY DEF Ops
<1>2. /\ op.kind \in Kinds /\ op.key \in Keys /\ op.expected \in Nat /\ op # None
      /\ op.entries \in Seq(Elements(op.entries)) /\ op.key # Meta
      /\ op.kind # "append" => op.entries = <<>>
  BY <1>1, FileStoreAssumption
<1>3. op.entries \in Seq(UNION {Elements(o.entries) : o \in Ops})
  BY <1>1, <1>2, SeqMonotonic
<1> QED
  BY <1>1, <1>2, <1>3

LEMMA Absence ==
  /\ \A c \in Written(Ops) : c # None
  /\ \A r \in Results : r # None
  /\ \A l \in Lock : l # None
  /\ \A c \in Counters : c # None
BY FileStoreAssumption

(* What an operation makes of a cell it applies to.                        *)
LEMMA EffectFacts ==
  ASSUME NEW p \in Procs, NEW op \in OpsOf[p], NEW c \in Written(Ops) \cup {None},
         Applies(op, c)
  PROVE  /\ Effect(op, c) \in Written(Ops)
         /\ c # None => Revision(Effect(op, c)) = Revision(c) + 1 /\ Live(c)
<1>1. /\ op \in Ops /\ op.kind \in Kinds
      /\ op.entries \in Seq(UNION {Elements(o.entries) : o \in Ops})
  BY OpFacts
<1>2. CASE c = None
  <2>1. NewCell(op) \in Written(Ops)
    BY <1>1 DEF NewCell, Written, Forms
  <2> QED
    BY <1>2, <2>1 DEF Effect
<1>3. CASE c # None
  <2>1. c \in Written(Ops)
    BY <1>3
  <2> DEFINE next == [c EXCEPT !.revision = @ + 1, !.last = op.id]
  <2>2. next \in Written(Ops) /\ next.revision = c.revision + 1
    <3>1. c.revision \in Nat \ {0} /\ c.revision + 1 \in Nat \ {0}
      BY <2>1 DEF Written
    <3>2. op.id \in {o.id : o \in Ops}
      BY <1>1
    <3> QED
      BY <2>1, <3>1, <3>2 DEF Written
  <2>3. c.entries \o op.entries \in Seq(UNION {Elements(o.entries) : o \in Ops})
    BY <1>1, <2>1, ConcatProperties DEF Written
  <2>4. Live(c) /\ op.kind \in {"append", "compareAndSet", "tombstone"}
    BY <1>1, <1>3 DEF Applies, Live, Form
  <2> HIDE DEF next
  <2>5. CASE op.kind = "append"
    <3>1. Effect(op, c) = [next EXCEPT !.entries = c.entries \o op.entries]
      BY <1>3, <2>1, <2>5 DEF Effect, Written, next
    <3> QED
      BY <2>1, <2>2, <2>3, <2>4, <3>1, Absence DEF Written, Revision
  <2>6. CASE op.kind = "compareAndSet"
    <3>1. Effect(op, c) = [next EXCEPT !.digest = op.digest]
      BY <1>3, <2>6 DEF Effect, next
    <3> QED
      BY <1>1, <2>1, <2>2, <2>4, <3>1, Absence DEF Written, Revision
  <2>7. CASE op.kind = "tombstone"
    <3>1. Effect(op, c) =
            [next EXCEPT !.form = "tombstone", !.digest = None, !.entries = <<>>]
      BY <1>3, <2>7 DEF Effect, next
    <3>2. <<>> \in Seq(UNION {Elements(o.entries) : o \in Ops}) /\ "tombstone" \in Forms
      BY DEF Forms
    <3>3. Effect(op, c) \in Written(Ops) /\ Effect(op, c).revision = c.revision + 1
      BY <2>2, <3>1, <3>2 DEF Written
    <3> QED
      BY <1>3, <2>4, <3>3, Absence DEF Revision
  <2> QED
    BY <2>4, <2>5, <2>6, <2>7
<1> QED
  BY <1>2, <1>3

LEMMA AnswerFacts ==
  ASSUME NEW op, NEW c \in Written(Ops) \cup {None}
  PROVE  /\ Answer(op, c) \in Results /\ Answer(op, c) # None
         /\ [status |-> "conflict", revision |-> Revision(c)] \in Results
         /\ Unavailable \in Results /\ Unavailable # None
         /\ Revision(c) \in Nat /\ (Revision(c) > 0 <=> c # None)
<1>1. Revision(c) \in Nat /\ Revision(c) + 1 \in Nat /\ (Revision(c) > 0 <=> c # None)
  BY DEF Revision, Written
<1>2. /\ Answer(op, c) \in Results /\ Unavailable \in Results
      /\ [status |-> "conflict", revision |-> Revision(c)] \in Results
  BY <1>1 DEF Answer, Results, Statuses, Unavailable
<1> QED
  BY <1>1, <1>2, Absence

LEMMA CellFacts ==
  ASSUME TypeOK
  PROVE  /\ \A k \in Keys : Cell(k) \in Written(Ops) \cup {None} /\ files[k].index \in Nat
         /\ Directory \in [Keys -> Nat] /\ Present = In(Directory)
         /\ LiveKeys \subseteq Present
<1>1. \A k \in Keys : Cell(k) \in Written(Ops) \cup {None} /\ files[k].index \in Nat
  BY DEF TypeOK, File, Cell
<1>2. \A k \in Keys : Revision(Cell(k)) \in Nat /\ (Revision(Cell(k)) > 0 <=> Cell(k) # None)
  BY <1>1, AnswerFacts
<1>3. LiveKeys \subseteq Present
  BY DEF LiveKeys, Present, Live, Form
<1> QED
  BY <1>1, <1>2, <1>3 DEF Directory, Present, In

-------------------------------------------------------------------------------
(***************************************************************************)
(* What an action of one process leaves to the others.                     *)
(***************************************************************************)

Kept(k) ==
  Cell(k) # None =>
    /\ files'[k].cell # None /\ files'[k].index = files[k].index
    /\ Live(files'[k].cell) => Live(Cell(k))

ProcFrame(p) ==
  /\ \A q \in Procs \ {p} : proc'[q] = proc[q]
  /\ \A q \in Procs \ {p} : \A l \in Keys \cup {Meta} : Owns(q, l)' => Owns(q, l)
  /\ meta' = meta \/ Owns(p, Meta)
  /\ \A k \in Keys : Kept(k) /\ (Cell(k)' = Cell(k) \/ Cell(k) = None \/ Owns(p, k))

LEMMA OthersStand ==
  ASSUME IInv, NEW p \in Procs, ProcFrame(p), NEW q \in Procs \ {p}
  PROVE  CallStands(q)' /\ \A l \in Keys \cup {Meta} : LockStands(q, l)'
<1>1. CallStands(q) /\ proc'[q] = proc[q] /\ TypeOK
  BY DEF IInv, CallsStand, ProcFrame
<1>2. CallStands(q)'
  <2>1. q \in Procs /\ (proc[q].pc = "winner" => Key(q) \in Keys)
    BY <1>1, OpFacts DEF CallStands, Key, Op
  <2>2. proc[q].pc = "winner" => Cell(Key(q))' # None
    BY <1>1, <2>1 DEF ProcFrame, Kept, CallStands, Key, Op, Cell
  <2> QED
    BY <1>1, <2>2 DEF CallStands, Key, Op
<1>3. ASSUME NEW l \in Keys \cup {Meta}, Owns(q, l)' PROVE LockStands(q, l)'
  <2>1. Owns(q, l) /\ ~Owns(p, l)
    BY <1>3 DEF ProcFrame, Owns
  <2>2. LockStands(q, l)
    BY DEF IInv, LocksStand
  <2>3. CASE l = Meta
    <3>1. meta' = meta
      BY <2>1, <2>3 DEF ProcFrame
    <3> QED
      BY <1>1, <2>1, <2>2, <2>3, <3>1 DEF LockStands, At
  <2>4. CASE l # Meta
    <3>1. /\ proc[q].pc \in Writing \cup {"held", "release"} /\ l = Key(q)
          /\ proc[q].pc \in Writing /\ proc[q].held # None => Cell(l) = proc[q].held
      BY <2>1, <2>2, <2>4 DEF LockStands
    <3>2. proc[q].pc \in Writing /\ proc[q].held # None => Cell(l)' = Cell(l)
      BY <2>1, <2>4, <3>1 DEF ProcFrame
    <3> QED
      BY <1>1, <2>4, <3>1, <3>2 DEF LockStands, Key, Op
  <2> QED
    BY <2>3, <2>4
<1> QED
  BY <1>2, <1>3 DEF LockStands

LEMMA ListingKept ==
  ASSUME IInv, UNCHANGED <<cache, lister>>, \A k \in Keys : Kept(k)
  PROVE  CacheStands' /\ ListStands'
<1>1. CacheStands /\ ListStands /\ TypeOK
  BY DEF IInv
<1>2. CacheStands'
  BY <1>1 DEF CacheStands
<1>3. /\ Present \subseteq Present' /\ LiveKeys' \cap Present \subseteq LiveKeys
      /\ \A k \in Present : files'[k].index = files[k].index
  BY DEF Present, LiveKeys, Kept, Cell
<1>4. CASE lister.pc = "idle"
  BY <1>2, <1>4 DEF ListStands
<1>5. CASE lister.pc # "idle"
  <2>1. /\ lister.opened \in [Keys -> Nat] /\ Earlier \subseteq Present
        /\ Elements(lister.listed) \subseteq Present
    BY <1>1, <1>5 DEF ListStands
  <2>2. Earlier' = Earlier /\ LiveKeys' \cap Earlier \subseteq LiveKeys \cap Earlier
    BY <1>3, <2>1 DEF Earlier
  <2>3. lister.pc # "end" =>
          /\ \A k \in Elements(lister.listed) : files'[k].index < lister.after
          /\ \A k \in LiveKeys' \cap Earlier :
               files'[k].index < lister.after => k \in Elements(lister.listed)
    BY <1>1, <1>3, <1>5, <2>1, <2>2 DEF ListStands
  <2> QED
    BY <1>1, <1>2, <1>3, <1>5, <2>1, <2>2, <2>3 DEF ListStands
<1> QED
  BY <1>2, <1>4, <1>5

(* Indexes stay those of one cell while none is reserved and none linked.  *)
LEMMA IndexKept ==
  ASSUME IInv, NEW p \in Procs, UNCHANGED meta, Present' = Present,
         \A k \in Present : files'[k].index = files[k].index,
         \A q \in Procs \ {p} : proc'[q] = proc[q],
         Reserving(p)' => Reserving(p) /\ proc'[p].index = proc[p].index
  PROVE  IndexStands'
<1>1. IndexStands
  BY DEF IInv
<1>2. \A q \in Procs : Reserving(q)' => Reserving(q) /\ proc'[q].index = proc[q].index
  BY DEF Reserving
<1> QED
  BY <1>1, <1>2 DEF IndexStands

(* A call moves on.                                                        *)
LEMMA Puts ==
  ASSUME TypeOK, NEW p \in Procs, NEW j \in Job, proc' = [proc EXCEPT ![p] = j]
  PROVE  proc' \in [Procs -> Job] /\ proc'[p] = j /\ \A q \in Procs \ {p} : proc'[q] = proc[q]
BY DEF TypeOK

LEMMA Goes ==
  ASSUME TypeOK, NEW p \in Procs, NEW pc, Go(p, pc),
         pc \in {"look", "lock", "lock stale", "held", "meta", "meta stale", "bump",
                "unlock meta", "publish", "winner", "release"}
  PROVE  /\ proc' \in [Procs -> Job] /\ proc'[p] = [proc[p] EXCEPT !.pc = pc]
         /\ \A q \in Procs \ {p} : proc'[q] = proc[q]
<1>1. proc[p] \in Job /\ [proc[p] EXCEPT !.pc = pc] \in Job
  BY DEF TypeOK, Job
<1>2. proc' = [proc EXCEPT ![p] = [proc[p] EXCEPT !.pc = pc]]
  BY DEF Go
<1> QED
  BY <1>1, <1>2, Puts

LEMMA Answers ==
  ASSUME TypeOK, NEW p \in Procs, NEW a \in Results, Answered(p, "release", a)
  PROVE  /\ proc' \in [Procs -> Job]
         /\ proc'[p] = [proc[p] EXCEPT !.pc = "release", !.answer = a]
         /\ \A q \in Procs \ {p} : proc'[q] = proc[q]
<1>1. proc[p] \in Job /\ [proc[p] EXCEPT !.pc = "release", !.answer = a] \in Job
  BY DEF TypeOK, Job
<1>2. proc' = [proc EXCEPT ![p] = [proc[p] EXCEPT !.pc = "release", !.answer = a]]
  BY DEF Answered, TypeOK
<1> QED
  BY <1>1, <1>2, Puts

LEMMA ProcStands ==
  ASSUME IInv, NEW p \in Procs, TypeOK', ProcFrame(p), IndexStands',
         CallStands(p)', \A l \in Keys \cup {Meta} : LockStands(p, l)',
         UNCHANGED <<cache, lister>>
  PROVE  IInv'
<1>1. CallsStand' /\ LocksStand'
  <2>1. \A q \in Procs \ {p} :
          CallStands(q)' /\ \A l \in Keys \cup {Meta} : LockStands(q, l)'
    BY OthersStand
  <2> QED
    BY <2>1 DEF CallsStand, LocksStand
<1>2. CacheStands' /\ ListStands'
  BY ListingKept DEF ProcFrame
<1> QED
  BY <1>1, <1>2 DEF IInv

(* A step that writes neither a cell nor the counters.                     *)
LEMMA QuietStands ==
  ASSUME IInv, NEW p \in Procs, TypeOK', UNCHANGED <<files, meta, cache, lister>>,
         \A q \in Procs \ {p} : proc'[q] = proc[q],
         \A q \in Procs \ {p} : \A l \in Keys \cup {Meta} : Owns(q, l)' => Owns(q, l),
         Reserving(p)' => Reserving(p) /\ proc'[p].index = proc[p].index,
         CallStands(p)', \A l \in Keys \cup {Meta} : LockStands(p, l)'
  PROVE  IInv'
<1>1. IndexStands'
  BY IndexKept DEF Present, Cell
<1>2. ProcFrame(p)
  BY DEF ProcFrame, Kept, Cell
<1> QED
  BY <1>1, <1>2, ProcStands

LEMMA Facts ==
  ASSUME IInv, NEW p \in Procs
  PROVE  /\ TypeOK /\ CallStands(p) /\ proc[p] \in Job
         /\ \A l \in Keys \cup {Meta} : LockStands(p, l)
         /\ proc[p].pc # "idle" => Op(p) \in OpsOf[p] /\ Key(p) \in Keys /\ Key(p) # Meta
         /\ Meta \notin Keys /\ locks \in [Keys \cup {Meta} -> Lock \cup {None}]
<1>1. TypeOK /\ CallStands(p) /\ proc[p] \in Job /\ \A l \in Keys \cup {Meta} : LockStands(p, l)
  BY DEF IInv, CallsStand, LocksStand, TypeOK
<1>2. proc[p].pc # "idle" => Op(p) \in OpsOf[p]
  BY <1>1 DEF CallStands, Op
<1> QED
  BY <1>1, <1>2, OpFacts, FileStoreAssumption DEF Key, TypeOK

(* An owner's step when what it owns, and what it read, stays.             *)
LEMMA OwnerKeeps ==
  ASSUME IInv, NEW p \in Procs, UNCHANGED <<files, meta>>,
         \A l \in Keys \cup {Meta} : Owns(p, l)' => Owns(p, l),
         proc'[p].op = proc[p].op, proc'[p].held = proc[p].held,
         proc[p].pc \in Writing => proc'[p].pc \in Writing \cup {"release"},
         proc[p].pc \in {"held", "release"} => proc'[p].pc = "release",
         proc[p].pc \in {"bump", "unlock meta"} =>
           proc'[p].pc = "unlock meta" \/ ~Owns(p, Meta)'
  PROVE  \A l \in Keys \cup {Meta} : LockStands(p, l)'
<1> SUFFICES ASSUME NEW l \in Keys \cup {Meta}, Owns(p, l)' PROVE LockStands(p, l)'
  BY DEF LockStands
<1>1. Owns(p, l) /\ LockStands(p, l)
  BY Facts
<1>2. CASE l = Meta
  BY <1>1, <1>2 DEF LockStands, At
<1>3. CASE l # Meta
  <2>1. /\ proc[p].pc \in Writing \cup {"held", "release"} /\ l = Key(p)
        /\ proc[p].pc \in Writing /\ proc[p].held # None => Cell(l) = proc[p].held
    BY <1>1, <1>3 DEF LockStands
  <2>2. Key(p)' = Key(p) /\ Cell(l)' = Cell(l)
    BY DEF Key, Op, Cell
  <2> QED
    BY <1>3, <2>1, <2>2 DEF LockStands, Writing
<1> QED
  BY <1>2, <1>3

-------------------------------------------------------------------------------
(***************************************************************************)
(* The actions of a process.                                               *)
(***************************************************************************)

LEMMA AcquireLockStep ==
  ASSUME IInv, NEW p \in Procs, AcquireLock(p)
  PROVE  IInv'
<1> DEFINE W == Wanted(p)
           j == [proc[p] EXCEPT !.pc = IF At(p, "meta") THEN "bump" ELSE "held",
                                !.counters = IF At(p, "meta") THEN meta ELSE None]
<1>1. /\ TypeOK /\ CallStands(p) /\ proc[p] \in Job /\ Meta \notin Keys
      /\ \A l \in Keys \cup {Meta} : LockStands(p, l)
      /\ Op(p) \in OpsOf[p] /\ Key(p) \in Keys /\ Key(p) # Meta
      /\ locks \in [Keys \cup {Meta} -> Lock \cup {None}]
  BY Facts DEF AcquireLock, Waiting
<1>2. /\ locks' = [locks EXCEPT ![W] = [owner |-> p, stale |-> FALSE]]
      /\ UNCHANGED <<files, meta, cache, lister, spent>> /\ locks[W] = None
      /\ proc[p].pc \in {"lock", "meta"}
  BY DEF AcquireLock, Waiting
<1>3. W \in Keys \cup {Meta} /\ W = IF At(p, "meta") THEN Meta ELSE Key(p)
  BY <1>1, <1>2 DEF Wanted, At
<1>4. j \in Job /\ proc' = [proc EXCEPT ![p] = j]
  <2>1. meta \in Counters
    BY <1>1 DEF TypeOK
  <2>2. j \in Job
    BY <1>1, <2>1 DEF Job
  <2>3. proc' = [proc EXCEPT ![p] = j]
    BY <1>1 DEF AcquireLock, TypeOK
  <2> QED
    BY <2>2, <2>3
<1>5. /\ proc' \in [Procs -> Job] /\ proc'[p] = j
      /\ \A q \in Procs \ {p} : proc'[q] = proc[q]
  BY <1>1, <1>4, Puts
<1>6. TypeOK'
  <2>1. locks' \in [Keys \cup {Meta} -> Lock \cup {None}]
    BY <1>1, <1>2, <1>3 DEF Lock
  <2> QED
    BY <1>1, <1>2, <1>5, <2>1 DEF TypeOK
<1>7. \A q \in Procs \ {p} : \A l \in Keys \cup {Meta} : Owns(q, l)' => Owns(q, l)
  BY <1>1, <1>2, <1>3 DEF Owns
<1>8. /\ j.op = proc[p].op /\ j.held = proc[p].held /\ j.answer = proc[p].answer
      /\ j.pc = (IF At(p, "meta") THEN "bump" ELSE "held") /\ j.pc \in {"bump", "held"}
      /\ At(p, "meta") => j.counters = meta
  BY <1>1 DEF Job
<1> HIDE DEF j, W
<1>9. CallStands(p)'
  BY <1>1, <1>2, <1>5, <1>8 DEF CallStands, At, Writing
<1>10. ASSUME NEW l \in Keys \cup {Meta}, Owns(p, l)' PROVE LockStands(p, l)'
  <2>1. l = W \/ Owns(p, l)
    BY <1>1, <1>2, <1>10 DEF Owns
  <2>2. CASE At(p, "meta")
    <3>1. l = Meta => LockStands(p, l)'
      BY <1>2, <1>5, <1>8, <2>2 DEF LockStands, At
    <3>2. ASSUME l # Meta PROVE LockStands(p, l)'
      <4>1. Owns(p, l) /\ LockStands(p, l)
        BY <1>1, <1>3, <2>1, <2>2, <3>2
      <4>2. l = Key(p) /\ (proc[p].held # None => Cell(l) = proc[p].held)
        BY <2>2, <3>2, <4>1 DEF LockStands, At, Writing
      <4> QED
        BY <1>2, <1>5, <1>8, <2>2, <3>2, <4>2 DEF LockStands, At, Key, Op, Cell, Writing
    <3> QED
      BY <3>1, <3>2
  <2>3. CASE ~At(p, "meta")
    <3>1. ~Owns(p, l) \/ l = W
      BY <1>1, <1>2, <2>3 DEF LockStands, At, Writing
    <3>2. l = Key(p) /\ l # Meta
      BY <1>1, <1>3, <2>1, <2>3, <3>1
    <3> QED
      BY <1>5, <1>8, <2>3, <3>2 DEF LockStands, Key, Op, Writing
  <2> QED
    BY <2>2, <2>3
<1>11. ~Reserving(p)'
  BY <1>5, <1>8 DEF Reserving
<1> QED
  BY <1>2, <1>5, <1>6, <1>7, <1>9, <1>10, <1>11, QuietStands DEF LockStands

(* A step that changes no lock, cell nor counter, and no job but its pc.   *)
LEMMA SeeStaleStep ==
  ASSUME IInv, NEW p \in Procs, SeeStale(p)
  PROVE  IInv'
<1>1. /\ TypeOK /\ CallStands(p) /\ proc[p] \in Job /\ proc[p].pc \in {"lock", "meta"}
      /\ UNCHANGED <<files, meta, locks, cache, lister, spent>>
  BY Facts DEF SeeStale, Waiting
<1>2. PICK pc \in {"meta stale", "lock stale"} :
        Go(p, pc) /\ pc = (IF At(p, "meta") THEN "meta stale" ELSE "lock stale")
  BY DEF SeeStale
<1>3. /\ proc' \in [Procs -> Job] /\ proc'[p] = [proc[p] EXCEPT !.pc = pc]
      /\ \A q \in Procs \ {p} : proc'[q] = proc[q]
  BY <1>1, <1>2, Goes
<1>4. TypeOK'
  BY <1>1, <1>3 DEF TypeOK
<1>5. /\ proc'[p].pc = pc /\ proc'[p].op = proc[p].op /\ proc'[p].held = proc[p].held
      /\ proc'[p].answer = proc[p].answer
  BY <1>1, <1>3 DEF Job
<1>6. CallStands(p)'
  BY <1>1, <1>2, <1>5 DEF CallStands, At, Writing
<1>7. \A q \in Procs : \A l \in Keys \cup {Meta} : Owns(q, l)' => Owns(q, l)
  BY <1>1 DEF Owns
<1>8. ~Reserving(p)'
  BY <1>2, <1>5 DEF Reserving
<1>9. \A l \in Keys \cup {Meta} : LockStands(p, l)'
  BY <1>1, <1>2, <1>5, <1>7, OwnerKeeps DEF At, Writing
<1> QED
  BY <1>1, <1>3, <1>4, <1>6, <1>7, <1>8, <1>9, QuietStands

LEMMA TakeOverStep ==
  ASSUME IInv, NEW p \in Procs, TakeOver(p)
  PROVE  IInv'
<1>1. /\ TypeOK /\ CallStands(p) /\ proc[p] \in Job
      /\ proc[p].pc \in {"lock stale", "meta stale"} /\ Key(p) \in Keys
      /\ locks \in [Keys \cup {Meta} -> Lock \cup {None}]
      /\ UNCHANGED <<files, meta, cache, lister, spent>>
      /\ locks' = [locks EXCEPT ![Wanted(p)] = None]
  BY Facts DEF TakeOver
<1>2. PICK pc \in {"meta", "lock"} :
        Go(p, pc) /\ pc = (IF At(p, "meta stale") THEN "meta" ELSE "lock")
  BY DEF TakeOver
<1>3. /\ proc' \in [Procs -> Job] /\ proc'[p] = [proc[p] EXCEPT !.pc = pc]
      /\ \A q \in Procs \ {p} : proc'[q] = proc[q]
  BY <1>1, <1>2, Goes
<1>4. TypeOK'
  <2>1. locks' \in [Keys \cup {Meta} -> Lock \cup {None}]
    BY <1>1
  <2> QED
    BY <1>1, <1>3, <2>1 DEF TypeOK
<1>5. /\ proc'[p].pc = pc /\ proc'[p].op = proc[p].op /\ proc'[p].held = proc[p].held
      /\ proc'[p].answer = proc[p].answer
  BY <1>1, <1>3 DEF Job
<1>6. CallStands(p)'
  BY <1>1, <1>2, <1>5 DEF CallStands, At, Writing
<1>7. \A q \in Procs : \A l \in Keys \cup {Meta} : Owns(q, l)' => Owns(q, l)
  BY <1>1 DEF Owns
<1>8. ~Reserving(p)'
  BY <1>2, <1>5 DEF Reserving
<1>9. \A l \in Keys \cup {Meta} : LockStands(p, l)'
  BY <1>1, <1>2, <1>5, <1>7, OwnerKeeps DEF At, Writing
<1> QED
  BY <1>1, <1>3, <1>4, <1>6, <1>7, <1>8, <1>9, QuietStands

(* A call that has its answer, and changes nothing else.                   *)
LEMMA AnswerStands ==
  ASSUME IInv, NEW p \in Procs, NEW a \in Results, Answered(p, "release", a),
         proc[p].pc \notin {"idle", "bump", "unlock meta"},
         UNCHANGED <<files, meta, locks, cache, lister, spent>>
  PROVE  IInv'
<1>1. TypeOK /\ CallStands(p) /\ proc[p] \in Job /\ a # None
  BY Facts, Absence
<1>2. /\ proc' \in [Procs -> Job]
      /\ proc'[p] = [proc[p] EXCEPT !.pc = "release", !.answer = a]
      /\ \A q \in Procs \ {p} : proc'[q] = proc[q]
  BY <1>1, Answers
<1>3. TypeOK'
  BY <1>1, <1>2 DEF TypeOK
<1>4. /\ proc'[p].pc = "release" /\ proc'[p].op = proc[p].op /\ proc'[p].held = proc[p].held
      /\ proc'[p].answer = a
  BY <1>1, <1>2 DEF Job
<1>5. CallStands(p)'
  BY <1>1, <1>4 DEF CallStands, Writing
<1>6. \A q \in Procs : \A l \in Keys \cup {Meta} : Owns(q, l)' => Owns(q, l)
  BY DEF Owns
<1>7. ~Reserving(p)'
  BY <1>4 DEF Reserving
<1>8. \A l \in Keys \cup {Meta} : LockStands(p, l)'
  BY <1>4, <1>6, OwnerKeeps
<1> QED
  BY <1>2, <1>3, <1>5, <1>6, <1>7, <1>8, QuietStands

LEMMA GiveUpStep ==
  ASSUME IInv, NEW p \in Procs, GiveUp(p)
  PROVE  IInv'
BY AnswerFacts, AnswerStands DEF GiveUp, Waiting

LEMMA LookStep ==
  ASSUME IInv, NEW p \in Procs, Look(p)
  PROVE  IInv'
<1>1. /\ TypeOK /\ CallStands(p) /\ proc[p] \in Job /\ proc[p].pc = "look"
      /\ Key(p) \in Keys /\ Cell(Key(p)) \in Written(Ops) \cup {None}
      /\ UNCHANGED <<files, meta, locks, cache, lister, spent>>
      /\ Op(p).kind \in Kinds
  BY Facts, CellFacts, OpFacts DEF Look, At
<1>2. CASE Answered(p, "release", Answer(Op(p), Cell(Key(p))))
  BY <1>1, <1>2, AnswerFacts, AnswerStands
<1>3. CASE Go(p, IF Op(p).kind = "create" THEN "meta" ELSE "lock")
  <2>1. PICK pc \in {"meta", "lock"} :
          Go(p, pc) /\ pc = IF Op(p).kind = "create" THEN "meta" ELSE "lock"
    BY <1>3
  <2>2. /\ proc' \in [Procs -> Job] /\ proc'[p] = [proc[p] EXCEPT !.pc = pc]
        /\ \A q \in Procs \ {p} : proc'[q] = proc[q]
    BY <1>1, <2>1, Goes
  <2>3. TypeOK'
    BY <1>1, <2>2 DEF TypeOK
  <2>4. /\ proc'[p].pc = pc /\ proc'[p].op = proc[p].op /\ proc'[p].held = proc[p].held
        /\ proc'[p].answer = proc[p].answer
    BY <1>1, <2>2 DEF Job
  <2>5. CallStands(p)'
    BY <1>1, <2>1, <2>4 DEF CallStands, Writing, Applies, Op
  <2>6. \A q \in Procs : \A l \in Keys \cup {Meta} : Owns(q, l)' => Owns(q, l)
    BY <1>1 DEF Owns
  <2>7. ~Reserving(p)'
    BY <2>1, <2>4 DEF Reserving
  <2>8. \A l \in Keys \cup {Meta} : LockStands(p, l)'
    BY <1>1, <2>4, <2>6, OwnerKeeps DEF Writing
  <2> QED
    BY <1>1, <2>2, <2>3, <2>5, <2>6, <2>7, <2>8, QuietStands
<1> QED
  BY <1>2, <1>3 DEF Look

LEMMA ReadHeldStep ==
  ASSUME IInv, NEW p \in Procs, ReadHeld(p)
  PROVE  IInv'
<1> DEFINE c == Cell(Key(p))
           j == [proc[p] EXCEPT !.pc = "meta", !.held = c]
<1>1. /\ TypeOK /\ CallStands(p) /\ proc[p] \in Job /\ proc[p].pc = "held"
      /\ Key(p) \in Keys /\ c \in Written(Ops) \cup {None}
      /\ UNCHANGED <<files, meta, locks, cache, lister, spent>>
      /\ \A l \in Keys \cup {Meta} : LockStands(p, l)
  BY Facts, CellFacts DEF ReadHeld, At
<1>2. CASE Answered(p, "release", Answer(Op(p), c))
  BY <1>1, <1>2, AnswerFacts, AnswerStands
<1>3. CASE Applies(Op(p), c) /\ proc' = [proc EXCEPT ![p].pc = "meta", ![p].held = c]
  <2>1. j \in Job /\ proc' = [proc EXCEPT ![p] = j]
    BY <1>1, <1>3 DEF Job, TypeOK
  <2>2. /\ proc' \in [Procs -> Job] /\ proc'[p] = j
        /\ \A q \in Procs \ {p} : proc'[q] = proc[q]
    BY <1>1, <2>1, Puts
  <2>3. TypeOK'
    BY <1>1, <2>2 DEF TypeOK
  <2>4. /\ proc'[p].pc = "meta" /\ proc'[p].op = proc[p].op /\ proc'[p].held = c
        /\ proc'[p].answer = proc[p].answer
    BY <1>1, <2>2 DEF Job
  <2>5. CallStands(p)'
    BY <1>1, <1>3, <2>4 DEF CallStands, Writing, Op
  <2>6. \A q \in Procs : \A l \in Keys \cup {Meta} : Owns(q, l)' => Owns(q, l)
    BY <1>1 DEF Owns
  <2>7. ~Reserving(p)'
    BY <2>4 DEF Reserving
  <2>8. ASSUME NEW l \in Keys \cup {Meta}, Owns(p, l)' PROVE LockStands(p, l)'
    <3>1. LockStands(p, l) /\ Owns(p, l)
      BY <1>1, <2>6, <2>8
    <3>2. l # Meta /\ l = Key(p)
      BY <1>1, <3>1 DEF LockStands, At
    <3>3. Key(p)' = Key(p) /\ Cell(l)' = c
      BY <1>1, <2>4, <3>2 DEF Key, Op, Cell
    <3> QED
      BY <2>4, <3>2, <3>3 DEF LockStands, Writing
  <2> QED
    BY <1>1, <2>2, <2>3, <2>5, <2>6, <2>7, <2>8, QuietStands DEF LockStands
<1> QED
  BY <1>2, <1>3 DEF ReadHeld

LEMMA ReadWinnerStep ==
  ASSUME IInv, NEW p \in Procs, ReadWinner(p)
  PROVE  IInv'
<1>1. TypeOK /\ Key(p) \in Keys /\ Cell(Key(p)) \in Written(Ops) \cup {None}
  BY Facts, CellFacts DEF ReadWinner, At
<1>2. PICK a \in Results : Answered(p, "release", a)
  BY <1>1, AnswerFacts DEF ReadWinner
<1> QED
  BY <1>2, AnswerStands DEF ReadWinner, At

LEMMA CommitReplaceStep ==
  ASSUME IInv, NEW p \in Procs, CommitReplace(p)
  PROVE  IInv'
<1> DEFINE c == Effect(Op(p), proc[p].held)
           a == Answer(Op(p), proc[p].held)
<1>1. /\ TypeOK /\ CallStands(p) /\ proc[p] \in Job /\ proc[p].pc = "publish"
      /\ Op(p) \in OpsOf[p] /\ Key(p) \in Keys /\ proc[p].held # None
      /\ UNCHANGED <<meta, locks, cache, lister, spent>>
      /\ Meta \notin Keys /\ LockStands(p, Key(p)) /\ LockStands(p, Meta)
      /\ \A l \in Keys \cup {Meta} : LockStands(p, l)
  BY Facts DEF CommitReplace, At
<1>2. CASE Answered(p, "release", Unavailable) /\ UNCHANGED files
  BY <1>1, <1>2, AnswerFacts, AnswerStands
<1>3. CASE /\ Verified(p, Key(p)) /\ Answered(p, "release", a)
           /\ files' = [files EXCEPT ![Key(p)].cell = c]
  <2>1. Applies(Op(p), proc[p].held) /\ proc[p].held \in Written(Ops)
    BY <1>1 DEF CallStands, Writing, Op, Job
  <2>2. Owns(p, Key(p)) /\ Cell(Key(p)) = proc[p].held
    BY <1>1, <1>3 DEF Verified, LockStands, Writing
  <2>3. /\ c \in Written(Ops) /\ Live(proc[p].held) /\ c # None
    BY <1>1, <2>1, EffectFacts, Absence
  <2>4. a \in Results /\ a # None
    BY <2>1, AnswerFacts
  <2> HIDE DEF c, a
  <2>5. files' \in [Keys -> File]
        /\ \A k \in Keys : /\ files'[k].index = files[k].index
                            /\ files'[k].cell = IF k = Key(p) THEN c ELSE files[k].cell
    BY <1>1, <1>3, <2>3 DEF TypeOK, File
  <2>6. /\ proc' \in [Procs -> Job]
        /\ proc'[p] = [proc[p] EXCEPT !.pc = "release", !.answer = a]
        /\ \A q \in Procs \ {p} : proc'[q] = proc[q]
    BY <1>1, <1>3, <2>4, Answers
  <2>7. TypeOK'
    BY <1>1, <2>5, <2>6 DEF TypeOK
  <2>8. /\ proc'[p].pc = "release" /\ proc'[p].op = proc[p].op /\ proc'[p].answer = a
    BY <1>1, <2>6 DEF Job
  <2>9. CallStands(p)'
    BY <1>1, <2>4, <2>8 DEF CallStands, Writing
  <2>10. \A q \in Procs : \A l \in Keys \cup {Meta} : Owns(q, l)' => Owns(q, l)
    BY <1>1 DEF Owns
  <2>11. \A l \in Keys \cup {Meta} : LockStands(p, l)'
    BY <1>1, <2>8, <2>10 DEF LockStands, Key, Op, Writing, At
  <2>12. Present' = Present
    BY <2>2, <2>3, <2>5 DEF Present, Cell, Live, Form
  <2>13. ~Reserving(p)'
    BY <2>8 DEF Reserving
  <2>14. IndexStands'
    BY <1>1, <2>5, <2>6, <2>12, <2>13, IndexKept DEF Present
  <2>15. ProcFrame(p)
    <3>1. \A k \in Keys : Kept(k) /\ (Cell(k)' = Cell(k) \/ Owns(p, k))
      BY <2>2, <2>3, <2>5 DEF Kept, Cell
    <3> QED
      BY <1>1, <2>6, <2>10, <3>1 DEF ProcFrame
  <2> QED
    BY <1>1, <2>7, <2>9, <2>11, <2>14, <2>15, ProcStands
<1> QED
  BY <1>1, <1>2, <1>3 DEF CommitReplace

LEMMA ReserveWriteStep ==
  ASSUME IInv, NEW p \in Procs, ReserveWrite(p)
  PROVE  IInv'
<1> DEFINE c == proc[p].counters
           new == proc[p].held = None
           j == [proc[p] EXCEPT !.pc = "unlock meta", !.counters = None,
                                !.index = IF new THEN c.next ELSE 0]
           k == [proc[p] EXCEPT !.pc = "unlock meta", !.answer = Unavailable]
<1>1. /\ TypeOK /\ CallStands(p) /\ proc[p] \in Job /\ proc[p].pc = "bump"
      /\ UNCHANGED <<files, locks, cache, lister, spent>>
      /\ Meta \notin Keys /\ \A l \in Keys \cup {Meta} : LockStands(p, l)
  BY Facts DEF ReserveWrite, At
<1>2. \A q \in Procs : \A l \in Keys \cup {Meta} : Owns(q, l)' => Owns(q, l)
  BY <1>1 DEF Owns
<1>3. CASE Answered(p, "unlock meta", Unavailable) /\ UNCHANGED meta
  <2>1. Unavailable \in Results /\ Unavailable # None
    BY AnswerFacts
  <2>2. k \in Job /\ proc' = [proc EXCEPT ![p] = k]
    BY <1>1, <1>3, <2>1 DEF Job, TypeOK, Answered
  <2>3. /\ proc' \in [Procs -> Job] /\ proc'[p] = k
        /\ \A q \in Procs \ {p} : proc'[q] = proc[q]
    BY <1>1, <2>2, Puts
  <2>4. TypeOK'
    BY <1>1, <1>3, <2>3 DEF TypeOK
  <2>5. /\ proc'[p].pc = "unlock meta" /\ proc'[p].op = proc[p].op
        /\ proc'[p].held = proc[p].held /\ proc'[p].answer = Unavailable
    BY <1>1, <2>3 DEF Job
  <2>6. CallStands(p)'
    BY <1>1, <2>5 DEF CallStands, Writing
  <2>7. ~Reserving(p)'
    BY <2>1, <2>5 DEF Reserving
  <2>8. \A l \in Keys \cup {Meta} : LockStands(p, l)'
    BY <1>1, <1>2, <1>3, <2>5, OwnerKeeps DEF Writing
  <2> QED
    BY <1>1, <1>2, <1>3, <2>3, <2>4, <2>6, <2>7, <2>8, QuietStands
<1>4. CASE /\ Verified(p, Meta)
           /\ meta' = [next |-> c.next + (IF new THEN 1 ELSE 0), writes |-> c.writes + 1]
           /\ proc' = [proc EXCEPT ![p].pc = "unlock meta", ![p].counters = None,
                                   ![p].index = IF new THEN c.next ELSE 0]
  <2>1. Owns(p, Meta) /\ c = meta /\ meta \in Counters
    BY <1>1, <1>4 DEF Verified, LockStands, At, TypeOK
  <2>2. /\ meta' \in Counters /\ meta.next <= meta'.next
        /\ new => meta'.next = meta.next + 1
    <3>1. /\ meta.next \in Nat /\ meta.writes \in Nat
          /\ meta.next + (IF new THEN 1 ELSE 0) \in Nat /\ meta.writes + 1 \in Nat
      BY <2>1 DEF Counters
    <3> HIDE DEF c, new
    <3>2. /\ meta'.next = meta.next + (IF new THEN 1 ELSE 0)
          /\ meta'.writes = meta.writes + 1 /\ meta' \in Counters
      BY <1>4, <2>1, <3>1 DEF Counters
    <3> QED
      BY <3>1, <3>2
  <2>3. j \in Job /\ proc' = [proc EXCEPT ![p] = j]
    <3>1. (IF new THEN c.next ELSE 0) \in Nat
      BY <2>1 DEF Counters
    <3> HIDE DEF c, new
    <3>2. j \in Job
      BY <1>1, <3>1 DEF Job
    <3>3. proc' = [proc EXCEPT ![p] = j]
      BY <1>1, <1>4 DEF TypeOK
    <3> QED
      BY <3>2, <3>3
  <2>4. /\ proc' \in [Procs -> Job] /\ proc'[p] = j
        /\ \A q \in Procs \ {p} : proc'[q] = proc[q]
    BY <1>1, <2>3, Puts
  <2>5. TypeOK'
    BY <1>1, <2>2, <2>4 DEF TypeOK
  <2>6. /\ proc'[p].pc = "unlock meta" /\ proc'[p].op = proc[p].op
        /\ proc'[p].held = proc[p].held /\ proc'[p].answer = proc[p].answer
        /\ new => proc'[p].index = meta.next
    BY <1>1, <2>1, <2>4 DEF Job
  <2>7. CallStands(p)'
    BY <1>1, <2>6 DEF CallStands, Writing
  <2>8. ASSUME NEW l \in Keys \cup {Meta}, Owns(p, l)' PROVE LockStands(p, l)'
    <3>1. LockStands(p, l) /\ Owns(p, l)
      BY <1>1, <1>2, <2>8
    <3>2. CASE l = Meta
      BY <2>6, <3>2 DEF LockStands, At
    <3>3. CASE l # Meta
      <4>1. l = Key(p) /\ (proc[p].held # None => Cell(l) = proc[p].held)
        BY <1>1, <3>1, <3>3 DEF LockStands, Writing
      <4> QED
        BY <1>1, <2>6, <3>3, <4>1 DEF LockStands, Key, Op, Cell, Writing
    <3> QED
      BY <3>2, <3>3
  <2>9. IndexStands'
    <3>1. IndexStands /\ Present' = Present /\ files' = files
      BY <1>1 DEF IInv, Present, Cell
    <3>2. \A k1 \in Present : files[k1].index \in Nat
      BY <1>1, CellFacts DEF Present
    <3>3. meta.next \in Nat /\ meta'.next \in Nat
      BY <2>1, <2>2 DEF Counters
    <3>4. \A q \in Procs : proc[q].index \in Nat
      BY <1>1 DEF TypeOK, Job
    <3>5. \A q \in Procs \ {p} : (Reserving(q)' <=> Reserving(q)) /\ proc'[q].index = proc[q].index
      BY <2>4 DEF Reserving
    <3>6. Reserving(p)' => new /\ proc'[p].index = meta.next
      BY <2>6 DEF Reserving
    <3>7. \A k1 \in Present : files[k1].index < meta'.next
      BY <2>2, <3>1, <3>2, <3>3 DEF IndexStands
    <3>8. ASSUME NEW q \in Procs, Reserving(q)'
          PROVE  /\ proc'[q].index < meta'.next
                 /\ \A k1 \in Present : files[k1].index # proc'[q].index
                 /\ \A r \in Procs : Reserving(r)' /\ proc'[r].index = proc'[q].index => q = r
      <4>1. CASE q = p
        <5>1. proc'[q].index = meta.next /\ meta'.next = meta.next + 1
          BY <2>2, <3>6, <3>8, <4>1
        <5>2. \A k1 \in Present : files[k1].index # meta.next
          BY <3>1, <3>2, <3>3 DEF IndexStands
        <5>3. \A r \in Procs \ {p} : Reserving(r)' => proc'[r].index # meta.next
          BY <3>1, <3>3, <3>4, <3>5 DEF IndexStands
        <5> QED
          BY <3>3, <4>1, <5>1, <5>2, <5>3
      <4>2. CASE q # p
        <5>1. /\ Reserving(q) /\ proc'[q].index = proc[q].index /\ proc[q].index < meta.next
              /\ \A k1 \in Present : files[k1].index # proc[q].index
              /\ \A r \in Procs : Reserving(r) /\ proc[r].index = proc[q].index => q = r
          BY <3>1, <3>5, <3>8, <4>2 DEF IndexStands
        <5>2. proc[q].index < meta'.next
          BY <2>2, <3>3, <3>4, <5>1
        <5>3. \A r \in Procs : Reserving(r)' /\ proc'[r].index = proc[q].index => q = r
          <6> SUFFICES ASSUME NEW r \in Procs, Reserving(r)', proc'[r].index = proc[q].index
                       PROVE  q = r
            OBVIOUS
          <6>1. r # p
            BY <3>3, <3>4, <3>6, <5>1
          <6> QED
            BY <3>5, <5>1, <6>1
        <5> QED
          BY <5>1, <5>2, <5>3
      <4> QED
        BY <4>1, <4>2
    <3> QED
      BY <3>1, <3>7, <3>8 DEF IndexStands
  <2>10. ProcFrame(p)
    BY <1>1, <1>2, <2>1, <2>4 DEF ProcFrame, Kept, Cell
  <2> QED
    BY <1>1, <2>5, <2>7, <2>8, <2>9, <2>10, ProcStands DEF LockStands
<1> QED
  BY <1>3, <1>4 DEF ReserveWrite

(* A lock let go, or left to the dead, is owned by nobody.                 *)
LEMMA Released ==
  ASSUME IInv, NEW p \in Procs, NEW l \in Keys \cup {Meta}, ReleaseLock(p, l)
  PROVE  /\ locks' \in [Keys \cup {Meta} -> Lock \cup {None}] /\ ~Owns(p, l)'
         /\ \A q \in Procs : \A m \in Keys \cup {Meta} : Owns(q, m)' => Owns(q, m)
<1>1. locks \in [Keys \cup {Meta} -> Lock \cup {None}]
  BY Facts
<1>2. locks' = [locks EXCEPT ![l] = IF Owns(p, l) THEN None ELSE locks[l]]
  BY DEF ReleaseLock
<1> QED
  BY <1>1, <1>2 DEF Owns

LEMMA ReleaseMetaStep ==
  ASSUME IInv, NEW p \in Procs, ReleaseMeta(p)
  PROVE  IInv'
<1>1. /\ TypeOK /\ CallStands(p) /\ proc[p] \in Job /\ proc[p].pc = "unlock meta"
      /\ UNCHANGED <<files, meta, cache, lister, spent>> /\ ReleaseLock(p, Meta)
      /\ Meta \notin Keys /\ \A l \in Keys \cup {Meta} : LockStands(p, l)
  BY Facts DEF ReleaseMeta, At
<1>2. PICK pc \in {"publish", "release"} :
        Go(p, pc) /\ pc = IF proc[p].answer = None THEN "publish" ELSE "release"
  BY DEF ReleaseMeta
<1>3. /\ proc' \in [Procs -> Job] /\ proc'[p] = [proc[p] EXCEPT !.pc = pc]
      /\ \A q \in Procs \ {p} : proc'[q] = proc[q]
  BY <1>1, <1>2, Goes
<1>4. /\ locks' \in [Keys \cup {Meta} -> Lock \cup {None}] /\ ~Owns(p, Meta)'
      /\ \A q \in Procs : \A m \in Keys \cup {Meta} : Owns(q, m)' => Owns(q, m)
  BY <1>1, Released
<1>5. TypeOK'
  BY <1>1, <1>3, <1>4 DEF TypeOK
<1>6. /\ proc'[p].pc = pc /\ proc'[p].op = proc[p].op /\ proc'[p].held = proc[p].held
      /\ proc'[p].answer = proc[p].answer /\ proc'[p].index = proc[p].index
  BY <1>1, <1>3 DEF Job
<1>7. CallStands(p)'
  BY <1>1, <1>2, <1>6 DEF CallStands, Writing
<1>8. \A l \in Keys \cup {Meta} : LockStands(p, l)'
  BY <1>1, <1>2, <1>4, <1>6, OwnerKeeps DEF Writing
<1>9. Reserving(p)' => Reserving(p) /\ proc'[p].index = proc[p].index
  BY <1>1, <1>6 DEF Reserving
<1> QED
  BY <1>1, <1>3, <1>4, <1>5, <1>7, <1>8, <1>9, QuietStands

LEMMA CommitCreateStep ==
  ASSUME IInv, NEW p \in Procs, CommitCreate(p)
  PROVE  IInv'
<1> DEFINE c == Effect(Op(p), None)
           a == Answer(Op(p), None)
<1>1. /\ TypeOK /\ CallStands(p) /\ proc[p] \in Job /\ proc[p].pc = "publish"
      /\ Op(p) \in OpsOf[p] /\ Key(p) \in Keys /\ proc[p].held = None
      /\ UNCHANGED <<meta, locks, cache, lister, spent>>
      /\ Meta \notin Keys /\ \A l \in Keys \cup {Meta} : LockStands(p, l)
  BY Facts DEF CommitCreate, At
<1>2. \A q \in Procs : \A l \in Keys \cup {Meta} : Owns(q, l)' => Owns(q, l)
  BY <1>1 DEF Owns
<1>3. CASE Cell(Key(p)) # None /\ Go(p, "winner") /\ UNCHANGED files
  <2>1. /\ proc' \in [Procs -> Job] /\ proc'[p] = [proc[p] EXCEPT !.pc = "winner"]
        /\ \A q \in Procs \ {p} : proc'[q] = proc[q]
    <3>1. [proc[p] EXCEPT !.pc = "winner"] \in Job
      BY <1>1 DEF Job
    <3>2. proc' = [proc EXCEPT ![p] = [proc[p] EXCEPT !.pc = "winner"]]
      BY <1>3 DEF Go
    <3> QED
      BY <1>1, <3>1, <3>2, Puts
  <2>2. TypeOK'
    BY <1>1, <1>3, <2>1 DEF TypeOK
  <2>3. /\ proc'[p].pc = "winner" /\ proc'[p].op = proc[p].op
        /\ proc'[p].held = proc[p].held /\ proc'[p].answer = proc[p].answer
    BY <1>1, <2>1 DEF Job
  <2>4. CallStands(p)'
    BY <1>1, <1>3, <2>3 DEF CallStands, Writing, Cell, Key, Op
  <2>5. \A l \in Keys \cup {Meta} : LockStands(p, l)'
    BY <1>1, <1>2, <1>3, <2>3, OwnerKeeps DEF Writing
  <2>6. ~Reserving(p)'
    BY <2>3 DEF Reserving
  <2> QED
    BY <1>1, <1>2, <1>3, <2>1, <2>2, <2>4, <2>5, <2>6, QuietStands
<1>4. CASE Cell(Key(p)) = None /\ Link(Key(p), c, proc[p].index) /\ Answered(p, "release", a)
  <2>1. Applies(Op(p), None) /\ proc[p].answer = None
    BY <1>1 DEF CallStands, Writing, Op
  <2>2. c \in Written(Ops) /\ c # None
    BY <1>1, <2>1, EffectFacts, Absence
  <2>3. a \in Results /\ a # None
    BY AnswerFacts
  <2> HIDE DEF c, a
  <2>4. proc[p].index \in Nat /\ files \in [Keys -> File]
    BY <1>1 DEF Job, TypeOK
  <2>5. /\ files' \in [Keys -> File]
        /\ files'[Key(p)].cell = c /\ files'[Key(p)].index = proc[p].index
        /\ \A k \in Keys \ {Key(p)} : files'[k] = files[k]
    BY <1>1, <1>4, <2>2, <2>4 DEF Link, File
  <2>6. /\ proc' \in [Procs -> Job]
        /\ proc'[p] = [proc[p] EXCEPT !.pc = "release", !.answer = a]
        /\ \A q \in Procs \ {p} : proc'[q] = proc[q]
    BY <1>1, <1>4, <2>3, Answers
  <2>7. TypeOK'
    BY <1>1, <2>5, <2>6 DEF TypeOK
  <2>8. /\ proc'[p].pc = "release" /\ proc'[p].op = proc[p].op /\ proc'[p].answer = a
    BY <1>1, <2>6 DEF Job
  <2>9. CallStands(p)'
    BY <1>1, <2>3, <2>8 DEF CallStands, Writing
  <2>10. \A l \in Keys \cup {Meta} : LockStands(p, l)'
    BY <1>1, <1>2, <2>8 DEF LockStands, Key, Op, Writing, At
  <2>11. ProcFrame(p)
    <3>1. \A k \in Keys : Kept(k) /\ (Cell(k)' = Cell(k) \/ Cell(k) = None)
      BY <1>4, <2>5 DEF Kept, Cell
    <3> QED
      BY <1>1, <1>2, <2>6, <3>1 DEF ProcFrame
  <2>12. IndexStands'
    <3>1. IndexStands /\ Reserving(p) /\ ~Reserving(p)' /\ meta' = meta
      BY <1>1, <2>1, <2>8 DEF IInv, Reserving
    <3>2. Present' = Present \cup {Key(p)} /\ Key(p) \notin Present
      BY <1>1, <1>4, <2>2, <2>5 DEF Present, Cell
    <3>3. \A k \in Present : files'[k].index = files[k].index
      BY <2>5, <3>2 DEF Present
    <3>4. \A q \in Procs \ {p} : (Reserving(q)' <=> Reserving(q)) /\ proc'[q].index = proc[q].index
      BY <2>6 DEF Reserving
    <3>5. /\ proc[p].index < meta.next
          /\ \A k \in Present : files[k].index # proc[p].index
          /\ \A q \in Procs \ {p} : Reserving(q) => proc[q].index # proc[p].index
      BY <3>1 DEF IndexStands
    <3>6. \A k \in Present' : files'[k].index < meta.next
      BY <2>5, <3>1, <3>2, <3>3, <3>5 DEF IndexStands
    <3>7. \A j, k \in Present' : files'[j].index = files'[k].index => j = k
      <4>1. \A j, k \in Present : files'[j].index = files'[k].index => j = k
        BY <3>1, <3>3 DEF IndexStands
      <4>2. \A j \in Present : files'[j].index # files'[Key(p)].index
        BY <2>5, <3>3, <3>5
      <4> QED
        BY <3>2, <4>1, <4>2
    <3>8. ASSUME NEW q \in Procs, Reserving(q)'
          PROVE  /\ proc'[q].index < meta.next
                 /\ \A k \in Present' : files'[k].index # proc'[q].index
                 /\ \A r \in Procs : Reserving(r)' /\ proc'[r].index = proc'[q].index => q = r
      <4>1. q # p /\ Reserving(q) /\ proc'[q].index = proc[q].index
        BY <3>1, <3>4, <3>8
      <4>2. \A k \in Present' : files'[k].index # proc[q].index
        BY <2>5, <3>1, <3>2, <3>3, <3>5, <4>1 DEF IndexStands
      <4>3. \A r \in Procs : Reserving(r)' /\ proc'[r].index = proc[q].index => q = r
        BY <3>1, <3>4, <4>1 DEF IndexStands
      <4> QED
        BY <3>1, <4>1, <4>2, <4>3 DEF IndexStands
    <3> QED
      BY <3>1, <3>6, <3>7, <3>8 DEF IndexStands
  <2> QED
    BY <1>1, <2>7, <2>9, <2>10, <2>11, <2>12, ProcStands
<1> QED
  BY <1>1, <1>3, <1>4 DEF CommitCreate

(* A call ends: its process owns nothing any more.                         *)
LEMMA EndStands ==
  ASSUME IInv, NEW p \in Procs, proc' = [proc EXCEPT ![p] = Idle],
         UNCHANGED <<files, meta, cache, lister>>,
         spent' \in [calls : Nat, mishaps : Nat, listings : Nat],
         locks' \in [Keys \cup {Meta} -> Lock \cup {None}],
         \A l \in Keys \cup {Meta} : ~Owns(p, l)',
         \A q \in Procs : \A l \in Keys \cup {Meta} : Owns(q, l)' => Owns(q, l)
  PROVE  IInv'
<1>1. TypeOK /\ Idle \in Job
  BY DEF IInv, Idle, Job
<1>2. /\ proc' \in [Procs -> Job] /\ proc'[p] = Idle
      /\ \A q \in Procs \ {p} : proc'[q] = proc[q]
  BY <1>1, Puts
<1>3. TypeOK'
  BY <1>1, <1>2 DEF TypeOK
<1>4. CallStands(p)' /\ ~Reserving(p)'
  BY <1>2 DEF CallStands, Reserving, Idle, Writing
<1> QED
  BY <1>2, <1>3, <1>4, QuietStands DEF LockStands

LEMMA ReleaseStep ==
  ASSUME IInv, NEW p \in Procs, Release(p)
  PROVE  IInv'
<1>1. /\ TypeOK /\ proc[p].pc = "release" /\ Key(p) \in Keys
      /\ proc' = [proc EXCEPT ![p] = Idle] /\ UNCHANGED <<files, meta, cache, lister, spent>>
      /\ ReleaseLock(p, Key(p)) /\ \A l \in Keys \cup {Meta} : LockStands(p, l)
  BY Facts DEF Release, At
<1>2. PICK k \in Keys : k = Key(p)
  BY <1>1
<1>3. /\ locks' \in [Keys \cup {Meta} -> Lock \cup {None}] /\ ~Owns(p, k)'
      /\ \A q \in Procs : \A m \in Keys \cup {Meta} : Owns(q, m)' => Owns(q, m)
  BY <1>1, <1>2, Released
<1>4. \A l \in Keys \cup {Meta} : ~Owns(p, l)'
  <2>1. \A l \in Keys \cup {Meta} : Owns(p, l) => l = k
    BY <1>1, <1>2 DEF LockStands, At
  <2> QED
    BY <1>3, <2>1
<1>5. spent' \in [calls : Nat, mishaps : Nat, listings : Nat]
  BY <1>1 DEF TypeOK
<1> QED
  BY <1>1, <1>3, <1>4, <1>5, EndStands

LEMMA CrashStep ==
  ASSUME IInv, NEW p \in Procs, Crash(p)
  PROVE  IInv'
<1>1. /\ TypeOK /\ locks \in [Keys \cup {Meta} -> Lock \cup {None}]
      /\ spent \in [calls : Nat, mishaps : Nat, listings : Nat]
  BY Facts DEF TypeOK
<1>2. /\ proc' = [proc EXCEPT ![p] = Idle] /\ UNCHANGED <<files, meta, cache, lister>>
      /\ spent' = [spent EXCEPT !.mishaps = @ + 1]
      /\ locks' = [l \in DOMAIN locks |->
                     IF Owns(p, l) THEN [locks[l] EXCEPT !.owner = Dead] ELSE locks[l]]
  BY DEF Crash
<1>3. spent' \in [calls : Nat, mishaps : Nat, listings : Nat]
  <2>1. spent.mishaps + 1 \in Nat
    BY <1>1
  <2> QED
    BY <1>1, <1>2, <2>1
<1>4. \A l \in Keys \cup {Meta} :
        /\ Owns(p, l) => locks'[l] \in Lock /\ locks'[l].owner = Dead
        /\ ~Owns(p, l) => locks'[l] = locks[l]
  BY <1>1, <1>2 DEF Owns, Lock
<1>5. locks' \in [Keys \cup {Meta} -> Lock \cup {None}]
  BY <1>1, <1>2, <1>4
<1>6. Dead \notin Procs
  BY FileStoreAssumption
<1>7. /\ \A l \in Keys \cup {Meta} : ~Owns(p, l)'
      /\ \A q \in Procs : \A l \in Keys \cup {Meta} : Owns(q, l)' => Owns(q, l)
  BY <1>4, <1>6 DEF Owns
<1> QED
  BY <1>2, <1>3, <1>5, <1>7, EndStands

LEMMA CallStep ==
  ASSUME IInv, NEW p \in Procs, Call(p)
  PROVE  IInv'
<1>1. /\ TypeOK /\ CallStands(p) /\ proc[p].pc = "idle"
      /\ spent \in [calls : Nat, mishaps : Nat, listings : Nat]
      /\ UNCHANGED <<files, meta, locks, cache, lister>>
      /\ \A l \in Keys \cup {Meta} : LockStands(p, l)
  BY Facts DEF TypeOK, Call, At
<1>2. PICK op \in OpsOf[p] : proc' = [proc EXCEPT ![p] = [Idle EXCEPT !.pc = "look", !.op = op]]
  BY DEF Call
<1>3. [Idle EXCEPT !.pc = "look", !.op = op] \in Job
  BY OpFacts DEF Idle, Job
<1>4. /\ proc' \in [Procs -> Job] /\ proc'[p] = [Idle EXCEPT !.pc = "look", !.op = op]
      /\ \A q \in Procs \ {p} : proc'[q] = proc[q]
  BY <1>1, <1>2, <1>3, Puts
<1>5. spent' \in [calls : Nat, mishaps : Nat, listings : Nat]
  <2>1. spent.calls + 1 \in Nat /\ spent' = [spent EXCEPT !.calls = @ + 1]
    BY <1>1 DEF Call
  <2> QED
    BY <1>1, <2>1
<1>6. TypeOK'
  BY <1>1, <1>4, <1>5 DEF TypeOK
<1>7. CallStands(p)' /\ ~Reserving(p)'
  BY <1>4 DEF CallStands, Reserving, Idle, Writing
<1>8. \A q \in Procs : \A l \in Keys \cup {Meta} : Owns(q, l)' => Owns(q, l)
  BY <1>1 DEF Owns
<1>9. \A l \in Keys \cup {Meta} : ~Owns(p, l)
  BY <1>1 DEF LockStands, At, Writing
<1> QED
  BY <1>1, <1>4, <1>6, <1>7, <1>8, <1>9, QuietStands DEF LockStands

(* A lock expires: its owner still owns it.                                *)
LEMMA ExpireStep ==
  ASSUME IInv, NEW l \in DOMAIN locks, Expire(l)
  PROVE  IInv'
<1>1. /\ TypeOK /\ locks \in [Keys \cup {Meta} -> Lock \cup {None}]
      /\ l \in Keys \cup {Meta} /\ locks[l] # None
      /\ locks' = [locks EXCEPT ![l].stale = TRUE] /\ UNCHANGED <<files, meta, proc, cache, lister>>
      /\ spent \in [calls : Nat, mishaps : Nat, listings : Nat]
  BY DEF IInv, TypeOK, Expire
<1>2. /\ locks' \in [Keys \cup {Meta} -> Lock \cup {None}]
      /\ \A q \in Procs : \A m \in Keys \cup {Meta} : Owns(q, m)' => Owns(q, m)
  BY <1>1 DEF Owns, Lock
<1>3. spent' \in [calls : Nat, mishaps : Nat, listings : Nat]
  <2>1. spent.mishaps + 1 \in Nat
    BY <1>1
  <2>2. spent' = spent \/ spent' = [spent EXCEPT !.mishaps = @ + 1]
    BY DEF Expire
  <2> QED
    BY <1>1, <2>1, <2>2
<1>4. TypeOK'
  BY <1>1, <1>2, <1>3 DEF TypeOK
<1>5. CallsStand'
  BY <1>1 DEF IInv, CallsStand, CallStands, Cell, Key, Op
<1>6. LocksStand'
  <2> SUFFICES ASSUME NEW p \in Procs, NEW m \in Keys \cup {Meta}, Owns(p, m)'
               PROVE  LockStands(p, m)'
    BY DEF LocksStand, LockStands
  <2>1. Owns(p, m) /\ LockStands(p, m)
    BY <1>2 DEF IInv, LocksStand
  <2> QED
    BY <1>1, <2>1 DEF LockStands, At, Cell, Key, Op
<1>7. IndexStands'
  BY <1>1 DEF IInv, IndexStands, Present, Cell, Reserving
<1>8. CacheStands' /\ ListStands'
  BY <1>1, ListingKept DEF Kept, Cell
<1> QED
  BY <1>4, <1>5, <1>6, <1>7, <1>8 DEF IInv

-------------------------------------------------------------------------------
(***************************************************************************)
(* The listing.                                                            *)
(***************************************************************************)

(* The order of insertion enumerates a set of cells: each once.  The place *)
(* of one is the number of those inserted before it.                       *)
LEMMA OrderEnumerates ==
  ASSUME TypeOK, IndexStands, NEW S \in SUBSET Present
  PROVE  /\ InOrder(S) \in Seq(S) /\ Elements(InOrder(S)) = S /\ Distinct(InOrder(S))
         /\ \A m, k \in DOMAIN InOrder(S) :
              m < k => files[InOrder(S)[m]].index < files[InOrder(S)[k]].index
<1> DEFINE n == Cardinality(S)
           Below(i) == {j \in S : files[j].index < files[i].index}
           rank == [i \in S |-> Cardinality(Below(i)) + 1]
           Ordered(s) == \A m, k \in 1..n :
                           m < k => files[s[m]].index < files[s[k]].index
<1>1. IsFiniteSet(S) /\ n \in Nat
  BY FileStoreAssumption, FS_Subset, FS_CardinalityType DEF Present
<1>2. \A i \in S : files[i].index \in Nat
  BY CellFacts DEF Present
<1>3. ASSUME NEW i \in S
      PROVE  /\ IsFiniteSet(Below(i)) /\ Cardinality(Below(i)) \in Nat
             /\ Cardinality(Below(i)) < n
  <2>1. Below(i) \in SUBSET S /\ i \notin Below(i)
    BY <1>2
  <2> HIDE DEF Below
  <2>2. IsFiniteSet(Below(i)) /\ Cardinality(Below(i)) <= n /\ Cardinality(Below(i)) # n
    BY <1>1, <2>1, FS_Subset
  <2>3. Cardinality(Below(i)) \in Nat
    BY <2>2, FS_CardinalityType
  <2> QED
    BY <1>1, <2>2, <2>3
<1>4. ASSUME NEW i \in S, NEW j \in S, files[i].index < files[j].index
      PROVE  rank[i] < rank[j]
  <2>1. Below(i) \in SUBSET Below(j) /\ i \in Below(j) /\ i \notin Below(i)
    BY <1>2, <1>4
  <2>2. Cardinality(Below(i)) <= Cardinality(Below(j))
        /\ Cardinality(Below(i)) # Cardinality(Below(j))
    BY <1>3, <2>1, FS_Subset
  <2>3. rank[i] = Cardinality(Below(i)) + 1 /\ rank[j] = Cardinality(Below(j)) + 1
    OBVIOUS
  <2>4. Cardinality(Below(i)) \in Nat /\ Cardinality(Below(j)) \in Nat
    BY <1>3
  <2> HIDE DEF rank, Below
  <2> QED
    BY <2>2, <2>3, <2>4
<1>5. rank \in Injection(S, 1..n)
  <2>1. rank \in [S -> 1..n]
    <3>1. \A i \in S : Cardinality(Below(i)) + 1 \in 1..n
      <4> HIDE DEF Below, n
      <4> QED
        BY <1>1, <1>3
    <3> QED
      BY <3>1
  <2> HIDE DEF rank
  <2>2. ASSUME NEW i \in S, NEW j \in S, rank[i] = rank[j] PROVE i = j
    <3>0. rank[i] \in Int /\ rank[j] \in Int
      BY <2>1
    <3>1. ~(files[i].index < files[j].index) /\ ~(files[j].index < files[i].index)
      BY <1>4, <2>2, <3>0
    <3> QED
      BY <1>2, <3>1 DEF IndexStands
  <2> QED
    BY <2>1, <2>2 DEF Injection, IsInjective
<1>6. rank \in Surjection(S, 1..n)
  BY <1>1, <1>5, FS_Injection, FS_Interval
<1> DEFINE at == [k \in 1..n |-> CHOOSE i \in S : rank[i] = k]
<1>7. \A k \in 1..n : at[k] \in S /\ rank[at[k]] = k
  BY <1>6 DEF Surjection
<1>8. at \in [1..n -> S] /\ Ordered(at)
  <2>1. ASSUME NEW m \in 1..n, NEW k \in 1..n, m < k
        PROVE  files[at[m]].index < files[at[k]].index
    <3>1. at[m] \in S /\ at[k] \in S /\ rank[at[m]] = m /\ rank[at[k]] = k
      BY <1>7
    <3> HIDE DEF at, rank
    <3>2. at[m] # at[k] /\ ~(files[at[k]].index < files[at[m]].index)
      <4>1. m \in Int /\ k \in Int /\ ~(k < m) /\ m # k
        BY <1>1, <2>1
      <4> QED
        BY <1>4, <3>1, <4>1
    <3>3. files[at[m]].index \in Nat /\ files[at[k]].index \in Nat
          /\ files[at[m]].index # files[at[k]].index
      BY <1>2, <3>1, <3>2 DEF IndexStands
    <3> QED
      BY <3>2, <3>3
  <2> QED
    BY <1>7, <2>1
<1> DEFINE b == InOrder(S)
<1>9. b \in [1..n -> S] /\ Ordered(b)
  BY <1>8 DEF InOrder
<1>10. \A m, k \in 1..n : b[m] = b[k] => m = k
  <2> SUFFICES ASSUME NEW m \in 1..n, NEW k \in 1..n, b[m] = b[k] PROVE m = k
    OBVIOUS
  <2>1. ~(files[b[m]].index < files[b[k]].index) /\ ~(files[b[k]].index < files[b[m]].index)
    BY <1>2, <1>9
  <2>2. ~(m < k) /\ ~(k < m)
    BY <1>9, <2>1
  <2> QED
    BY <2>2
<1>11. b \in Surjection(1..n, S)
  <2>1. b \in Injection(1..n, S)
    BY <1>9, <1>10 DEF Injection, IsInjective
  <2> QED
    BY <1>1, <2>1, FS_Injection, FS_Interval
<1>12. Elements(b) = S
  BY <1>9, <1>11 DEF Surjection, Elements
<1> QED
  BY <1>1, <1>9, <1>10, <1>12 DEF Distinct

(* What two sequences hold together, and that it is distinct when each is  *)
(* and they share nothing.                                                 *)
LEMMA Joined ==
  ASSUME NEW S, NEW s \in Seq(S), NEW t \in Seq(S)
  PROVE  /\ s \o t \in Seq(S)
         /\ Elements(s \o t) = Elements(s) \cup Elements(t)
         /\ Distinct(s) /\ Distinct(t) /\ Elements(s) \cap Elements(t) = {}
              => Distinct(s \o t)
<1>1. /\ s \o t \in Seq(S) /\ Len(s \o t) = Len(s) + Len(t)
      /\ \A i \in 1..Len(s) + Len(t) :
           (s \o t)[i] = IF i <= Len(s) THEN s[i] ELSE t[i - Len(s)]
  BY ConcatProperties
<1>2. Len(s) \in Nat /\ Len(t) \in Nat /\ DOMAIN s = 1..Len(s) /\ DOMAIN t = 1..Len(t)
      /\ DOMAIN (s \o t) = 1..Len(s) + Len(t)
  BY <1>1, LenProperties
<1>3. Elements(s) \cup Elements(t) \subseteq Elements(s \o t)
  <2>1. \A i \in 1..Len(s) : i \in DOMAIN (s \o t) /\ (s \o t)[i] = s[i]
    BY <1>1, <1>2
  <2>2. \A i \in 1..Len(t) : Len(s) + i \in DOMAIN (s \o t) /\ (s \o t)[Len(s) + i] = t[i]
    BY <1>1, <1>2
  <2> QED
    BY <1>2, <2>1, <2>2 DEF Elements
<1>4. Elements(s \o t) \subseteq Elements(s) \cup Elements(t)
  BY <1>1, <1>2 DEF Elements
<1>5. ASSUME Distinct(s), Distinct(t), Elements(s) \cap Elements(t) = {}
      PROVE  Distinct(s \o t)
  <2> SUFFICES ASSUME NEW m \in 1..Len(s) + Len(t), NEW k \in 1..Len(s) + Len(t),
                      (s \o t)[m] = (s \o t)[k]
               PROVE  m = k
    BY <1>2 DEF Distinct
  <2>1. CASE m <= Len(s) /\ k <= Len(s)
    BY <1>1, <1>2, <1>5, <2>1 DEF Distinct
  <2>2. CASE ~(m <= Len(s)) /\ ~(k <= Len(s))
    <3>1. m - Len(s) \in DOMAIN t /\ k - Len(s) \in DOMAIN t
          /\ t[m - Len(s)] = t[k - Len(s)]
      BY <1>1, <1>2, <2>2
    <3> QED
      BY <1>2, <1>5, <3>1 DEF Distinct
  <2>3. \A i \in 1..Len(s), l \in 1..Len(t) : s[i] # t[l]
    BY <1>2, <1>5 DEF Elements
  <2>4. CASE m <= Len(s) /\ ~(k <= Len(s))
    BY <1>1, <1>2, <2>3, <2>4
  <2>5. CASE ~(m <= Len(s)) /\ k <= Len(s)
    BY <1>1, <1>2, <2>3, <2>5
  <2> QED
    BY <2>1, <2>2, <2>4, <2>5
<1> QED
  BY <1>1, <1>3, <1>4, <1>5

(* A step of the listing moves nothing else.                               *)
LEMMA ListerStands ==
  ASSUME IInv, UNCHANGED <<files, meta, locks, proc>>, lister' \in Page,
         cache' \in Catalog \cup {None}, CacheStands', ListStands',
         spent' \in [calls : Nat, mishaps : Nat, listings : Nat]
  PROVE  IInv'
<1>1. TypeOK'
  BY DEF IInv, TypeOK
<1>2. CallsStand'
  BY DEF IInv, CallsStand, CallStands, Cell, Key, Op
<1>3. LocksStand'
  BY DEF IInv, LocksStand, LockStands, Owns, At, Cell, Key, Op
<1>4. IndexStands'
  BY DEF IInv, IndexStands, Present, Cell, Reserving
<1> QED
  BY <1>1, <1>2, <1>3, <1>4 DEF IInv

LEMMA ListerFacts ==
  ASSUME IInv
  PROVE  /\ TypeOK /\ lister \in Page /\ CacheStands /\ ListStands /\ IndexStands
         /\ cache \in Catalog \cup {None} /\ meta.writes \in Nat
         /\ spent \in [calls : Nat, mishaps : Nat, listings : Nat]
         /\ Directory \in [Keys -> Nat] /\ Present = In(Directory)
         /\ Present \subseteq Keys /\ LiveKeys \subseteq Present
BY CellFacts DEF IInv, TypeOK, Counters, Present

LEMMA NoneListed ==
  /\ NoListing \in Page /\ NoListing.pc = "idle"
  /\ NoListing.listed = <<>> /\ NoListing.after = 0
<1>1. {} \in SUBSET Keys /\ <<>> \in Seq(Keys) /\ 0 \in Nat
  OBVIOUS
<1> QED
  BY <1>1 DEF NoListing, Page

LEMMA ListStep ==
  ASSUME IInv, List
  PROVE  IInv'
<1> DEFINE l == [NoListing EXCEPT !.pc = "catalog", !.attempt = 1, !.opened = Directory,
                                  !.revision = meta.writes]
<1>1. lister' = l /\ UNCHANGED <<files, meta, locks, proc, cache>>
  BY DEF List
<1>2. /\ l.pc = "catalog" /\ l.opened = Directory /\ l.listed = <<>> /\ l.after = 0
      /\ l \in Page
  <2>1. NoListing \in Page /\ NoListing.listed = <<>> /\ NoListing.after = 0
    BY NoneListed
  <2>2. 1 \in Nat /\ Directory \in [Keys -> Nat] /\ meta.writes \in Nat
    BY ListerFacts
  <2> QED
    BY <2>1, <2>2 DEF Page
<1> HIDE DEF l
<1>3. spent' \in [calls : Nat, mishaps : Nat, listings : Nat]
  <2>1. spent.listings + 1 \in Nat /\ spent' = [spent EXCEPT !.listings = @ + 1]
    BY ListerFacts DEF List
  <2> QED
    BY ListerFacts, <2>1
<1>4. CacheStands' /\ cache' \in Catalog \cup {None}
  BY <1>1, ListerFacts DEF CacheStands
<1>5. ListStands'
  <2>1. Present' = Present /\ LiveKeys' = LiveKeys
    BY <1>1 DEF Present, LiveKeys, Cell
  <2>2. /\ lister'.opened \in [Keys -> Nat] /\ Earlier' = Present
    BY <1>1, <1>2, ListerFacts DEF Earlier
  <2>3. Elements(lister'.listed) = {} /\ Distinct(lister'.listed)
    BY <1>1, <1>2 DEF Elements, Distinct
  <2>4. \A k \in LiveKeys : ~(files'[k].index < lister'.after)
    BY <1>1, <1>2, CellFacts, ListerFacts
  <2> QED
    BY <1>1, <1>2, <2>1, <2>2, <2>3, <2>4 DEF ListStands
<1> QED
  BY <1>1, <1>2, <1>3, <1>4, <1>5, ListerStands

LEMMA CatalogForStep ==
  ASSUME IInv, CatalogFor
  PROVE  IInv'
<1>1. /\ UNCHANGED <<files, meta, locks, proc, cache, spent>> /\ lister.pc = "catalog"
      /\ Present' = Present /\ LiveKeys' = LiveKeys
  BY DEF CatalogFor, Present, LiveKeys, Cell
<1> DEFINE bracket == [writes |-> meta.writes, directory |-> Directory]
<1>2. /\ lister'.opened = lister.opened /\ lister'.listed = lister.listed
      /\ lister'.after = lister.after /\ lister' \in Page /\ lister'.scanned = Present
      /\ \/ lister'.pc = "page"
         \/ lister'.pc = "scan" /\ lister'.before = bracket
  <2>1. CASE CacheHolds /\ lister' = [lister EXCEPT !.pc = "page", !.scanned = cache.keys]
    <3>1. cache.keys = Present /\ cache.keys \in SUBSET Keys
      BY <2>1, ListerFacts DEF CacheHolds, CacheStands
    <3> QED
      BY <2>1, <3>1, ListerFacts DEF Page
  <2>2. CASE lister' = [lister EXCEPT !.pc = "scan", !.scanned = Present, !.before = bracket]
    <3>1. bracket \in Bracket
      BY ListerFacts DEF Bracket
    <3> HIDE DEF bracket
    <3> QED
      BY <2>2, <3>1, ListerFacts DEF Page
  <2> QED
    BY <2>1, <2>2 DEF CatalogFor
<1>3. In(bracket.directory) = Present
  BY ListerFacts
<1> HIDE DEF bracket
<1>4. CacheStands' /\ cache' \in Catalog \cup {None}
  BY <1>1, ListerFacts DEF CacheStands
<1>5. ListStands'
  BY <1>1, <1>2, <1>3, ListerFacts DEF ListStands, Earlier
<1>6. spent' \in [calls : Nat, mishaps : Nat, listings : Nat]
  BY <1>1, ListerFacts
<1> QED
  BY <1>1, <1>2, <1>4, <1>5, <1>6, ListerStands

LEMMA ScanCatalogStep ==
  ASSUME IInv, ScanCatalog
  PROVE  IInv'
<1>1. /\ UNCHANGED <<files, meta, locks, proc, spent>> /\ lister.pc = "scan"
      /\ Present' = Present /\ LiveKeys' = LiveKeys
  BY DEF ScanCatalog, Present, LiveKeys, Cell
<1> DEFINE now == [writes |-> meta.writes, directory |-> Directory]
<1>2. PICK late \in SUBSET (Present \ lister.scanned) :
        LET keys == lister.scanned \cup late
        IN IF now = lister.before
           THEN /\ cache' = [writes |-> now.writes, directory |-> now.directory, keys |-> keys]
                /\ lister' = [lister EXCEPT !.pc = "page", !.scanned = keys, !.before = None]
           ELSE /\ UNCHANGED cache
                /\ lister' = IF lister.attempt < 3
                             THEN [lister EXCEPT !.pc = "catalog", !.attempt = @ + 1,
                                                 !.scanned = {}, !.before = None]
                             ELSE [lister EXCEPT !.pc = "page", !.scanned = keys,
                                                 !.before = None]
  BY DEF ScanCatalog
<1> DEFINE keys == lister.scanned \cup late
<1>3. /\ lister.scanned = In(lister.before.directory) /\ Earlier \subseteq lister.scanned
      /\ lister.scanned \subseteq Present /\ keys \subseteq Present /\ Earlier \subseteq keys
      /\ keys \in SUBSET Keys
  BY <1>1, ListerFacts DEF ListStands
<1>4. now = lister.before => keys = Present
  <2>1. now = lister.before => Present = lister.scanned
    BY <1>3, ListerFacts
  <2> QED
    BY <2>1
<1>5. CacheStands' /\ cache' \in Catalog \cup {None}
  <2>1. CASE now = lister.before
    <3>1. cache' = [writes |-> meta.writes, directory |-> Directory, keys |-> Present]
      BY <1>2, <1>4, <2>1
    <3> HIDE DEF keys, now
    <3>2. cache'.keys = In(cache'.directory)
      BY <3>1, ListerFacts
    <3>3. cache' \in Catalog
      BY <3>1, ListerFacts DEF Catalog
    <3> QED
      BY <3>2, <3>3 DEF CacheStands
  <2>2. CASE now # lister.before
    BY <1>2, <2>2, ListerFacts DEF CacheStands
  <2> QED
    BY <2>1, <2>2
<1>6. /\ lister'.opened = lister.opened /\ lister'.listed = lister.listed
      /\ lister'.after = lister.after /\ lister' \in Page
      /\ lister'.pc = "catalog" \/ (lister'.pc = "page" /\ lister'.scanned = keys)
  <2>1. lister.attempt + 1 \in Nat
    BY ListerFacts DEF Page
  <2> HIDE DEF keys, now
  <2>2. CASE lister' = [lister EXCEPT !.pc = "page", !.scanned = keys, !.before = None]
    BY <1>3, <2>2, ListerFacts DEF Page
  <2>3. CASE lister' = [lister EXCEPT !.pc = "catalog", !.attempt = @ + 1, !.scanned = {},
                                      !.before = None]
    BY <2>1, <2>3, ListerFacts DEF Page
  <2> QED
    BY <1>2, <2>2, <2>3 DEF keys
<1> HIDE DEF keys, now
<1>7. ListStands'
  BY <1>1, <1>3, <1>6, ListerFacts DEF ListStands, Earlier
<1>8. spent' \in [calls : Nat, mishaps : Nat, listings : Nat]
  BY <1>1, ListerFacts
<1> QED
  BY <1>1, <1>5, <1>6, <1>7, <1>8, ListerStands

LEMMA ReadPageStep ==
  ASSUME IInv, ReadPage
  PROVE  IInv'
<1> DEFINE S == {k \in lister.scanned : files[k].index >= lister.after /\ Live(Cell(k))}
           found == InOrder(S)
           n == IF Len(found) < Limit THEN Len(found) ELSE Limit
           page == SubSeq(found, 1, n)
           listed == lister.listed \o page
<1>1. /\ UNCHANGED <<files, meta, locks, proc, cache, spent>> /\ lister.pc = "page"
      /\ Present' = Present /\ LiveKeys' = LiveKeys
  BY DEF ReadPage, Present, LiveKeys, Cell
<1>2. /\ lister.opened \in [Keys -> Nat] /\ Earlier \subseteq lister.scanned
      /\ lister.scanned \subseteq Present /\ Earlier \subseteq Present
      /\ Distinct(lister.listed) /\ Elements(lister.listed) \subseteq Present
      /\ \A k \in Elements(lister.listed) : files[k].index < lister.after
      /\ \A k \in LiveKeys \cap Earlier :
           files[k].index < lister.after => k \in Elements(lister.listed)
      /\ lister.listed \in Seq(Keys) /\ lister.after \in Nat
  BY <1>1, ListerFacts DEF ListStands, Page
<1>3. /\ S \in SUBSET Present /\ Elements(lister.listed) \cap S = {}
      /\ \A k \in Present : files[k].index \in Nat
      /\ \A k \in S : lister.after <= files[k].index
      /\ \A k \in LiveKeys \cap Earlier : files[k].index < lister.after \/ k \in S
  <2>1. \A k \in Present : files[k].index \in Nat
    BY CellFacts, ListerFacts DEF Present
  <2>2. \A k \in LiveKeys \cap Earlier : files[k].index < lister.after \/ k \in S
    BY <1>2, <2>1 DEF LiveKeys
  <2>3. Elements(lister.listed) \cap S = {}
    BY <1>2, <2>1
  <2>4. \A k \in S : lister.after <= files[k].index
    BY <1>2, <2>1
  <2> QED
    BY <1>2, <2>1, <2>2, <2>3, <2>4
<1> HIDE DEF S
<1>4. /\ found \in Seq(S) /\ Elements(found) = S /\ Distinct(found)
      /\ \A m, k \in DOMAIN found : m < k => files[found[m]].index < files[found[k]].index
  BY <1>3, ListerFacts, OrderEnumerates
<1> HIDE DEF found
<1>5. /\ Len(found) \in Nat /\ DOMAIN found = 1..Len(found) /\ n \in 0..Len(found)
      /\ Limit \in Nat \ {0} /\ (Len(found) > n => n >= 1)
  BY <1>4, FileStoreAssumption
<1> HIDE DEF n
<1>6. /\ page \in Seq(S) /\ Len(page) = n /\ DOMAIN page = 1..n
      /\ \A m \in 1..n : page[m] = found[m]
  <2>1. \A m \in 1..n : found[m] \in S
    BY <1>4, <1>5
  <2>2. page \in Seq(S) /\ Len(page) = n /\ \A m \in 1..n : page[m] = found[m]
    BY <1>4, <1>5, SubSeqProperties
  <2> QED
    BY <2>2, LenProperties
<1> HIDE DEF page
<1>7. Distinct(page) /\ Elements(page) = {found[m] : m \in 1..n} /\ Elements(page) \subseteq S
  <2>1. 1..n \subseteq DOMAIN found
    BY <1>5
  <2>2. Distinct(page)
    BY <1>4, <1>6, <2>1 DEF Distinct
  <2>3. Elements(page) = {found[m] : m \in 1..n}
    BY <1>6 DEF Elements
  <2> QED
    BY <1>4, <2>1, <2>2, <2>3 DEF Elements
<1>8. /\ listed \in Seq(Keys) /\ Distinct(listed)
      /\ Elements(listed) = Elements(lister.listed) \cup Elements(page)
  <2>1. page \in Seq(Keys)
    BY <1>3, <1>6, ListerFacts, SeqMonotonic
  <2> QED
    BY <1>2, <1>3, <1>7, <2>1, Joined
<1>9. Elements(listed) \subseteq Present
  BY <1>2, <1>3, <1>7, <1>8
<1> HIDE DEF listed
<1>10. CacheStands' /\ cache' \in Catalog \cup {None}
  BY <1>1, ListerFacts DEF CacheStands
<1>11. spent' \in [calls : Nat, mishaps : Nat, listings : Nat]
  BY <1>1, ListerFacts
<1>12. CASE /\ Len(found) > Len(page)
            /\ lister' = [lister EXCEPT !.pc = "catalog", !.attempt = 1, !.scanned = {},
                                        !.listed = listed,
                                        !.after = files[page[Len(page)]].index + 1]
  <2>1. PICK x \in S : x = found[n] /\ x = page[Len(page)] /\ n \in 1..Len(found)
    BY <1>4, <1>5, <1>6, <1>12
  <2>2. files[x].index \in Nat /\ files[x].index + 1 \in Nat
        /\ lister.after < files[x].index + 1
    BY <1>2, <1>3, <2>1
  <2>3. /\ lister'.pc = "catalog" /\ lister'.listed = listed /\ lister'.opened = lister.opened
        /\ lister'.after = files[x].index + 1 /\ lister' \in Page
    BY <1>8, <1>12, <2>1, <2>2, ListerFacts DEF Page
  <2>4. \A m \in 1..Len(found) : m <= n <=> files[found[m]].index < files[x].index + 1
    <3> SUFFICES ASSUME NEW m \in 1..Len(found)
                 PROVE  m <= n <=> files[found[m]].index < files[x].index + 1
      OBVIOUS
    <3>1. files[found[m]].index \in Nat /\ m \in Nat /\ n \in Nat
      BY <1>3, <1>4, <1>5
    <3>2. /\ m < n => files[found[m]].index < files[x].index
          /\ m = n => found[m] = x
          /\ n < m => files[x].index < files[found[m]].index
      BY <1>4, <1>5, <2>1
    <3> QED
      BY <2>2, <3>1, <3>2
  <2>5. \A k \in Elements(listed) : files[k].index < files[x].index + 1
    <3>1. \A k \in Elements(page) : files[k].index < files[x].index + 1
      BY <1>5, <1>7, <2>4
    <3>2. \A k \in Elements(lister.listed) : files[k].index < files[x].index + 1
      BY <1>2, <1>3, <2>2
    <3> QED
      BY <1>8, <3>1, <3>2
  <2>6. \A k \in LiveKeys \cap Earlier :
          files[k].index < files[x].index + 1 => k \in Elements(listed)
    <3> SUFFICES ASSUME NEW k \in LiveKeys \cap Earlier, files[k].index < files[x].index + 1
                 PROVE  k \in Elements(listed)
      OBVIOUS
    <3>1. CASE files[k].index < lister.after
      BY <1>2, <1>8, <3>1
    <3>2. CASE k \in S
      <4>1. PICK m \in 1..Len(found) : k = found[m]
        BY <1>4, <1>5, <3>2 DEF Elements
      <4>2. m \in 1..n
        BY <1>5, <2>4, <4>1
      <4> QED
        BY <1>7, <1>8, <4>1, <4>2
    <3> QED
      BY <1>3, <3>1, <3>2
  <2>7. ListStands'
    BY <1>1, <1>2, <1>8, <1>9, <2>3, <2>5, <2>6 DEF ListStands, Earlier
  <2> QED
    BY <1>1, <1>10, <1>11, <2>3, <2>7, ListerStands
<1>13. CASE /\ ~(Len(found) > Len(page))
            /\ lister' = [lister EXCEPT !.pc = "end", !.scanned = {}, !.listed = listed]
  <2>1. /\ lister'.pc = "end" /\ lister'.listed = listed /\ lister'.opened = lister.opened
        /\ lister' \in Page
    BY <1>8, <1>13, ListerFacts DEF Page
  <2>2. n = Len(found)
    BY <1>5, <1>6, <1>13
  <2>3. Elements(page) = S
    BY <1>4, <1>5, <1>7, <2>2 DEF Elements
  <2>4. LiveKeys \cap Earlier \subseteq Elements(listed)
    BY <1>2, <1>3, <1>8, <2>3
  <2>5. ListStands'
    BY <1>1, <1>2, <1>8, <1>9, <2>1, <2>4 DEF ListStands, Earlier
  <2> QED
    BY <1>1, <1>10, <1>11, <2>1, <2>5, ListerStands
<1> QED
  BY <1>12, <1>13 DEF ReadPage, S, found, n, page, listed

LEMMA EndListingStep ==
  ASSUME IInv, EndListing
  PROVE  IInv'
<1>1. /\ UNCHANGED <<files, meta, locks, proc, cache, spent>> /\ lister' = NoListing
  BY DEF EndListing
<1>2. NoListing \in Page /\ NoListing.pc = "idle"
  BY NoneListed
<1>3. CacheStands' /\ cache' \in Catalog \cup {None} /\ ListStands'
  BY <1>1, <1>2, ListerFacts DEF CacheStands, ListStands
<1>4. spent' \in [calls : Nat, mishaps : Nat, listings : Nat]
  BY <1>1, ListerFacts
<1> QED
  BY <1>1, <1>2, <1>3, <1>4, ListerStands

-------------------------------------------------------------------------------
(***************************************************************************)
(* The invariant, and what follows from it.                                *)
(***************************************************************************)

LEMMA InitIInv == Init => IInv
<1> SUFFICES ASSUME Init PROVE IInv
  OBVIOUS
<1>1. TypeOK
  <2>1. files \in [Keys -> File]
    BY DEF Init, Absent, File
  <2>2. meta \in Counters /\ spent \in [calls : Nat, mishaps : Nat, listings : Nat]
    BY DEF Init, Counters
  <2>3. proc \in [Procs -> Job]
    BY DEF Init, Idle, Job
  <2> QED
    BY <2>1, <2>2, <2>3, NoneListed DEF Init, TypeOK
<1>2. Present = {}
  BY DEF Init, Present, Cell, Absent
<1>3. \A p \in Procs : CallStands(p) /\ ~Reserving(p)
  BY DEF Init, CallStands, Idle, Reserving, Writing
<1>4. \A p \in Procs, l \in Keys \cup {Meta} : LockStands(p, l)
  BY DEF Init, LockStands, Owns
<1>5. IndexStands
  BY <1>2, <1>3 DEF IndexStands
<1>6. CacheStands /\ ListStands
  BY NoneListed DEF Init, CacheStands, ListStands
<1> QED
  BY <1>1, <1>3, <1>4, <1>5, <1>6 DEF IInv, CallsStand, LocksStand

LEMMA StepStep ==
  ASSUME IInv, NEW p \in Procs, Step(p)
  PROVE  IInv'
BY AcquireLockStep, SeeStaleStep, TakeOverStep, GiveUpStep, LookStep, ReadHeldStep,
   ReserveWriteStep, ReleaseMetaStep, CommitCreateStep, ReadWinnerStep, CommitReplaceStep,
   ReleaseStep
DEF Step, CompareAndSetHeld, AppendHeld, TombstoneHeld

LEMMA NextIInv == IInv /\ [Next]_vars => IInv'
<1> SUFFICES ASSUME IInv, [Next]_vars PROVE IInv'
  OBVIOUS
<1>1. CASE UNCHANGED vars
  <2>1. UNCHANGED <<files, meta, locks, proc, cache, lister, spent>>
    BY <1>1 DEF vars
  <2>2. CacheStands' /\ ListStands'
    BY <2>1, ListingKept DEF Kept, Cell
  <2> QED
    BY <2>1, <2>2, ListerStands, ListerFacts
<1>2. CASE \E p \in Procs : Call(p) \/ Step(p) \/ Crash(p)
  BY <1>2, CallStep, StepStep, CrashStep
<1>3. CASE \E l \in DOMAIN locks : Expire(l)
  BY <1>3, ExpireStep
<1>4. CASE Listing
  BY <1>4, ListStep, CatalogForStep, ScanCatalogStep, ReadPageStep, EndListingStep DEF Listing
<1> QED
  BY <1>1, <1>2, <1>3, <1>4 DEF Next

(* What the store keeps.                                                   *)
THEOREM Inductive == Spec => []IInv
BY InitIInv, NextIInv, PTL DEF Spec

(* Every variable keeps its type, for any keys, writers, operations and    *)
(* bounds.                                                                 *)
THEOREM WellTyped == Spec => []TypeOK
<1>1. IInv => TypeOK
  BY DEF IInv
<1> QED
  BY <1>1, Inductive, PTL

(* A catalog in use misses no cell and invents none, though the counters   *)
(* announce a cell before it is published: the directory it was read from  *)
(* is the one that is there.                                               *)
THEOREM Complete == Spec => []CacheComplete
<1>1. IInv => CacheComplete
  BY ListerFacts DEF CacheComplete, CacheHolds, CacheStands
<1> QED
  BY <1>1, Inductive, PTL

(* A listing gives what was live before it began and still is, once,       *)
(* whatever is written, crashes or expires while it goes through its pages.*)
THEOREM Listed == Spec => []EarlierListed
<1>1. IInv => EarlierListed
  <2> SUFFICES ASSUME IInv, lister.pc = "end"
               PROVE  /\ {k \in LiveKeys : lister.opened[k] > 0} \subseteq Elements(lister.listed)
                      /\ Distinct(lister.listed)
    BY DEF EarlierListed
  <2>1. {k \in LiveKeys : lister.opened[k] > 0} \subseteq LiveKeys \cap Earlier
    BY ListerFacts DEF Earlier, In
  <2> QED
    BY <2>1, ListerFacts DEF ListStands
<1> QED
  BY <1>1, Inductive, PTL

-------------------------------------------------------------------------------
(***************************************************************************)
(* The refinement: a write is what the reference store does at one instant *)
(* of the call, its answer's.                                              *)
(***************************************************************************)

View(p) == [op |-> Op(p), answer |-> proc[p].answer]

LEMMA Seen ==
  ASSUME NEW p \in Procs, \A q \in Procs \ {p} : proc'[q] = proc[q]
  PROVE  Calls' = [Calls EXCEPT ![p] = View(p)'] /\ Calls[p] = View(p)
BY DEF Calls, View, Op

(* A step that the caller does not see, and that leaves the cells.         *)
LEMMA Unseen ==
  ASSUME NEW p \in Procs, \A q \in Procs \ {p} : proc'[q] = proc[q],
         proc'[p].op = proc[p].op, proc'[p].answer = proc[p].answer, UNCHANGED files
  PROVE  UNCHANGED <<Contents, Calls>>
<1>1. View(p)' = View(p)
  BY DEF View, Op
<1>2. Calls' = Calls
  BY <1>1, Seen DEF Calls, View
<1> QED
  BY <1>2 DEF Contents, Cell

(* A call that is answered, and what is done with the cells then.          *)
LEMMA Told ==
  ASSUME TypeOK, NEW p \in Procs, NEW pc, NEW a, Answered(p, pc, a)
  PROVE  Calls' = [Calls EXCEPT ![p].answer = a]
<1>1. /\ \A q \in Procs \ {p} : proc'[q] = proc[q]
      /\ proc'[p].op = proc[p].op /\ proc'[p].answer = a
  BY DEF TypeOK, Job, Answered
<1>2. View(p)' = [View(p) EXCEPT !.answer = a]
  BY <1>1 DEF View, Op
<1> QED
  BY <1>1, <1>2, Seen

LEMMA PendingNow ==
  ASSUME IInv, NEW p \in Procs, proc[p].pc \notin {"idle", "unlock meta", "release"}
  PROVE  /\ Promise!Pending(p) /\ Calls[p].op = Op(p)
         /\ Op(p) \in OpsOf[p] /\ Op(p) # None /\ Key(p) \in Keys
         /\ Contents[Key(p)] = Cell(Key(p)) /\ Cell(Key(p)) \in Written(Ops) \cup {None}
<1>1. /\ proc[p].answer = None /\ Op(p) \in OpsOf[p] /\ Op(p) # None /\ Key(p) \in Keys
      /\ Cell(Key(p)) \in Written(Ops) \cup {None}
  BY Facts, CellFacts, OpFacts DEF CallStands
<1>2. Calls[p] = View(p)
  BY DEF Calls, View
<1>3. Calls[p].op = Op(p) /\ Calls[p].answer = None
  <2>1. View(p).op = Op(p)
    BY DEF View
  <2>2. View(p).answer = proc[p].answer
    BY DEF View
  <2>3. Calls[p].op = View(p).op
    BY <1>2
  <2>4. Calls[p].answer = View(p).answer
    BY <1>2
  <2> QED
    BY <1>1, <2>1, <2>2, <2>3, <2>4
<1>4. Contents[Key(p)] = Cell(Key(p))
  BY <1>1 DEF Contents
<1>5. Promise!Pending(p)
  BY <1>1, <1>3 DEF Promise!Pending
<1> QED
  BY <1>1, <1>3, <1>4, <1>5

(* The promise speaks of the same cells.                                   *)
LEMMA SameCells ==
  /\ \A op, c : Promise!Applies(op, c) <=> Applies(op, c)
  /\ \A op, c : Promise!Effect(op, c) = Effect(op, c)
  /\ \A op, c : Promise!Answer(op, c) = Answer(op, c)
  /\ \A c : Promise!Revision(c) = Revision(c)
  /\ Promise!Unavailable = Unavailable
<1>1. /\ \A op, c : Promise!Applies(op, c) <=> Applies(op, c)
      /\ \A op, c : Promise!Replays(op, c) <=> Replays(op, c)
  BY DEF Applies, Promise!Applies, Replays, Promise!Replays, Form, Promise!Form,
         Live, Promise!Live, Elements, Promise!Elements
<1>2. \A op, c : Promise!Effect(op, c) = Effect(op, c)
  BY DEF Effect, Promise!Effect, NewCell, Promise!NewCell
<1>3. \A c : Promise!Revision(c) = Revision(c)
  BY DEF Revision, Promise!Revision
<1>4. \A op, c : Promise!Answer(op, c) = Answer(op, c)
  BY <1>1, <1>3 DEF Answer, Promise!Answer
<1> QED
  BY <1>1, <1>2, <1>3, <1>4 DEF Unavailable, Promise!Unavailable

(* An answer about a cell that the operation does not change.              *)
LEMMA AnswersOnly ==
  ASSUME IInv, NEW p \in Procs, proc[p].pc \notin {"idle", "unlock meta", "release"},
         UNCHANGED files, ~Applies(Op(p), Cell(Key(p))),
         Calls' = [Calls EXCEPT ![p].answer = Answer(Op(p), Cell(Key(p)))]
  PROVE  Promise!Perform(p)
<1>1. Contents' = Contents
  BY DEF Contents, Cell
<1> QED
  BY <1>1, PendingNow, SameCells DEF Promise!Perform, Key

(* A failure of the lock layer.                                            *)
LEMMA Fails ==
  ASSUME IInv, NEW p \in Procs, NEW pc, Answered(p, pc, Unavailable), UNCHANGED files,
         proc[p].pc \notin {"idle", "unlock meta", "release"}
  PROVE  Promise!Fail(p)
<1>1. Contents' = Contents
  BY DEF Contents, Cell
<1>2. Calls' = [Calls EXCEPT ![p].answer = Unavailable]
  BY Told DEF IInv
<1> QED
  BY <1>1, <1>2, PendingNow, SameCells DEF Promise!Fail

(* What takes effect: the operation applies to the cell that is there.     *)
LEMMA Performs ==
  ASSUME IInv, NEW p \in Procs, proc[p].pc \notin {"idle", "unlock meta", "release"},
         Applies(Op(p), Cell(Key(p))),
         files'[Key(p)].cell = Effect(Op(p), Cell(Key(p))),
         \A k \in Keys \ {Key(p)} : files'[k].cell = files[k].cell,
         Calls' = [Calls EXCEPT ![p].answer = Answer(Op(p), Cell(Key(p)))]
  PROVE  Promise!Perform(p)
<1> DEFINE c == Effect(Op(p), Cell(Key(p)))
<1>1. Contents' = [Contents EXCEPT ![Key(p)] = c]
  BY PendingNow DEF Contents, Cell
<1> QED
  BY <1>1, PendingNow, SameCells DEF Promise!Perform, Key

LEMMA QuietUnseen ==
  ASSUME IInv, NEW p \in Procs,
         AcquireLock(p) \/ SeeStale(p) \/ TakeOver(p) \/ ReleaseMeta(p)
  PROVE  UNCHANGED <<Contents, Calls>>
<1>1. proc \in [Procs -> Job] /\ UNCHANGED files
  BY DEF IInv, TypeOK, AcquireLock, SeeStale, TakeOver, ReleaseMeta
<1>2. /\ \A q \in Procs \ {p} : proc'[q] = proc[q]
      /\ proc'[p].op = proc[p].op /\ proc'[p].answer = proc[p].answer
  <2>1. CASE AcquireLock(p)
    <3>1. PICK pc, c : proc' = [proc EXCEPT ![p].pc = pc, ![p].counters = c]
      BY <2>1 DEF AcquireLock
    <3> QED
      BY <1>1, <3>1 DEF Job
  <2>2. CASE \E pc : Go(p, pc)
    BY <1>1, <2>2 DEF Job, Go
  <2> QED
    BY <2>1, <2>2 DEF SeeStale, TakeOver, ReleaseMeta
<1> QED
  BY <1>1, <1>2, Unseen

LEMMA LookImplements ==
  ASSUME IInv, NEW p \in Procs, Look(p)
  PROVE  Promise!Perform(p) \/ UNCHANGED <<Contents, Calls>>
<1>1. TypeOK /\ proc[p].pc = "look" /\ UNCHANGED files /\ proc \in [Procs -> Job]
  BY DEF IInv, TypeOK, Look, At
<1>2. CASE /\ Answered(p, "release", Answer(Op(p), Cell(Key(p))))
           /\ IF Op(p).kind = "create" THEN Cell(Key(p)) # None
              ELSE Cell(Key(p)) = None /\ ~Applies(Op(p), Cell(Key(p)))
  <2>1. ~Applies(Op(p), Cell(Key(p)))
    BY <1>2 DEF Applies
  <2>2. Calls' = [Calls EXCEPT ![p].answer = Answer(Op(p), Cell(Key(p)))]
    BY <1>1, <1>2, Told
  <2> QED
    BY <1>1, <2>1, <2>2, AnswersOnly
<1>3. CASE Go(p, IF Op(p).kind = "create" THEN "meta" ELSE "lock")
  <2>1. /\ \A q \in Procs \ {p} : proc'[q] = proc[q]
        /\ proc'[p].op = proc[p].op /\ proc'[p].answer = proc[p].answer
    BY <1>1, <1>3 DEF Job, Go
  <2> QED
    BY <1>1, <2>1, Unseen
<1> QED
  BY <1>2, <1>3 DEF Look

LEMMA ReadHeldImplements ==
  ASSUME IInv, NEW p \in Procs, ReadHeld(p)
  PROVE  Promise!Perform(p) \/ UNCHANGED <<Contents, Calls>>
<1>1. TypeOK /\ proc[p].pc = "held" /\ UNCHANGED files /\ proc \in [Procs -> Job]
  BY DEF IInv, TypeOK, ReadHeld, At
<1>2. CASE /\ ~Applies(Op(p), Cell(Key(p)))
           /\ Answered(p, "release", Answer(Op(p), Cell(Key(p))))
  <2>1. Calls' = [Calls EXCEPT ![p].answer = Answer(Op(p), Cell(Key(p)))]
    BY <1>1, <1>2, Told
  <2> QED
    BY <1>1, <1>2, <2>1, AnswersOnly
<1>3. CASE proc' = [proc EXCEPT ![p].pc = "meta", ![p].held = Cell(Key(p))]
  <2>1. /\ \A q \in Procs \ {p} : proc'[q] = proc[q]
        /\ proc'[p].op = proc[p].op /\ proc'[p].answer = proc[p].answer
    BY <1>1, <1>3 DEF Job
  <2> QED
    BY <1>1, <2>1, Unseen
<1> QED
  BY <1>2, <1>3 DEF ReadHeld

LEMMA ReserveWriteImplements ==
  ASSUME IInv, NEW p \in Procs, ReserveWrite(p)
  PROVE  Promise!Fail(p) \/ UNCHANGED <<Contents, Calls>>
<1>1. TypeOK /\ proc[p].pc = "bump" /\ UNCHANGED files /\ proc \in [Procs -> Job]
  BY DEF IInv, TypeOK, ReserveWrite, At
<1>2. CASE Answered(p, "unlock meta", Unavailable)
  BY <1>1, <1>2, Fails
<1>3. CASE ~Answered(p, "unlock meta", Unavailable)
  <2>1. /\ \A q \in Procs \ {p} : proc'[q] = proc[q]
        /\ proc'[p].op = proc[p].op /\ proc'[p].answer = proc[p].answer
    <3>1. PICK i : proc' = [proc EXCEPT ![p].pc = "unlock meta", ![p].counters = None,
                                       ![p].index = i]
      BY <1>3 DEF ReserveWrite
    <3> QED
      BY <1>1, <3>1 DEF Job
  <2> QED
    BY <1>1, <2>1, Unseen
<1> QED
  BY <1>2, <1>3

LEMMA CommitCreateImplements ==
  ASSUME IInv, NEW p \in Procs, CommitCreate(p)
  PROVE  Promise!Perform(p) \/ UNCHANGED <<Contents, Calls>>
<1>1. /\ TypeOK /\ proc[p].pc = "publish" /\ proc \in [Procs -> Job] /\ CallStands(p)
      /\ proc[p].held = None
  BY Facts DEF TypeOK, CommitCreate, At
<1>2. CASE /\ Cell(Key(p)) = None /\ Link(Key(p), Effect(Op(p), None), proc[p].index)
           /\ Answered(p, "release", Answer(Op(p), None))
  <2>1. Applies(Op(p), Cell(Key(p)))
    BY <1>1, <1>2 DEF CallStands, Writing, Op
  <2>2. Calls' = [Calls EXCEPT ![p].answer = Answer(Op(p), Cell(Key(p)))]
    BY <1>1, <1>2, Told
  <2>3. /\ files'[Key(p)].cell = Effect(Op(p), Cell(Key(p)))
        /\ \A k \in Keys \ {Key(p)} : files'[k].cell = files[k].cell
    BY <1>1, <1>2, PendingNow DEF Link, TypeOK
  <2> QED
    BY <1>1, <2>1, <2>2, <2>3, Performs
<1>3. CASE Go(p, "winner") /\ UNCHANGED files
  <2>1. /\ \A q \in Procs \ {p} : proc'[q] = proc[q]
        /\ proc'[p].op = proc[p].op /\ proc'[p].answer = proc[p].answer
    BY <1>1, <1>3 DEF Job, Go
  <2> QED
    BY <1>3, <2>1, Unseen
<1> QED
  BY <1>2, <1>3 DEF CommitCreate

(* Who came second to create is told of the winner; who came second to     *)
(* begin a stream has lost.                                                *)
LEMMA ReadWinnerImplements ==
  ASSUME IInv, NEW p \in Procs, ReadWinner(p)
  PROVE  Promise!Perform(p) \/ Promise!Lose(p)
<1>1. /\ TypeOK /\ proc[p].pc = "winner" /\ UNCHANGED files /\ CallStands(p)
      /\ Cell(Key(p)) # None /\ Applies(Op(p), None)
  BY Facts DEF ReadWinner, At, CallStands, Writing, Op
<1>2. CASE Op(p).kind = "create" /\ Answered(p, "release", Answer(Op(p), Cell(Key(p))))
  <2>1. ~Applies(Op(p), Cell(Key(p)))
    BY <1>1, <1>2 DEF Applies
  <2>2. Calls' = [Calls EXCEPT ![p].answer = Answer(Op(p), Cell(Key(p)))]
    BY <1>1, <1>2, Told
  <2> QED
    BY <1>1, <2>1, <2>2, AnswersOnly
<1>3. CASE /\ Op(p).kind # "create"
           /\ Answered(p, "release", [status |-> "conflict", revision |-> Revision(Cell(Key(p)))])
  <2>1. Op(p).kind = "append" /\ Op(p).expected = 0
    BY <1>1, <1>3 DEF Applies, Form, Live
  <2>2. Calls' = [Calls EXCEPT ![p].answer =
                    [status |-> "conflict", revision |-> Revision(Cell(Key(p)))]]
    BY <1>1, <1>3, Told
  <2>3. Contents' = Contents
    BY <1>1 DEF Contents, Cell
  <2> QED
    BY <1>1, <2>1, <2>2, <2>3, PendingNow, SameCells DEF Promise!Lose, Key
<1> QED
  BY <1>2, <1>3 DEF ReadWinner

LEMMA CommitReplaceImplements ==
  ASSUME IInv, NEW p \in Procs, CommitReplace(p)
  PROVE  Promise!Perform(p) \/ Promise!Fail(p)
<1>1. /\ TypeOK /\ proc[p].pc = "publish" /\ CallStands(p) /\ proc[p].held # None
      /\ Key(p) \in Keys /\ LockStands(p, Key(p)) /\ Key(p) # Meta
  BY Facts DEF CommitReplace, At
<1>2. CASE Answered(p, "release", Unavailable) /\ UNCHANGED files
  BY <1>1, <1>2, Fails
<1>3. CASE /\ Verified(p, Key(p)) /\ Answered(p, "release", Answer(Op(p), proc[p].held))
           /\ files' = [files EXCEPT ![Key(p)].cell = Effect(Op(p), proc[p].held)]
  <2>1. Cell(Key(p)) = proc[p].held
    BY <1>1, <1>3 DEF Verified, LockStands, Writing
  <2>2. Applies(Op(p), Cell(Key(p)))
    BY <1>1, <2>1 DEF CallStands, Writing, Op
  <2>3. Calls' = [Calls EXCEPT ![p].answer = Answer(Op(p), Cell(Key(p)))]
    BY <1>1, <1>3, <2>1, Told
  <2>4. /\ files'[Key(p)].cell = Effect(Op(p), Cell(Key(p)))
        /\ \A k \in Keys \ {Key(p)} : files'[k].cell = files[k].cell
    BY <1>1, <1>3, <2>1 DEF TypeOK, File
  <2> QED
    BY <1>1, <2>2, <2>3, <2>4, Performs
<1> QED
  BY <1>2, <1>3 DEF CommitReplace

LEMMA CallImplements ==
  ASSUME IInv, NEW p \in Procs, Call(p)
  PROVE  Promise!Begin(p)
<1>1. TypeOK /\ CallStands(p) /\ proc[p].pc = "idle" /\ UNCHANGED files
  BY Facts DEF Call, At
<1>2. PICK op \in OpsOf[p] : proc' = [proc EXCEPT ![p] = [Idle EXCEPT !.pc = "look", !.op = op]]
  BY DEF Call
<1>3. View(p) = [op |-> None, answer |-> None]
  BY <1>1 DEF View, Op, CallStands, Idle
<1>4. /\ \A q \in Procs \ {p} : proc'[q] = proc[q]
      /\ proc'[p] = [Idle EXCEPT !.pc = "look", !.op = op]
  BY <1>1, <1>2 DEF TypeOK
<1>5. View(p)' = [op |-> op, answer |-> None]
  BY <1>4 DEF View, Op, Idle
<1>6. Calls' = [Calls EXCEPT ![p].op = op] /\ Calls[p] = [op |-> None, answer |-> None]
  <2>1. [View(p) EXCEPT !.op = op] = View(p)'
    BY <1>3, <1>5
  <2> QED
    BY <1>3, <1>4, <2>1, Seen
<1>7. op \in Ops /\ Contents' = Contents
  BY <1>1 DEF Ops, Contents, Cell
<1> QED
  BY <1>6, <1>7 DEF Promise!Begin, Promise!NoCall

LEMMA EndImplements ==
  ASSUME IInv, NEW p \in Procs, Release(p) \/ Crash(p)
  PROVE  Promise!End(p)
<1>1. /\ TypeOK /\ Op(p) \in OpsOf[p] /\ Op(p) # None
      /\ proc' = [proc EXCEPT ![p] = Idle] /\ UNCHANGED files
  BY Facts, OpFacts DEF Release, Crash, At
<1>2. \A q \in Procs \ {p} : proc'[q] = proc[q]
  BY <1>1 DEF TypeOK
<1>3. View(p)' = [op |-> None, answer |-> None]
  BY <1>1 DEF View, Op, Idle, TypeOK
<1>4. View(p) # [op |-> None, answer |-> None]
  <2>1. View(p).op # None
    BY <1>1 DEF View
  <2> QED
    BY <2>1
<1>5. Contents' = Contents
  BY <1>1 DEF Contents, Cell
<1> QED
  BY <1>2, <1>3, <1>4, <1>5, Seen DEF Promise!End, Promise!NoCall

(* The file store keeps the promise of the store: for any number of        *)
(* writers, whatever locks expire, are taken over or left by the dead, no  *)
(* write is lost or done twice, and each answer tells what was done.       *)
THEOREM Implements == Spec => ImplementsStore
<1>1. Init => Promise!Init
  <2> SUFFICES ASSUME Init PROVE Promise!Init
    OBVIOUS
  <2>1. Contents = [k \in Keys |-> None]
    BY DEF Init, Contents, Cell, Absent
  <2>2. Calls = [p \in Procs |-> [op |-> None, answer |-> None]]
    BY DEF Init, Calls, Op, Idle
  <2> QED
    BY <2>1, <2>2 DEF Promise!Init, Promise!NoCall
<1>2. IInv /\ [Next]_vars => [Promise!Next]_<<Contents, Calls>>
  <2> SUFFICES ASSUME IInv, [Next]_vars PROVE Promise!Next \/ UNCHANGED <<Contents, Calls>>
    OBVIOUS
  <2>1. CASE UNCHANGED <<files, proc>>
    BY <2>1 DEF Contents, Cell, Calls, Op
  <2>2. UNCHANGED vars \/ Listing \/ (\E l \in DOMAIN locks : Expire(l)) => UNCHANGED <<files, proc>>
    BY DEF vars, Listing, List, CatalogFor, ScanCatalog, ReadPage, EndListing, Expire
  <2>3. ASSUME NEW p \in Procs, Call(p) \/ Step(p) \/ Crash(p)
        PROVE  Promise!Next \/ UNCHANGED <<Contents, Calls>>
    <3>1. CASE GiveUp(p)
      BY <3>1, Fails DEF GiveUp, Waiting, Promise!Next
    <3>2. CASE CompareAndSetHeld(p) \/ AppendHeld(p) \/ TombstoneHeld(p)
      BY <3>2, ReadHeldImplements DEF CompareAndSetHeld, AppendHeld, TombstoneHeld, Promise!Next
    <3>3. CASE Call(p) \/ Release(p) \/ Crash(p)
      BY <3>3, CallImplements, EndImplements DEF Promise!Next
    <3> QED
      BY <2>3, <3>1, <3>2, <3>3, QuietUnseen, LookImplements, ReserveWriteImplements,
         CommitCreateImplements, ReadWinnerImplements, CommitReplaceImplements
      DEF Step, Promise!Next
  <2> QED
    BY <2>1, <2>2, <2>3 DEF Next
<1> QED
  BY <1>1, <1>2, Inductive, PTL DEF Spec, ImplementsStore, Promise!Spec

===============================================================================
