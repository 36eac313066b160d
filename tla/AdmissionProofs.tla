---------------------------- MODULE AdmissionProofs ----------------------------
(***************************************************************************)
(* The admission of recurrence candidates is safe for any hosts, proposals *)
(* and bounds.  The inductive invariant says what each part of the store   *)
(* stands on: a slot on a decided and locked candidate, on a snapshot that *)
(* was earned and on a prefix that is complete (SlotsStand); a binding on  *)
(* its slot (BindingsStand); a review on a receipt (ReviewsAfter); and     *)
(* what a call relies on while it is between two writes (Placed, Behind,   *)
(* Reserved).  All of it rests on the store's growing only: what was       *)
(* written is never written again.                                         *)
(***************************************************************************)
EXTENDS Admission, SequenceTheorems, WellFoundedInduction, TLAPS

Engaged  == {"complete", "member", "scope", "receipt"}
Deciding == {"snapshot", "decide", "lock", "poll", "mark", "slot"}

InSlots(r) == \E k \in DOMAIN slots : slots[k] = r

(* What a call that is past a write relies on.                             *)
Placed(h) ==
  LET c == mine[h]
      i == target[h].claim.id
  IN
  /\ pc[h] # "idle" => c \in Claim
  /\ pc[h] \in {"lock", "poll", "mark"} \/ phase[h] # "preflight"
       => claims[c.id] = c
  /\ pc[h] = "mark" \/ phase[h] # "preflight" => locks[c.content] = c
  /\ phase[h] # "preflight" => c.id \in markers /\ pc[h] # "idle"
  /\ phase[h] = "won" => pc[h] \in Engaged
  /\ pc[h] \in Engaged => target[h] \in Reservation /\ InSlots(target[h])
  /\ pc[h] \in {"member", "scope", "receipt"} => bindings[i] = target[h]
  /\ pc[h] \in {"scope", "receipt"} => i \in members
  /\ pc[h] = "receipt" => i \in scoped

(* The stream a call has validated, and what it knows of it.               *)
Behind(h) ==
  /\ pc[h] \in Deciding \cup {"prepare"} =>
       /\ seen[h] <= Len(slots)
       /\ \A k \in 1..seen[h] : Terminal(slots[k].claim.id)
  /\ pc[h] \in Deciding =>
       /\ seen[h] < MaxSlots
       /\ \A k \in 1..seen[h] : slots[k].claim.id # mine[h].id
  /\ pc[h] \in Engaged /\ phase[h] # "won" =>
       /\ seen[h] \in DOMAIN slots /\ slots[seen[h]] = target[h]
       /\ \A k \in 1..(seen[h] - 1) : Terminal(slots[k].claim.id)

(* A snapshot that lets c be admitted: nothing is superseded, or a review  *)
(* asked for it and the evidence is there.                                 *)
Earned(c, s) ==
  LET p == s.predecessor
      d == reviews[p][s.review]
  IN
  /\ p = c.supersedes /\ s.episodes <= episodes
  /\ p # None =>
       /\ Terminal(p) /\ s.review \in DOMAIN reviews[p] /\ d.recorded
       /\ \/ d.disposition = "revise"
          \/ /\ d.disposition = "reject"
             /\ Multiplier = 0 \/
                  s.episodes >= Multiplier * candidates[p].episodes

(* The snapshot of a call that will append its slot on it.                 *)
Reserved(h) ==
  /\ pc[h] = "slot" => phase[h] = "admit"
  /\ pc[h] \in Deciding \ {"snapshot"} =>
       /\ snap[h] \in Snapshot /\ snap[h].head = seen[h]
       /\ Earned(mine[h], snap[h])

SlotStands(k) ==
  LET r == slots[k]
  IN
  /\ r.snapshot.head = k - 1
  /\ BundleExact(r) /\ r.claim.id \in markers /\ Earned(r.claim, r.snapshot)
  /\ \A j \in 1..(k - 1) : /\ Terminal(slots[j].claim.id)
                           /\ slots[j].claim.id # r.claim.id

SlotsStand == \A k \in DOMAIN slots : SlotStands(k)

BindingsStand ==
  \A i \in Ids : bindings[i] # None =>
    bindings[i].claim.id = i /\ InSlots(bindings[i])

ReviewsAfter ==
  \A i \in Ids : /\ Len(reviews[i]) <= MaxReviews
                 /\ reviews[i] # << >> => Terminal(i)

CallsStand == \A h \in Hosts : Placed(h) /\ Behind(h) /\ Reserved(h)

IInv ==
  /\ TypeOK /\ CallsStand /\ SlotsStand
  /\ BindingsStand /\ ReviewsAfter /\ ReceiptLast

-------------------------------------------------------------------------------
(* A review that was recorded last can be found.                           *)
LEMMA LatestIsRecorded ==
  ASSUME TypeOK, NEW i \in Ids, LatestReview(i) # 0
  PROVE  /\ LatestReview(i) \in DOMAIN reviews[i]
         /\ reviews[i][LatestReview(i)].recorded
<1> DEFINE R == {k \in DOMAIN reviews[i] : reviews[i][k].recorded}
           T == {Len(reviews[i]) - k : k \in R}
<1>1. reviews[i] \in Seq(Review)
  BY DEF TypeOK, Indexes
<1>2. R # {} /\ R \subseteq 1..Len(reviews[i]) /\ Len(reviews[i]) \in Nat
  BY <1>1 DEF LatestReview
<1>3. T # {} /\ T \subseteq Nat
  <2>1. PICK k \in R : TRUE
    BY <1>2
  <2>2. Len(reviews[i]) - k \in T
    OBVIOUS
  <2>3. \A l \in R : Len(reviews[i]) - l \in Nat
    BY <1>2
  <2> QED
    BY <2>2, <2>3
<1>4. \E x \in T : \A y \in T : ~(<<y, x>> \in OpToRel(<, Nat))
  BY <1>3, NatLessThanWellFounded, WFMin
<1>5. PICK k \in R : \A y \in T : ~(<<y, Len(reviews[i]) - k>> \in OpToRel(<, Nat))
  BY <1>4
<1>6. ASSUME NEW l \in R PROVE l <= k
  <2>1. Len(reviews[i]) - l \in T /\ Len(reviews[i]) - l \in Nat /\ Len(reviews[i]) - k \in Nat
    BY <1>2, <1>6
  <2>2. ~(Len(reviews[i]) - l < Len(reviews[i]) - k)
    BY <1>5, <2>1 DEF OpToRel
  <2> QED
    BY <1>2, <2>2, <1>6
<1>7. LatestReview(i) \in R
  BY <1>2, <1>6 DEF LatestReview
<1> QED
  BY <1>7

LEMMA LatestType ==
  ASSUME TypeOK, ReviewsAfter, NEW i \in Ids
  PROVE  LatestReview(i) \in 0..MaxReviews
<1>1. reviews[i] \in Seq(Review) /\ Len(reviews[i]) <= MaxReviews
  BY DEF TypeOK, Indexes, ReviewsAfter
<1>2. LatestReview(i) # 0 => LatestReview(i) \in 1..Len(reviews[i])
  BY <1>1, LatestIsRecorded
<1> QED
  BY <1>1, <1>2, BoundAssumption

-------------------------------------------------------------------------------
LEMMA ClaimFields ==
  /\ None \notin Ids
  /\ \A c \in Claim : /\ c.id \in Ids /\ c.content \in Contents
                      /\ c.supersedes \in Ids \cup {None} /\ c # None
                      /\ c.episodes \in 1..MaxEpisodes
  /\ \A r \in Reservation : /\ r.claim \in Claim /\ r.snapshot \in Snapshot
                            /\ r # None
BY AbsenceAssumption, ProposalAssumption DEF Claim, Reservation, Ids, Contents

LEMMA StampedIsClaim ==
  ASSUME TypeOK, NEW p \in Proposals, NEW t \in Instants
  PROVE  Stamped(p, t) \in Claim
BY ProposalAssumption DEF TypeOK, Stamped, Claim, Ids, Contents

LEMMA SnapshotTypeOK ==
  ASSUME TypeOK, ReviewsAfter, NEW c \in Claim, NEW n \in 0..MaxSlots
  PROVE  SnapshotFor(c, n) \in Snapshot
<1>1. c.supersedes \in Ids \cup {None}
  BY ClaimFields
<1>2. (IF c.supersedes = None THEN 0 ELSE LatestReview(c.supersedes)) \in 0..MaxReviews
  BY <1>1, LatestType, BoundAssumption
<1> QED
  BY <1>1, <1>2 DEF SnapshotFor, Snapshot, TypeOK

(* The two halves of TypeOK: what calls hold and what the store holds.     *)
LocalType ==
  /\ pc \in [Hosts -> Steps]
  /\ mine \in [Hosts -> Claim \cup {None}]
  /\ phase \in [Hosts -> {"preflight", "admit", "won"}]
  /\ seen \in [Hosts -> 0..MaxSlots]
  /\ snap \in [Hosts -> Snapshot \cup {None}]
  /\ target \in [Hosts -> Reservation \cup {None}]
  /\ tries \in [Hosts -> 0..(MaxSlotAttempts - 1)]
  /\ outcome \in [Hosts -> Outcomes]

StoreType ==
  /\ claims \in Claims
  /\ locks \in Locks
  /\ markers \subseteq Ids
  /\ reviews \in Indexes
  /\ slots \in Slots /\ Len(slots) <= MaxSlots
  /\ bindings \in Bindings
  /\ members \subseteq Ids /\ scoped \subseteq Ids
  /\ candidates \in Receipts
  /\ episodes \in 1..MaxEpisodes

LEMMA FinishType ==
  ASSUME TypeOK, NEW h \in Hosts, NEW o \in Outcomes, Finish(h, o)
  PROVE  LocalType'
BY BoundAssumption DEF TypeOK, Finish, Goto, Steps, LocalType

LEMMA CompletedType ==
  ASSUME TypeOK, NEW h \in Hosts, Completed(h)
  PROVE  LocalType'
<1>1. CASE phase[h] = "won"
  BY <1>1, FinishType DEF Completed, Outcomes, LocalType
<1>2. CASE phase[h] # "won"
  BY <1>2 DEF Completed, Goto, Steps, TypeOK, LocalType
<1> QED
  BY <1>1, <1>2

LEMMA WinSlotType ==
  ASSUME TypeOK, NEW h \in Hosts, NEW r \in Reservation, WinSlot(h, r)
  PROVE  LocalType'
BY DEF TypeOK, WinSlot, Goto, Steps, LocalType

LEMMA LoseSlotType ==
  ASSUME TypeOK, NEW h \in Hosts, LoseSlot(h)
  PROVE  LocalType'
<1>1. CASE tries[h] + 1 = MaxSlotAttempts
  BY <1>1, FinishType DEF LoseSlot, Outcomes
<1>2. CASE tries[h] + 1 # MaxSlotAttempts
  <2>1. tries[h] + 1 \in 0..(MaxSlotAttempts - 1)
    BY <1>2, BoundAssumption DEF TypeOK
  <2> QED
    BY <1>2, <2>1 DEF LoseSlot, RetrySlot, TypeOK, Goto, Steps, LocalType
<1> QED
  BY <1>1, <1>2

LEMMA MyReservationType ==
  ASSUME TypeOK, CallsStand, NEW h \in Hosts, pc[h] = "slot"
  PROVE  MyReservation(h) \in Reservation
BY DEF CallsStand, Placed, Reserved, MyReservation, Reservation, Deciding

LEMMA CallsType ==
  ASSUME TypeOK, CallsStand, ReviewsAfter, NEW h \in Hosts,
         Step(h) \/ Crash(h) \/ \E p \in Proposals : Begin(h, p)
  PROVE  LocalType'
<1> USE DEF Outcomes
<1>p. Placed(h) /\ Behind(h) /\ Reserved(h)
  BY DEF CallsStand
<1>1. CASE \E p \in Proposals : Begin(h, p)
  <2>1. PICK p \in Proposals : Begin(h, p)
    BY <1>1
  <2>2. CASE \E o \in Outcomes : Finish(h, o)
    BY <2>2, FinishType
  <2>3. CASE ~\E o \in Outcomes : Finish(h, o)
    <3>1. p.id \in Ids
      BY DEF Ids
    <3>2. claims[p.id] # None => claims[p.id] \in Claim
      BY <3>1 DEF TypeOK, Claims
    <3>3. \E c \in Claim : mine' = [mine EXCEPT ![h] = c]
      BY <2>1, <2>3, <3>2, StampedIsClaim DEF Begin
    <3>4. /\ outcome' = [outcome EXCEPT ![h] = "none"] /\ Goto(h, "forward")
          /\ UNCHANGED <<phase, seen, snap, target, tries>>
      BY <2>1, <2>3 DEF Begin
    <3> QED
      BY <3>3, <3>4 DEF TypeOK, LocalType, Goto, Steps
  <2> QED
    BY <2>2, <2>3
<1>2. CASE Forward(h)
  <2>1. CASE Finish(h, "store.corrupt")
    BY <2>1, FinishType
  <2>2. CASE ~Finish(h, "store.corrupt")
    <3>1. Len(slots) \in 0..MaxSlots /\ slots \in Seq(Reservation)
      BY BoundAssumption DEF TypeOK, Slots
    <3>2. Len(slots) # 0 => slots[Len(slots)] \in Reservation
      BY <3>1
    <3> QED
      BY <1>2, <2>2, <3>1, <3>2 DEF Forward, TypeOK, LocalType, Goto, Steps
  <2> QED
    BY <2>1, <2>2
<1>3. CASE Prepare(h)
  <2>1. CASE \E o \in Outcomes : Finish(h, o)
    BY <2>1, FinishType
  <2>2. CASE ~\E o \in Outcomes : Finish(h, o)
    BY <1>3, <2>2 DEF Prepare, TypeOK, LocalType, Goto, Steps, local
  <2> QED
    BY <2>1, <2>2
<1>4. CASE TakeSnapshot(h)
  <2>1. CASE Finish(h, "refused")
    BY <2>1, FinishType
  <2>2. CASE ~Finish(h, "refused")
    <3>1. SnapshotFor(mine[h], seen[h]) \in Snapshot
      BY <1>4, <1>p, SnapshotTypeOK DEF TakeSnapshot, Placed, TypeOK
    <3>2. /\ snap' = [snap EXCEPT ![h] = SnapshotFor(mine[h], seen[h])]
          /\ \E step \in Steps : pc' = [pc EXCEPT ![h] = step]
          /\ UNCHANGED <<mine, phase, seen, target, tries, outcome>>
      BY <1>4, <2>2 DEF TakeSnapshot, Goto, Steps
    <3> QED
      BY <3>1, <3>2 DEF TypeOK, LocalType
  <2> QED
    BY <2>1, <2>2
<1>5. CASE Decide(h) \/ Lock(h) \/ Poll(h) \/ Mark(h)
  <2>1. CASE \E o \in Outcomes : Finish(h, o)
    BY <2>1, FinishType
  <2>2. CASE ~\E o \in Outcomes : Finish(h, o)
    BY <1>5, <2>2 DEF Decide, Lock, Poll, Mark, TypeOK, LocalType, Goto, Steps, local
  <2> QED
    BY <2>1, <2>2
<1>6. CASE Slot(h)
  BY <1>6, MyReservationType, WinSlotType, LoseSlotType DEF Slot
<1>7. CASE Complete(h)
  <2>1. CASE Finish(h, "store.corrupt")
    BY <2>1, FinishType
  <2>2. CASE Completed(h)
    BY <2>2, CompletedType
  <2>3. CASE ~Finish(h, "store.corrupt") /\ ~Completed(h)
    BY <1>7, <2>3 DEF Complete, TypeOK, LocalType, Goto, Steps, local
  <2> QED
    BY <2>1, <2>2, <2>3
<1>8. CASE Member(h) \/ Scope(h)
  BY <1>8 DEF Member, Scope, TypeOK, LocalType, Goto, Steps, local
<1>9. CASE Receipt(h)
  BY <1>9, FinishType, CompletedType DEF Receipt
<1>10. CASE Crash(h)
  BY <1>10, FinishType DEF Crash
<1> QED
  BY <1>1, <1>2, <1>3, <1>4, <1>5, <1>6, <1>7, <1>8, <1>9, <1>10 DEF Step

(* The records of a reservation that is being completed.                   *)
LEMMA TargetType ==
  ASSUME CallsStand, NEW h \in Hosts, pc[h] \in Engaged
  PROVE  /\ target[h] \in Reservation /\ target[h].claim \in Claim
         /\ target[h].claim.id \in Ids
BY ClaimFields DEF CallsStand, Placed

LEMMA MineType ==
  ASSUME CallsStand, NEW h \in Hosts, pc[h] # "idle"
  PROVE  /\ mine[h] \in Claim /\ mine[h].id \in Ids
         /\ mine[h].content \in Contents
         /\ mine[h].supersedes \in Ids \cup {None}
BY ClaimFields DEF CallsStand, Placed

LEMMA SlotsGrowType ==
  ASSUME TypeOK, CallsStand, NEW h \in Hosts, Slot(h)
  PROVE  slots' \in Slots /\ Len(slots') <= MaxSlots
<1>1. pc[h] = "slot" /\ MyReservation(h) \in Reservation /\ slots \in Seq(Reservation)
  BY MyReservationType DEF Slot, TypeOK, Slots
<1>2. seen[h] < MaxSlots /\ seen[h] \in Nat
  BY <1>1 DEF CallsStand, Behind, Deciding, TypeOK
<1>3. CASE slots' = slots
  BY <1>3 DEF TypeOK, Slots
<1>4. CASE Len(slots) = seen[h] /\ slots' = Append(slots, MyReservation(h))
  BY <1>1, <1>2, <1>4, BoundAssumption DEF Slots
<1> QED
  BY <1>3, <1>4 DEF Slot

LEMMA StoreTypeStep ==
  ASSUME TypeOK, CallsStand, NEW h \in Hosts,
         Step(h) \/ Crash(h) \/ \E p \in Proposals : Begin(h, p)
  PROVE  StoreType'
<1>s. StoreType
  BY DEF TypeOK, StoreType
<1>1. CASE Decide(h)
  <2>1. claims' \in Claims
    BY <1>1, MineType DEF Decide, TypeOK, Claims
  <2> QED
    BY <1>s, <1>1, <2>1 DEF Decide, StoreType, world
<1>2. CASE Lock(h)
  <2>1. locks' \in Locks
    BY <1>2, MineType DEF Lock, TypeOK, Locks
  <2> QED
    BY <1>s, <1>2, <2>1 DEF Lock, StoreType, world
<1>3. CASE Mark(h)
  BY <1>s, <1>3, MineType DEF Mark, StoreType, world
<1>4. CASE Slot(h)
  BY <1>s, <1>4, SlotsGrowType DEF Slot, StoreType, world
<1>5. CASE Complete(h)
  <2>1. bindings' \in Bindings
    BY <1>5, TargetType DEF Complete, TypeOK, Bindings, Engaged
  <2> QED
    BY <1>s, <1>5, <2>1 DEF Complete, StoreType, world
<1>6. CASE Member(h)
  BY <1>s, <1>6, TargetType DEF Member, StoreType, world, Engaged
<1>7. CASE Scope(h)
  BY <1>s, <1>7, TargetType DEF Scope, StoreType, world, Engaged
<1>8. CASE Receipt(h)
  <2>1. candidates' \in Receipts
    BY <1>8, TargetType DEF Receipt, TypeOK, Receipts, Engaged
  <2> QED
    BY <1>s, <1>8, <2>1 DEF Receipt, StoreType, world
<1>9. CASE UNCHANGED <<store, world>>
  BY <1>s, <1>9 DEF store, world, StoreType
<1>10. CASE \/ Forward(h) \/ Prepare(h) \/ TakeSnapshot(h) \/ Poll(h) \/ Crash(h)
            \/ \E p \in Proposals : Begin(h, p)
  BY <1>9, <1>10 DEF Forward, Prepare, TakeSnapshot, Poll, Crash, Begin
<1> QED
  BY <1>1, <1>2, <1>3, <1>4, <1>5, <1>6, <1>7, <1>8, <1>10 DEF Step

(* The rest of the engine: evidence and reviews.                           *)
LEMMA WorldStep ==
  ASSUME TypeOK, ReviewsAfter, World
  PROVE  /\ UNCHANGED <<store, pc, local>>
         /\ episodes <= episodes' /\ episodes' \in 1..MaxEpisodes
         /\ reviews' \in Indexes
         /\ \A i \in Ids :
              /\ Len(reviews'[i]) <= MaxReviews
              /\ reviews'[i] # << >> => Terminal(i)
              /\ \A k \in DOMAIN reviews[i] :
                   /\ k \in DOMAIN reviews'[i]
                   /\ reviews'[i][k].disposition = reviews[i][k].disposition
                   /\ reviews[i][k].recorded => reviews'[i][k].recorded
<1>r. \A i \in Ids : reviews[i] \in Seq(Review) /\ Len(reviews[i]) \in Nat
  BY DEF TypeOK, Indexes
<1>1. CASE GrowGroup
  <2>1. episodes' = episodes + 1 /\ episodes' <= MaxEpisodes /\ episodes \in Nat
    BY <1>1, BoundAssumption DEF GrowGroup, TypeOK
  <2> QED
    BY <1>1, <2>1 DEF GrowGroup, ReviewsAfter, TypeOK, Terminal
<1>2. ASSUME NEW i \in Reviewed, IndexReview(i)
      PROVE  /\ UNCHANGED <<store, episodes, pc, local>>
             /\ reviews' \in Indexes
             /\ \A j \in Ids :
                  /\ Len(reviews'[j]) <= MaxReviews
                  /\ reviews'[j] # << >> => Terminal(j)
                  /\ \A k \in DOMAIN reviews[j] :
                       /\ k \in DOMAIN reviews'[j]
                       /\ reviews'[j][k] = reviews[j][k]
  <2>1. PICK d \in Dispositions :
          reviews' = [reviews EXCEPT ![i] =
                        Append(@, [disposition |-> d, recorded |-> FALSE])]
    BY <1>2 DEF IndexReview
  <2>2. i \in Ids /\ [disposition |-> d, recorded |-> FALSE] \in Review
    BY ReviewedAssumption DEF Review
  <2>3. reviews'[i] = Append(reviews[i], [disposition |-> d, recorded |-> FALSE])
    BY <2>1, <2>2 DEF TypeOK, Indexes
  <2>4. reviews' \in Indexes
    BY <2>1, <2>2, <1>r DEF TypeOK, Indexes
  <2>5. \A j \in Ids : j # i => reviews'[j] = reviews[j]
    BY <2>1 DEF TypeOK, Indexes
  <2>6. Len(reviews'[i]) = Len(reviews[i]) + 1 /\ Len(reviews[i]) < MaxReviews /\ Terminal(i)
    BY <1>2, <1>r, <2>2, <2>3 DEF IndexReview
  <2>7. \A k \in DOMAIN reviews[i] : k \in DOMAIN reviews'[i] /\ reviews'[i][k] = reviews[i][k]
    BY <1>r, <2>2, <2>3
  <2> QED
    BY <1>2, <1>r, <2>2, <2>4, <2>5, <2>6, <2>7, BoundAssumption
       DEF IndexReview, ReviewsAfter
<1>3. ASSUME NEW i \in Reviewed, RecordReview(i)
      PROVE  /\ UNCHANGED <<store, episodes, pc, local>>
             /\ reviews' \in Indexes
             /\ \A j \in Ids :
                  /\ DOMAIN reviews'[j] = DOMAIN reviews[j]
                  /\ Len(reviews'[j]) = Len(reviews[j])
                  /\ \A k \in DOMAIN reviews[j] :
                       /\ reviews'[j][k].disposition = reviews[j][k].disposition
                       /\ reviews[j][k].recorded => reviews'[j][k].recorded
  <2>1. PICK k \in DOMAIN reviews[i] : reviews' = [reviews EXCEPT ![i][k].recorded = TRUE]
    BY <1>3 DEF RecordReview
  <2>2. i \in Ids /\ reviews[i][k] \in Review /\ reviews[i] \in Seq(Review)
    BY <1>r, ReviewedAssumption
  <2> DEFINE e == [reviews[i][k] EXCEPT !.recorded = TRUE]
  <2>3. e \in Review /\ e.disposition = reviews[i][k].disposition /\ e.recorded
    BY <2>2 DEF Review
  <2>4. reviews' = [reviews EXCEPT ![i] = [reviews[i] EXCEPT ![k] = e]]
    BY <2>1
  <2> HIDE DEF e
  <2>5. [reviews[i] EXCEPT ![k] = e] \in Seq(Review)
    BY <2>2, <2>3
  <2>6. reviews' \in Indexes
    BY <2>4, <2>5, <2>2 DEF TypeOK, Indexes
  <2>7. /\ \A j \in Ids : j # i => reviews'[j] = reviews[j]
        /\ reviews'[i] = [reviews[i] EXCEPT ![k] = e]
    BY <2>4, <2>2 DEF TypeOK, Indexes
  <2>8. Len(reviews'[i]) = Len(reviews[i]) /\ DOMAIN reviews'[i] = DOMAIN reviews[i]
    BY <2>2, <2>5, <2>7
  <2>9. \A l \in DOMAIN reviews[i] : reviews'[i][l] = IF l = k THEN e ELSE reviews[i][l]
    BY <2>7
  <2> QED
    BY <1>3, <2>3, <2>6, <2>7, <2>8, <2>9 DEF RecordReview
<1>4. \A i \in Ids : reviews[i] = << >> <=> Len(reviews[i]) = 0
  BY <1>r
<1>5. CASE \E i \in Reviewed : IndexReview(i)
  <2>1. PICK i \in Reviewed : IndexReview(i)
    BY <1>5
  <2> QED
    BY <1>2, <2>1 DEF TypeOK
<1>6. CASE \E i \in Reviewed : RecordReview(i)
  <2>1. PICK i \in Reviewed : RecordReview(i)
    BY <1>6
  <2>2. \A j \in Ids : reviews'[j] \in Seq(Review)
    BY <1>3, <2>1 DEF Indexes
  <2>3. \A j \in Ids : reviews'[j] # << >> => reviews[j] # << >>
    BY <1>3, <2>1, <2>2, <1>r
  <2> QED
    BY <1>3, <2>1, <2>3 DEF TypeOK, ReviewsAfter
<1> QED
  BY <1>1, <1>5, <1>6 DEF World

LEMMA TypeStep ==
  ASSUME TypeOK, CallsStand, ReviewsAfter, [Next]_vars
  PROVE  TypeOK'
<1>1. ASSUME NEW h \in Hosts, Step(h) \/ Crash(h) \/ \E p \in Proposals : Begin(h, p)
      PROVE  TypeOK'
  <2>1. StoreType' /\ LocalType'
    BY <1>1, StoreTypeStep, CallsType
  <2> QED
    BY <2>1 DEF StoreType, LocalType, TypeOK
<1>2. CASE World
  BY <1>2, WorldStep DEF TypeOK, store, local
<1>3. CASE UNCHANGED vars
  BY <1>3 DEF TypeOK, vars
<1> QED
  BY <1>1, <1>2, <1>3 DEF Next

-------------------------------------------------------------------------------
(* What was written is never written again.                                *)
Once(before, after) == \A i \in DOMAIN before : before[i] # None => after[i] = before[i]

Grows ==
  /\ Once(claims, claims') /\ Once(locks, locks')
  /\ Once(bindings, bindings') /\ Once(candidates, candidates')
  /\ markers \subseteq markers' /\ members \subseteq members'
  /\ scoped \subseteq scoped' /\ episodes <= episodes'
  /\ Len(slots) <= Len(slots')
  /\ \A k \in DOMAIN slots : k \in DOMAIN slots' /\ slots'[k] = slots[k]
  /\ \A i \in Ids : \A k \in DOMAIN reviews[i] :
       /\ k \in DOMAIN reviews'[i]
       /\ reviews'[i][k].disposition = reviews[i][k].disposition
       /\ reviews[i][k].recorded => reviews'[i][k].recorded

Untouched(g) ==
  /\ pc'[g] = pc[g] /\ mine'[g] = mine[g] /\ phase'[g] = phase[g]
  /\ seen'[g] = seen[g] /\ snap'[g] = snap[g] /\ target'[g] = target[g]

LEMMA StoreGrows ==
  ASSUME TypeOK, CallsStand, ReviewsAfter, [Next]_vars
  PROVE  Grows
<1>e. episodes \in Nat /\ Len(slots) \in Nat /\ slots \in Seq(Reservation)
  BY DEF TypeOK, Slots
<1>1. ASSUME NEW h \in Hosts, Step(h) \/ Crash(h) \/ \E p \in Proposals : Begin(h, p)
      PROVE  Grows
  <2>1. CASE Decide(h)
    <3>1. Once(claims, claims')
      BY <2>1, MineType DEF Decide, Once, TypeOK, Claims
    <3> QED
      BY <1>e, <2>1, <3>1 DEF Decide, Grows, Once, world
  <2>2. CASE Lock(h)
    <3>1. Once(locks, locks')
      BY <2>2, MineType DEF Lock, Once, TypeOK, Locks
    <3> QED
      BY <1>e, <2>2, <3>1 DEF Lock, Grows, Once, world
  <2>3. CASE Mark(h)
    BY <1>e, <2>3 DEF Mark, Grows, Once, world
  <2>4. CASE Slot(h)
    <3>1. pc[h] = "slot" /\ MyReservation(h) \in Reservation
      BY <2>4, MyReservationType DEF Slot
    <3>2. \/ slots' = slots
          \/ slots' = Append(slots, MyReservation(h))
      BY <2>4 DEF Slot
    <3>3. /\ Len(slots) <= Len(slots')
          /\ \A k \in DOMAIN slots : k \in DOMAIN slots' /\ slots'[k] = slots[k]
      BY <1>e, <3>1, <3>2
    <3> QED
      BY <1>e, <2>4, <3>3 DEF Slot, Grows, Once, world
  <2>5. CASE Complete(h)
    <3>1. Once(bindings, bindings')
      BY <2>5, TargetType DEF Complete, Once, TypeOK, Bindings, Engaged
    <3> QED
      BY <1>e, <2>5, <3>1 DEF Complete, Grows, Once, world
  <2>6. CASE Member(h)
    BY <1>e, <2>6 DEF Member, Grows, Once, world
  <2>7. CASE Scope(h)
    BY <1>e, <2>7 DEF Scope, Grows, Once, world
  <2>8. CASE Receipt(h)
    <3>1. Once(candidates, candidates')
      BY <2>8, TargetType DEF Receipt, Once, TypeOK, Receipts, Engaged
    <3> QED
      BY <1>e, <2>8, <3>1 DEF Receipt, Grows, Once, world
  <2>9. CASE UNCHANGED <<store, world>>
    BY <1>e, <2>9 DEF store, world, Grows, Once
  <2>10. CASE \/ Forward(h) \/ Prepare(h) \/ TakeSnapshot(h) \/ Poll(h) \/ Crash(h)
              \/ \E p \in Proposals : Begin(h, p)
    BY <2>9, <2>10 DEF Forward, Prepare, TakeSnapshot, Poll, Crash, Begin
  <2> QED
    BY <1>1, <2>1, <2>2, <2>3, <2>4, <2>5, <2>6, <2>7, <2>8, <2>10 DEF Step
<1>2. CASE World
  BY <1>e, <1>2, WorldStep DEF store, Grows, Once
<1>3. CASE UNCHANGED vars
  BY <1>e, <1>3 DEF vars, Grows, Once
<1> QED
  BY <1>1, <1>2, <1>3 DEF Next

LEMMA OthersKeep ==
  ASSUME TypeOK, NEW h \in Hosts, NEW g \in Hosts, g # h,
         Step(h) \/ Crash(h) \/ \E p \in Proposals : Begin(h, p)
  PROVE  Untouched(g)
<1> USE DEF TypeOK, Goto, Untouched, local
<1>1. ASSUME NEW o, Finish(h, o) PROVE Untouched(g)
  BY <1>1 DEF Finish
<1>2. Completed(h) => Untouched(g)
  BY <1>1 DEF Completed
<1>3. ASSUME NEW r, WinSlot(h, r) PROVE Untouched(g)
  BY <1>3 DEF WinSlot
<1>4. LoseSlot(h) => Untouched(g)
  BY <1>1 DEF LoseSlot, RetrySlot
<1>5. CASE \/ Forward(h) \/ Prepare(h) \/ TakeSnapshot(h) \/ Crash(h)
           \/ \E p \in Proposals : Begin(h, p)
  BY <1>1, <1>5 DEF Forward, Prepare, TakeSnapshot, Crash, Begin
<1>6. CASE Decide(h) \/ Lock(h) \/ Poll(h) \/ Mark(h)
  BY <1>1, <1>6 DEF Decide, Lock, Poll, Mark
<1>7. CASE Slot(h)
  BY <1>3, <1>4, <1>7 DEF Slot
<1>8. CASE Complete(h) \/ Member(h) \/ Scope(h) \/ Receipt(h)
  BY <1>1, <1>2, <1>8 DEF Complete, Member, Scope, Receipt
<1> QED
  BY <1>5, <1>6, <1>7, <1>8 DEF Step

-------------------------------------------------------------------------------
(* What a call stands on survives any step that is not its own.            *)
LEMMA EarnedStays ==
  ASSUME TypeOK, Grows, TypeOK', NEW c \in Claim, NEW s \in Snapshot, Earned(c, s)
  PROVE  Earned(c, s)'
<1>1. s.episodes \in Nat /\ episodes \in Nat /\ episodes' \in Nat
  BY DEF Snapshot, TypeOK
<1>2. CASE s.predecessor = None
  BY <1>1, <1>2 DEF Earned, Grows
<1>3. CASE s.predecessor # None
  <2> DEFINE p == s.predecessor
  <2>1. p \in Ids
    BY <1>3 DEF Snapshot
  <2>2. candidates[p] # None /\ candidates'[p] = candidates[p]
    BY <1>3, <2>1 DEF Earned, Terminal, Grows, Once, TypeOK, Receipts
  <2>3. /\ s.review \in DOMAIN reviews'[p]
        /\ reviews'[p][s.review].disposition = reviews[p][s.review].disposition
        /\ reviews'[p][s.review].recorded
    BY <1>3, <2>1 DEF Earned, Grows
  <2> QED
    BY <1>1, <1>3, <2>2, <2>3 DEF Earned, Grows, Terminal
<1> QED
  BY <1>2, <1>3

LEMMA TerminalStays ==
  ASSUME TypeOK, Grows, NEW i \in Ids, Terminal(i)
  PROVE  Terminal(i)' /\ candidates'[i] = candidates[i]
BY DEF Terminal, Grows, Once, TypeOK, Receipts

LEMMA SlotType ==
  ASSUME TypeOK
  PROVE  /\ slots \in Seq(Reservation) /\ Len(slots) \in Nat
         /\ DOMAIN slots = 1..Len(slots)
         /\ \A k \in DOMAIN slots :
              /\ slots[k] \in Reservation /\ slots[k].claim \in Claim
              /\ slots[k].snapshot \in Snapshot /\ slots[k].claim.id \in Ids
BY ClaimFields DEF TypeOK, Slots

LEMMA CallStays ==
  ASSUME TypeOK, TypeOK', Grows, NEW g \in Hosts, Untouched(g),
         Placed(g), Behind(g), Reserved(g)
  PROVE  Placed(g)' /\ Behind(g)' /\ Reserved(g)'
<1>t. mine[g] \in Claim => /\ mine[g].id \in Ids /\ mine[g].content \in Contents
                           /\ mine[g] # None
  BY ClaimFields
<1>1. Placed(g)'
  <2>1. target[g] \in Reservation => target[g].claim.id \in Ids /\ target[g] # None
    BY ClaimFields
  <2>2. InSlots(target[g]) => InSlots(target[g])'
    BY DEF InSlots, Grows, Untouched
  <2>3. phase[g] # "preflight" => pc[g] # "idle"
    BY DEF Placed
  <2> QED
    BY <1>t, <2>1, <2>2, <2>3
       DEF Placed, Untouched, Grows, Once, TypeOK, Claims, Locks, Bindings, Engaged
<1>2. Behind(g)'
  <2>1. \A k \in DOMAIN slots : Terminal(slots[k].claim.id) =>
          Terminal(slots[k].claim.id)'
    <3> SUFFICES ASSUME NEW k \in DOMAIN slots, Terminal(slots[k].claim.id)
                 PROVE  Terminal(slots[k].claim.id)'
      OBVIOUS
    <3>1. slots'[k] = slots[k] /\ slots[k].claim.id \in Ids
      BY SlotType DEF Grows
    <3> QED
      BY <3>1, TerminalStays DEF Terminal
  <2>2. seen[g] \in Nat /\ Len(slots) \in Nat /\ Len(slots') \in Nat
        /\ DOMAIN slots = 1..Len(slots)
    BY SlotType DEF TypeOK, Slots
  <2>3. \A k \in DOMAIN slots : k \in DOMAIN slots' /\ slots'[k] = slots[k]
    BY DEF Grows
  <2>4. Len(slots) <= Len(slots')
    BY DEF Grows
  <2>5. pc[g] \in Deciding \cup {"prepare"} =>
          1..seen[g] \subseteq DOMAIN slots
    BY <2>2 DEF Behind
  <2>6. pc[g] \in Engaged /\ phase[g] # "won" => 1..(seen[g] - 1) \subseteq DOMAIN slots
    BY <2>2 DEF Behind
  <2>7. ASSUME pc[g] \in Deciding \cup {"prepare"}
        PROVE  /\ seen[g] <= Len(slots')
               /\ \A k \in 1..seen[g] : Terminal(slots[k].claim.id)'
    BY <2>1, <2>2, <2>4, <2>5, <2>7 DEF Behind
  <2>8. ASSUME pc[g] \in Deciding
        PROVE  \A k \in 1..seen[g] : slots'[k].claim.id # mine[g].id
    BY <2>3, <2>5, <2>8 DEF Behind
  <2>9. ASSUME pc[g] \in Engaged, phase[g] # "won"
        PROVE  /\ seen[g] \in DOMAIN slots' /\ slots'[seen[g]] = target[g]
               /\ \A k \in 1..(seen[g] - 1) : Terminal(slots[k].claim.id)'
    BY <2>1, <2>2, <2>3, <2>6, <2>9 DEF Behind
  <2> QED
    BY <2>7, <2>8, <2>9 DEF Behind, Untouched
<1>3. Reserved(g)'
  <2>1. CASE pc[g] \in Deciding \ {"snapshot"}
    <3>1. mine[g] \in Claim /\ snap[g] \in Snapshot /\ Earned(mine[g], snap[g])
      BY <2>1 DEF Placed, Reserved, Deciding
    <3> DEFINE c == mine[g]
               s == snap[g]
    <3>2. Earned(c, s)'
      BY <3>1, EarnedStays DEF Earned, Untouched
    <3> QED
      BY <2>1, <3>2 DEF Reserved, Untouched
  <2> QED
    BY <2>1 DEF Reserved, Untouched, Deciding
<1> QED
  BY <1>1, <1>2, <1>3

-------------------------------------------------------------------------------
(* A group that is available to a candidate lets it be admitted.           *)
LEMMA AvailableEarns ==
  ASSUME IInv, NEW c \in Claim, NEW n \in 0..MaxSlots, Available(c.supersedes)
  PROVE  Earned(c, SnapshotFor(c, n))
<1> DEFINE p == c.supersedes
           s == SnapshotFor(c, n)
<1>1. s.predecessor = p /\ s.episodes = episodes /\ episodes \in Nat
  BY DEF SnapshotFor, IInv, TypeOK
<1>2. CASE p = None
  BY <1>1, <1>2 DEF Earned
<1>3. CASE p # None
  <2>1. p \in Ids /\ s.review = LatestReview(p)
    BY <1>3, ClaimFields DEF SnapshotFor
  <2>2. p \in Frontier /\ ~Deduplicates(p) /\ ~Suppresses(p)
    BY <1>3 DEF Available
  <2>3. Terminal(p)
    BY <2>2 DEF Frontier
  <2>4. LatestReview(p) # 0 /\ Disposition(p) = reviews[p][LatestReview(p)].disposition
    BY <2>2 DEF Deduplicates, Disposition
  <2>5. LatestReview(p) \in DOMAIN reviews[p] /\ reviews[p][LatestReview(p)].recorded
    BY <2>1, <2>4, LatestIsRecorded DEF IInv
  <2>6. reviews[p][LatestReview(p)] \in Review
    BY <2>1, <2>5 DEF IInv, TypeOK, Indexes
  <2>7. Disposition(p) \in {"revise", "reject"}
    BY <2>2, <2>4, <2>6, DispositionAssumption DEF Review, Deduplicates
  <2>8. claims[p] = candidates[p] /\ claims[p] \in Claim
    BY <2>1, <2>3 DEF IInv, ReceiptLast, Terminal, TypeOK, Receipts
  <2>9. Disposition(p) = "reject" =>
          Multiplier = 0 \/ episodes >= Multiplier * candidates[p].episodes
    <3>1. candidates[p].episodes \in Nat /\ Multiplier \in Nat
      BY <2>8, ClaimFields, BoundAssumption
    <3>2. Multiplier * candidates[p].episodes \in Nat
      BY <3>1
    <3> QED
      BY <1>1, <2>2, <2>8, <3>2 DEF Suppresses
  <2> QED
    BY <1>1, <1>3, <2>1, <2>3, <2>4, <2>5, <2>7, <2>9 DEF Earned
<1> QED
  BY <1>2, <1>3

LEMMA FinishStands ==
  ASSUME TypeOK, NEW h \in Hosts, NEW o, Finish(h, o)
  PROVE  Placed(h)' /\ Behind(h)' /\ Reserved(h)'
<1>1. pc'[h] = "idle" /\ phase'[h] = "preflight"
  BY DEF Finish, Goto, TypeOK
<1> QED
  BY <1>1 DEF Placed, Behind, Reserved, Engaged, Deciding

(* A forward pass that completed its slot has validated the whole stream.  *)
LEMMA CompletedStands ==
  ASSUME IInv, TypeOK', Grows, NEW h \in Hosts, Completed(h), pc[h] \in Engaged,
         slots' = slots, candidates'[target[h].claim.id] # None
  PROVE  Placed(h)' /\ Behind(h)' /\ Reserved(h)'
<1>1. CASE phase[h] = "won"
  BY <1>1, FinishStands DEF Completed, IInv
<1>2. CASE phase[h] # "won"
  <2>1. /\ pc'[h] = "prepare" /\ mine'[h] = mine[h] /\ phase'[h] = phase[h]
        /\ seen'[h] = seen[h] /\ phase'[h] # "won"
    BY <1>2 DEF Completed, Goto, IInv, TypeOK
  <2>2. Placed(h) /\ Behind(h) /\ mine[h] \in Claim /\ mine[h].id \in Ids
        /\ mine[h].content \in Contents
    BY MineType DEF IInv, CallsStand, Engaged
  <2>3. Placed(h)'
    BY <2>1, <2>2, ClaimFields
       DEF Placed, Engaged, Grows, Once, IInv, TypeOK, Claims, Locks
  <2>4. /\ seen[h] \in 1..Len(slots) /\ slots[seen[h]] = target[h]
        /\ \A k \in 1..(seen[h] - 1) : Terminal(slots[k].claim.id)
    BY <1>2, <2>2, SlotType DEF Behind, IInv
  <2>5. ASSUME NEW k \in 1..seen[h] PROVE Terminal(slots[k].claim.id)'
    <3>1. CASE k = seen[h]
      <4>1. slots'[k].claim.id = target[h].claim.id
        BY <2>4, <3>1
      <4> QED
        BY <4>1 DEF Terminal
    <3>2. CASE k # seen[h]
      <4>1. k \in 1..(seen[h] - 1) /\ k \in DOMAIN slots
        BY <2>4, <2>5, <3>2, SlotType DEF IInv
      <4>2. slots[k].claim.id \in Ids /\ Terminal(slots[k].claim.id)
        BY <2>4, <4>1, SlotType DEF IInv
      <4> QED
        BY <4>2, TerminalStays DEF IInv, Terminal
    <3> QED
      BY <3>1, <3>2
  <2>6. Behind(h)'
    BY <2>1, <2>4, <2>5, SlotType DEF Behind, Deciding, Engaged, IInv
  <2> QED
    BY <2>1, <2>3, <2>6 DEF Reserved, Deciding
<1> QED
  BY <1>1, <1>2

LEMMA BeginStands ==
  ASSUME IInv, TypeOK', Grows, NEW h \in Hosts, NEW p \in Proposals, Begin(h, p)
  PROVE  Placed(h)' /\ Behind(h)' /\ Reserved(h)'
<1>1. CASE \E o : Finish(h, o)
  BY <1>1, FinishStands DEF IInv
<1>2. CASE ~\E o : Finish(h, o)
  <2>1. p.id \in Ids /\ (claims[p.id] # None => claims[p.id] \in Claim)
    BY DEF Ids, IInv, TypeOK, Claims
  <2>2. \E c \in Claim : mine' = [mine EXCEPT ![h] = c]
    BY <1>2, <2>1, StampedIsClaim DEF Begin, IInv
  <2>3. pc[h] = "idle" /\ Goto(h, "forward") /\ UNCHANGED phase
    BY <1>2 DEF Begin
  <2>4. pc'[h] = "forward" /\ mine'[h] \in Claim /\ phase'[h] = phase[h]
    BY <2>2, <2>3 DEF Goto, IInv, TypeOK
  <2>5. phase[h] = "preflight"
    BY <2>3 DEF IInv, CallsStand, Placed
  <2> QED
    BY <2>4, <2>5 DEF Placed, Behind, Reserved, Engaged, Deciding
<1> QED
  BY <1>1, <1>2

LEMMA ForwardStands ==
  ASSUME IInv, TypeOK', Grows, NEW h \in Hosts, Forward(h)
  PROVE  Placed(h)' /\ Behind(h)' /\ Reserved(h)'
<1>1. CASE Finish(h, "store.corrupt")
  BY <1>1, FinishStands DEF IInv
<1>2. CASE ~Finish(h, "store.corrupt")
  <2>1. /\ pc[h] = "forward" /\ seen'[h] = Len(slots)
        /\ UNCHANGED <<store, mine, phase>>
        /\ \A k \in 1..(Len(slots) - 1) : Terminal(slots[k].claim.id)
    BY <1>2 DEF Forward, IInv, TypeOK
  <2>2. Placed(h) /\ phase[h] # "won"
    BY <2>1 DEF IInv, CallsStand, Placed, Engaged
  <2>3. CASE Len(slots) # 0 /\ ~Terminal(slots[Len(slots)].claim.id)
    <3>1. /\ pc'[h] = "complete" /\ target'[h] = slots[Len(slots)]
          /\ Len(slots) \in DOMAIN slots /\ target'[h] \in Reservation
      BY <1>2, <2>3, SlotType DEF Forward, Goto, IInv, TypeOK
    <3> QED
      BY <2>1, <2>2, <3>1
         DEF Placed, Behind, Reserved, Engaged, Deciding, InSlots, store, Terminal
  <2>4. CASE ~(Len(slots) # 0 /\ ~Terminal(slots[Len(slots)].claim.id))
    <3>1. pc'[h] = "prepare"
      BY <1>2, <2>4 DEF Forward, Goto, IInv, TypeOK
    <3>2. \A k \in 1..Len(slots) : Terminal(slots[k].claim.id)
      BY <2>1, <2>4, SlotType DEF IInv
    <3> QED
      BY <2>1, <2>2, <3>1, <3>2, SlotType
         DEF Placed, Behind, Reserved, Engaged, Deciding, store, Terminal, IInv
  <2> QED
    BY <2>3, <2>4
<1> QED
  BY <1>1, <1>2

LEMMA PrepareStands ==
  ASSUME IInv, TypeOK', Grows, NEW h \in Hosts, Prepare(h)
  PROVE  Placed(h)' /\ Behind(h)' /\ Reserved(h)'
<1>1. CASE \E o : Finish(h, o)
  BY <1>1, FinishStands DEF IInv
<1>2. CASE ~\E o : Finish(h, o)
  <2>1. /\ pc[h] = "prepare" /\ pc'[h] = "snapshot"
        /\ candidates[mine[h].id] = None /\ seen[h] < MaxSlots
        /\ UNCHANGED <<store, local>>
    BY <1>2, BoundAssumption DEF Prepare, Goto, IInv, TypeOK
  <2>2. Placed(h) /\ Behind(h)
    BY DEF IInv, CallsStand
  <2> QED
    BY <2>1, <2>2
       DEF Placed, Behind, Reserved, Engaged, Deciding, store, local, Terminal
<1> QED
  BY <1>1, <1>2

LEMMA TakeSnapshotStands ==
  ASSUME IInv, TypeOK', Grows, NEW h \in Hosts, TakeSnapshot(h)
  PROVE  Placed(h)' /\ Behind(h)' /\ Reserved(h)'
<1>1. CASE Finish(h, "refused")
  BY <1>1, FinishStands DEF IInv
<1>2. CASE ~Finish(h, "refused")
  <2> DEFINE s == SnapshotFor(mine[h], seen[h])
  <2>1. /\ pc[h] = "snapshot" /\ Available(mine[h].supersedes) /\ snap'[h] = s
        /\ pc'[h] = IF phase[h] = "preflight" THEN "decide" ELSE "slot"
        /\ UNCHANGED <<store, world, mine, phase, seen>>
    BY <1>2 DEF TakeSnapshot, Goto, IInv, TypeOK
  <2>2. Placed(h) /\ Behind(h) /\ mine[h] \in Claim /\ seen[h] \in 0..MaxSlots
    BY <2>1, MineType DEF IInv, CallsStand, TypeOK
  <2>3. phase[h] \in {"preflight", "admit"}
    BY <2>1, <2>2 DEF Placed, Engaged, IInv, TypeOK
  <2>4. s \in Snapshot /\ s.head = seen[h] /\ Earned(mine[h], s)
    BY <2>1, <2>2, SnapshotTypeOK, AvailableEarns DEF IInv, SnapshotFor
  <2>5. Placed(h)'
    BY <2>1, <2>2, <2>3 DEF Placed, Engaged, store
  <2>6. Behind(h)'
    BY <2>1, <2>2, <2>3 DEF Behind, Deciding, Engaged, store, Terminal
  <2>7. Reserved(h)'
    BY <2>1, <2>3, <2>4 DEF Reserved, Earned, Terminal, store, world
  <2> QED
    BY <2>5, <2>6, <2>7
<1> QED
  BY <1>1, <1>2

(* From the decision to the slot, a call keeps its snapshot.               *)
LEMMA DecidingKeeps ==
  ASSUME IInv, NEW h \in Hosts, pc[h] \in Deciding \ {"snapshot"},
         pc'[h] \in Deciding \ {"snapshot"},
         mine'[h] = mine[h], seen'[h] = seen[h], snap'[h] = snap[h],
         pc'[h] = "slot" => phase'[h] = "admit",
         UNCHANGED <<slots, candidates, world>>
  PROVE  Behind(h)' /\ Reserved(h)'
<1>1. Behind(h) /\ Reserved(h)
  BY DEF IInv, CallsStand
<1>2. Behind(h)'
  BY <1>1 DEF Behind, Deciding, Engaged, Terminal
<1>3. Reserved(h)'
  BY <1>1 DEF Reserved, Earned, Terminal, world
<1> QED
  BY <1>2, <1>3

LEMMA DecideStands ==
  ASSUME IInv, TypeOK', Grows, NEW h \in Hosts,
         Decide(h) \/ Lock(h) \/ Poll(h) \/ Mark(h)
  PROVE  Placed(h)' /\ Behind(h)' /\ Reserved(h)'
<1>1. CASE \E o : Finish(h, o)
  BY <1>1, FinishStands DEF IInv
<1>2. CASE ~\E o : Finish(h, o)
  <2>1. Placed(h) /\ TypeOK
    BY DEF IInv, CallsStand
  <2>2. CASE Decide(h)
    <3>1. /\ pc[h] = "decide" /\ pc'[h] = "lock" /\ UNCHANGED local
          /\ claims'[mine[h].id] = mine[h]
          /\ UNCHANGED <<locks, markers, slots, bindings, members, scoped, candidates, world>>
      BY <1>2, <2>1, <2>2, MineType DEF Decide, Goto, TypeOK, Claims, IInv
    <3>2. phase[h] = "preflight" \/ phase[h] = "admit"
      BY <2>1, <3>1 DEF Placed, Engaged, TypeOK
    <3>3. Placed(h)'
      BY <2>1, <3>1, <3>2 DEF Placed, Engaged, local
    <3> QED
      BY <3>1, <3>3, DecidingKeeps DEF Deciding, local
  <2>3. CASE Lock(h)
    <3>1. /\ pc[h] = "lock" /\ UNCHANGED local
          /\ \/ pc'[h] = "mark" /\ locks'[mine[h].content] = mine[h]
             \/ pc'[h] = "poll"
          /\ UNCHANGED <<claims, markers, slots, bindings, members, scoped, candidates, world>>
      BY <1>2, <2>1, <2>3, MineType DEF Lock, Goto, TypeOK, Locks, IInv
    <3>2. locks[mine[h].content] = mine[h] => locks'[mine[h].content] = mine[h]
      BY <2>1, <3>1, MineType, ClaimFields DEF Grows, Once, TypeOK, Locks, IInv
    <3>3. Placed(h)'
      BY <2>1, <3>1, <3>2 DEF Placed, Engaged, local
    <3> QED
      BY <3>1, <3>3, DecidingKeeps DEF Deciding, local
  <2>4. CASE Poll(h)
    BY <1>2, <2>4 DEF Poll
  <2>5. CASE Mark(h)
    <3>1. /\ pc[h] = "mark" /\ pc'[h] = "slot" /\ phase'[h] = "admit"
          /\ mine[h].id \in markers'
          /\ UNCHANGED <<mine, seen, snap>>
          /\ UNCHANGED <<claims, locks, slots, bindings, members, scoped, candidates, world>>
      BY <1>2, <2>1, <2>5 DEF Mark, Goto, TypeOK
    <3>2. Placed(h)'
      BY <2>1, <3>1 DEF Placed, Engaged
    <3> QED
      BY <3>1, <3>2, DecidingKeeps DEF Deciding
  <2> QED
    BY <2>2, <2>3, <2>4, <2>5
<1> QED
  BY <1>1, <1>2

LEMMA SlotStandsFor ==
  ASSUME IInv, TypeOK', Grows, NEW h \in Hosts, Slot(h)
  PROVE  Placed(h)' /\ Behind(h)' /\ Reserved(h)'
<1>1. /\ pc[h] = "slot" /\ Placed(h) /\ phase[h] = "admit"
      /\ UNCHANGED <<claims, locks, markers>>
  BY DEF Slot, IInv, CallsStand, Reserved
<1>2. CASE WinSlot(h, MyReservation(h))
  <2>1. /\ phase'[h] = "won" /\ target'[h] = MyReservation(h) /\ pc'[h] = "complete"
        /\ mine'[h] = mine[h]
    BY <1>2 DEF WinSlot, Goto, IInv, TypeOK
  <2>2. MyReservation(h) \in Reservation
    BY <1>1, MyReservationType DEF IInv
  <2>3. \E k \in DOMAIN slots' : slots'[k] = MyReservation(h)
    <3>1. CASE \E k \in DOMAIN slots : slots[k] = MyReservation(h)
      BY <3>1 DEF Grows
    <3>2. CASE slots' = Append(slots, MyReservation(h))
      BY <3>2, <2>2, SlotType DEF IInv
    <3>3. CASE ~(\E k \in DOMAIN slots : slots[k] = MyReservation(h)) /\ LoseSlot(h)
      <4>1. \/ pc'[h] = "idle"
            \/ pc'[h] = "forward"
        BY <3>3 DEF LoseSlot, RetrySlot, Finish, Goto, IInv, TypeOK
      <4> QED
        BY <2>1, <4>1
    <3> QED
      BY <3>1, <3>2, <3>3 DEF Slot
  <2> QED
    BY <1>1, <2>1, <2>2, <2>3 DEF Placed, Behind, Reserved, Engaged, Deciding, InSlots
<1>3. CASE LoseSlot(h)
  <2>1. CASE \E o : Finish(h, o)
    BY <2>1, FinishStands DEF IInv
  <2>2. CASE RetrySlot(h)
    <3>1. pc'[h] = "forward" /\ mine'[h] = mine[h] /\ phase'[h] = phase[h]
      BY <2>2 DEF RetrySlot, Goto, IInv, TypeOK
    <3> QED
      BY <1>1, <3>1 DEF Placed, Behind, Reserved, Engaged, Deciding
  <2> QED
    BY <1>3, <2>1, <2>2 DEF LoseSlot
<1> QED
  BY <1>2, <1>3 DEF Slot

LEMMA CompleteStands ==
  ASSUME IInv, TypeOK', Grows, NEW h \in Hosts,
         Complete(h) \/ Member(h) \/ Scope(h) \/ Receipt(h)
  PROVE  Placed(h)' /\ Behind(h)' /\ Reserved(h)'
<1>1. pc[h] \in Engaged /\ Placed(h) /\ Behind(h)
  BY DEF Complete, Member, Scope, Receipt, Engaged, IInv, CallsStand
<1>2. target[h].claim.id \in Ids /\ target[h].claim # None
  BY <1>1, TargetType, ClaimFields DEF IInv
<1>3. CASE \E o : Finish(h, o)
  BY <1>3, FinishStands DEF IInv
<1>4. CASE Completed(h) /\ ~\E o : Finish(h, o)
  <2>1. slots' = slots /\ candidates'[target[h].claim.id] # None
    <3>1. CASE Complete(h)
      <4>1. Terminal(target[h].claim.id) \/ pc'[h] = "member"
        BY <3>1, <1>4 DEF Complete, Goto, IInv, TypeOK
      <4>2. pc'[h] = "prepare"
        BY <1>4 DEF Completed, Goto, IInv, TypeOK
      <4> QED
        BY <3>1, <4>1, <4>2 DEF Complete, Terminal
    <3>2. CASE Receipt(h)
      BY <3>2, <1>2, <1>4 DEF Receipt, IInv, TypeOK, Receipts
    <3>3. CASE Member(h) \/ Scope(h)
      BY <1>4, <3>3 DEF Member, Scope, Completed, Goto, IInv, TypeOK
    <3> QED
      BY <3>1, <3>2, <3>3
  <2> QED
    BY <1>1, <1>4, <2>1, CompletedStands
<1>5. CASE ~Completed(h) /\ ~\E o : Finish(h, o)
  <2>1. /\ pc[h] = "complete" /\ pc'[h] = "member"
             /\ bindings'[target[h].claim.id] = target[h]
             /\ UNCHANGED <<local, claims, locks, markers, slots, members, scoped, candidates>>
        \/ /\ pc[h] = "member" /\ pc'[h] = "scope" /\ target[h].claim.id \in members'
           /\ UNCHANGED <<local, claims, locks, markers, slots, bindings, scoped, candidates>>
        \/ /\ pc[h] = "scope" /\ pc'[h] = "receipt" /\ target[h].claim.id \in scoped'
           /\ UNCHANGED <<local, claims, locks, markers, slots, bindings, members, candidates>>
    BY <1>2, <1>5 DEF Complete, Member, Scope, Receipt, Goto, IInv, TypeOK, Bindings
  <2>2. Placed(h)'
    BY <1>1, <2>1 DEF Placed, Engaged, InSlots, local
  <2>3. Behind(h)'
    BY <1>1, <2>1 DEF Behind, Engaged, Deciding, Terminal, local
  <2> QED
    BY <2>1, <2>2, <2>3 DEF Reserved, Deciding
<1> QED
  BY <1>3, <1>4, <1>5

LEMMA CallsStep ==
  ASSUME IInv, TypeOK', Grows, [Next]_vars
  PROVE  CallsStand'
<1>1. ASSUME NEW h \in Hosts, Step(h) \/ Crash(h) \/ \E p \in Proposals : Begin(h, p),
             NEW g \in Hosts
      PROVE  (Placed(g) /\ Behind(g) /\ Reserved(g))'
  <2>1. CASE g = h
    <3>1. CASE Step(h)
      BY <2>1, <3>1, ForwardStands, PrepareStands, TakeSnapshotStands, DecideStands,
         SlotStandsFor, CompleteStands DEF Step
    <3>2. CASE Crash(h)
      BY <2>1, <3>2, FinishStands DEF Crash, IInv
    <3>3. CASE \E p \in Proposals : Begin(h, p)
      BY <2>1, <3>3, BeginStands
    <3> QED
      BY <1>1, <3>1, <3>2, <3>3
  <2>2. CASE g # h
    <3>1. Untouched(g)
      BY <1>1, <2>2, OthersKeep DEF IInv
    <3> QED
      BY <3>1, CallStays DEF IInv, CallsStand
  <2> QED
    BY <2>1, <2>2
<1>2. ASSUME UNCHANGED <<pc, local>>, NEW g \in Hosts
      PROVE  (Placed(g) /\ Behind(g) /\ Reserved(g))'
  <2>1. Untouched(g)
    BY <1>2 DEF Untouched, local
  <2> QED
    BY <2>1, CallStays DEF IInv, CallsStand
<1>3. World \/ UNCHANGED vars => UNCHANGED <<pc, local>>
  BY WorldStep DEF IInv, vars, local
<1> QED
  BY <1>1, <1>2, <1>3 DEF Next, CallsStand

-------------------------------------------------------------------------------
(* What the store holds.                                                   *)

(* A slot stands on what was written before it.                            *)
LEMMA SlotStays ==
  ASSUME IInv, TypeOK', Grows, NEW k \in DOMAIN slots
  PROVE  SlotStands(k)'
<1> DEFINE r == slots[k]
<1>1. /\ slots'[k] = r /\ r \in Reservation /\ SlotStands(k)
      /\ r.claim \in Claim /\ r.snapshot \in Snapshot
      /\ r.claim.id \in Ids /\ r.claim.content \in Contents
      /\ k \in 1..Len(slots) /\ Len(slots) \in Nat
  BY SlotType, ClaimFields DEF IInv, SlotsStand, Grows
<1> HIDE DEF r
<1>2. /\ claims'[r.claim.id] = r.claim /\ locks'[r.claim.content] = r.claim
      /\ r.claim.id \in markers'
  BY <1>1, ClaimFields
     DEF SlotStands, BundleExact, Grows, Once, IInv, TypeOK, Claims, Locks, r
<1>3. Earned(r.claim, r.snapshot)'
  <2>1. Earned(r.claim, r.snapshot)
    BY <1>1 DEF SlotStands, r
  <2> DEFINE c == r.claim
             s == r.snapshot
  <2>2. \A cc \in Claim, ss \in Snapshot : Earned(cc, ss) => Earned(cc, ss)'
    BY EarnedStays DEF IInv
  <2>3. r' = r
    BY <1>1 DEF r
  <2> QED
    BY <1>1, <2>1, <2>2, <2>3 DEF Earned
<1>4. ASSUME NEW j \in 1..(k - 1)
      PROVE  Terminal(slots[j].claim.id)' /\ slots'[j].claim.id # r.claim.id
  <2>1. j \in DOMAIN slots /\ slots'[j] = slots[j] /\ slots[j].claim.id \in Ids
    BY <1>1, SlotType DEF IInv, Grows
  <2>2. Terminal(slots[j].claim.id) /\ slots[j].claim.id # r.claim.id
    BY <1>1 DEF SlotStands, r
  <2> QED
    BY <2>1, <2>2, TerminalStays DEF IInv, Terminal
<1>5. r.snapshot.head = k - 1
  BY <1>1 DEF SlotStands, r
<1>6. r' = r
  BY <1>1 DEF r
<1> QED
  BY <1>1, <1>2, <1>3, <1>4, <1>5, <1>6 DEF SlotStands, BundleExact

(* A slot that is won stands on the stream its snapshot was taken of.      *)
LEMMA NewSlotStands ==
  ASSUME IInv, TypeOK', Grows, NEW h \in Hosts, Slot(h), slots' # slots,
         NEW n, n = Len(slots)
  PROVE  Len(slots') = n + 1 /\ SlotStands(n + 1)'
<1> DEFINE r == MyReservation(h)
<1>1. /\ pc[h] = "slot" /\ n = seen[h] /\ slots' = Append(slots, r)
      /\ UNCHANGED <<claims, locks, markers, candidates, world>>
  BY DEF Slot
<1>2. /\ Placed(h) /\ Behind(h) /\ Reserved(h) /\ r \in Reservation
      /\ slots \in Seq(Reservation) /\ n \in Nat
  BY <1>1, MyReservationType, SlotType DEF IInv, CallsStand
<1>3. /\ Len(slots') = n + 1 /\ slots'[n + 1] = r
      /\ \A k \in 1..n : slots'[k] = slots[k]
  <2> HIDE DEF r
  <2>1. slots' = Append(slots, r) /\ r \in Reservation /\ slots \in Seq(Reservation)
    BY <1>1, <1>2
  <2> QED
    BY <2>1, <1>2
<1>4. r.claim = mine[h] /\ r.snapshot = snap[h]
  BY DEF MyReservation
<1>5. /\ r.snapshot.head = n /\ BundleExact(r) /\ r.claim.id \in markers
      /\ Earned(r.claim, r.snapshot)
  BY <1>1, <1>2, <1>4 DEF Placed, Reserved, Deciding, BundleExact
<1>6. \A j \in 1..n : Terminal(slots[j].claim.id) /\ slots[j].claim.id # r.claim.id
  BY <1>1, <1>2, <1>4 DEF Behind, Deciding
<1> HIDE DEF r
<1>7. (n + 1) - 1 = n
  BY <1>2
<1>8. slots'[n + 1] = r
  BY <1>3
<1>9. /\ r.snapshot.head = n
      /\ locks'[r.claim.content] = r.claim /\ claims'[r.claim.id] = r.claim
      /\ r.claim.id \in markers'
  BY <1>1, <1>5 DEF BundleExact
<1>10. \A j \in 1..n : candidates'[slots'[j].claim.id] # None
                       /\ slots'[j].claim.id # r.claim.id
  BY <1>1, <1>3, <1>6 DEF Terminal
<1>11. LET p == r.snapshot.predecessor
           d == reviews'[p][r.snapshot.review]
       IN  /\ p = r.claim.supersedes /\ r.snapshot.episodes <= episodes'
           /\ p # None =>
                /\ candidates'[p] # None /\ r.snapshot.review \in DOMAIN reviews'[p]
                /\ d.recorded
                /\ \/ d.disposition = "revise"
                   \/ /\ d.disposition = "reject"
                      /\ Multiplier = 0 \/
                           r.snapshot.episodes >= Multiplier * candidates'[p].episodes
  BY <1>1, <1>5 DEF Earned, Terminal, world
<1>12. SlotStands(n + 1)'
  BY <1>7, <1>8, <1>9, <1>10, <1>11 DEF SlotStands, BundleExact, Earned, Terminal
<1> QED
  BY <1>3, <1>12

LEMMA SlotsStep ==
  ASSUME IInv, TypeOK', Grows, [Next]_vars
  PROVE  SlotsStand'
<1>1. CASE slots' = slots
  BY <1>1, SlotStays DEF SlotsStand
<1>2. CASE slots' # slots
  <2>1. PICK h \in Hosts : Slot(h)
    <3>1. ASSUME NEW h \in Hosts, Step(h) \/ Crash(h) \/ \E p \in Proposals : Begin(h, p)
          PROVE  Slot(h)
      BY <1>2, <3>1 DEF Step, Crash, Begin, Forward, Prepare, TakeSnapshot, Decide, Lock,
         Poll, Mark, Complete, Member, Scope, Receipt, store
    <3>2. World \/ UNCHANGED vars => slots' = slots
      BY WorldStep DEF IInv, store, vars
    <3> QED
      BY <1>2, <3>1, <3>2 DEF Next
  <2>2. PICK n : n = Len(slots)
    OBVIOUS
  <2>3. Len(slots') = n + 1 /\ SlotStands(n + 1)'
    BY <1>2, <2>1, <2>2, NewSlotStands
  <2>4. DOMAIN slots' = 1..(n + 1) /\ DOMAIN slots = 1..n /\ n \in Nat
    BY <2>2, <2>3, SlotType DEF IInv, TypeOK, Slots
  <2>5. ASSUME NEW k \in DOMAIN slots' PROVE SlotStands(k)'
    <3>1. k = n + 1 \/ k \in DOMAIN slots
      BY <2>4
    <3> QED
      BY <2>3, <3>1, SlotStays
  <2> QED
    BY <2>5 DEF SlotsStand
<1> QED
  BY <1>1, <1>2

(* One slot per candidate.                                                 *)
LEMMA SlotsDiffer ==
  ASSUME IInv, NEW j \in DOMAIN slots, NEW k \in DOMAIN slots,
         slots[j].claim.id = slots[k].claim.id
  PROVE  j = k
<1>1. j \in 1..Len(slots) /\ k \in 1..Len(slots) /\ Len(slots) \in Nat
  BY SlotType DEF IInv
<1>2. ASSUME NEW a \in DOMAIN slots, NEW b \in DOMAIN slots, a < b, a \in Nat, b \in Nat, 1 <= a
      PROVE  slots[a].claim.id # slots[b].claim.id
  <2>1. a \in 1..(b - 1)
    BY <1>2
  <2> QED
    BY <2>1 DEF IInv, SlotsStand, SlotStands
<1> QED
  BY <1>1, <1>2

LEMMA BindingsStep ==
  ASSUME IInv, TypeOK', Grows, [Next]_vars
  PROVE  BindingsStand'
<1> SUFFICES ASSUME NEW i \in Ids, bindings'[i] # None
             PROVE  bindings'[i].claim.id = i /\ \E k \in DOMAIN slots' : slots'[k] = bindings'[i]
  BY DEF BindingsStand, InSlots
<1>1. CASE bindings[i] # None
  BY <1>1 DEF IInv, BindingsStand, InSlots, Grows, Once, TypeOK, Bindings
<1>2. CASE bindings[i] = None
  <2>1. PICK h \in Hosts : Complete(h)
    <3>1. ASSUME NEW h \in Hosts, Step(h) \/ Crash(h) \/ \E p \in Proposals : Begin(h, p)
          PROVE  Complete(h)
      BY <1>2, <3>1 DEF Step, Crash, Begin, Forward, Prepare, TakeSnapshot, Decide, Lock,
         Poll, Mark, Slot, Member, Scope, Receipt, store
    <3>2. World \/ UNCHANGED vars => bindings' = bindings
      BY WorldStep DEF IInv, store, vars
    <3> QED
      BY <1>2, <3>1, <3>2 DEF Next
  <2>2. target[h].claim.id = i /\ bindings'[i] = target[h]
    BY <1>2, <2>1 DEF Complete, IInv, TypeOK, Bindings
  <2>3. InSlots(target[h])
    BY <2>1 DEF Complete, Engaged, IInv, CallsStand, Placed
  <2> QED
    BY <2>2, <2>3 DEF InSlots, Grows
<1> QED
  BY <1>1, <1>2

(* Reviews are of receipts: the index of a candidate without one is empty. *)
LEMMA ReviewsStep ==
  ASSUME IInv, TypeOK', Grows, [Next]_vars
  PROVE  ReviewsAfter'
<1>1. CASE reviews' = reviews
  <2> SUFFICES ASSUME NEW i \in Ids
               PROVE  /\ Len(reviews[i]) <= MaxReviews
                      /\ reviews[i] # << >> => candidates'[i] # None
    BY <1>1 DEF ReviewsAfter, Terminal
  <2>1. Terminal(i) => candidates'[i] # None
    BY TerminalStays DEF IInv, Terminal
  <2> QED
    BY <2>1 DEF IInv, ReviewsAfter
<1>2. CASE World
  BY <1>2, WorldStep DEF IInv, ReviewsAfter, Terminal, store
<1>3. ASSUME NEW h \in Hosts, Step(h) \/ Crash(h) \/ \E p \in Proposals : Begin(h, p)
      PROVE  reviews' = reviews
  BY <1>3 DEF Step, Crash, Begin, Forward, Prepare, TakeSnapshot, Decide, Lock,
     Poll, Mark, Slot, Complete, Member, Scope, Receipt, world
<1> QED
  BY <1>1, <1>2, <1>3 DEF Next, vars

LEMMA ReceiptsStep ==
  ASSUME IInv, TypeOK', Grows, [Next]_vars
  PROVE  ReceiptLast'
<1> SUFFICES ASSUME NEW i \in Ids, candidates'[i] # None
             PROVE  LET c == candidates'[i]
                    IN  /\ claims'[i] = c /\ locks'[c.content] = c
                        /\ i \in markers' /\ i \in members' /\ i \in scoped'
                        /\ bindings'[i].claim = c
                        /\ \E k \in DOMAIN slots' : slots'[k] = bindings'[i]
  BY DEF ReceiptLast, Terminal
<1>1. CASE candidates[i] # None
  <2> DEFINE c == candidates[i]
  <2>1. candidates'[i] = c /\ c \in Claim /\ c.content \in Contents /\ c # None
    BY <1>1, ClaimFields DEF Grows, Once, IInv, TypeOK, Receipts
  <2>2. /\ claims[i] = c /\ locks[c.content] = c
        /\ i \in markers /\ i \in members /\ i \in scoped
        /\ bindings[i].claim = c
        /\ \E k \in DOMAIN slots : slots[k] = bindings[i]
    BY <1>1 DEF IInv, ReceiptLast, Terminal
  <2>3. bindings[i] # None
    BY <2>2, SlotType, ClaimFields DEF IInv
  <2> QED
    BY <2>1, <2>2, <2>3 DEF Grows, Once, IInv, TypeOK, Claims, Locks, Bindings
<1>2. CASE candidates[i] = None
  <2>1. PICK h \in Hosts : Receipt(h)
    <3>1. ASSUME NEW h \in Hosts, Step(h) \/ Crash(h) \/ \E p \in Proposals : Begin(h, p)
          PROVE  Receipt(h)
      BY <1>2, <3>1 DEF Step, Crash, Begin, Forward, Prepare, TakeSnapshot, Decide, Lock,
         Poll, Mark, Slot, Complete, Member, Scope, store
    <3>2. World \/ UNCHANGED vars => candidates' = candidates
      BY WorldStep DEF IInv, store, vars
    <3> QED
      BY <1>2, <3>1, <3>2 DEF Next
  <2>2. /\ target[h].claim.id = i /\ candidates'[i] = target[h].claim
        /\ UNCHANGED <<claims, locks, markers, slots, bindings, members, scoped>>
        /\ pc[h] = "receipt"
    BY <1>2, <2>1 DEF Receipt, IInv, TypeOK, Receipts
  <2>3. /\ InSlots(target[h]) /\ bindings[i] = target[h]
        /\ i \in members /\ i \in scoped
    BY <2>2 DEF Engaged, IInv, CallsStand, Placed
  <2>4. PICK k \in DOMAIN slots : slots[k] = target[h]
    BY <2>3 DEF InSlots
  <2>5. BundleExact(target[h]) /\ i \in markers
    BY <2>2, <2>4 DEF IInv, SlotsStand, SlotStands
  <2> QED
    BY <2>2, <2>3, <2>4, <2>5 DEF BundleExact
<1> QED
  BY <1>1, <1>2

-------------------------------------------------------------------------------
LEMMA Inductive == Spec => []IInv
<1>1. Init => IInv
  <2> SUFFICES ASSUME Init PROVE IInv
    OBVIOUS
  <2>1. TypeOK
    BY BoundAssumption DEF Init, TypeOK, Claims, Locks, Indexes, Slots, Bindings,
       Receipts, Steps, Outcomes
  <2>2. CallsStand
    BY DEF Init, CallsStand, Placed, Behind, Reserved, Engaged, Deciding
  <2>3. SlotsStand /\ BindingsStand /\ ReviewsAfter /\ ReceiptLast
    BY BoundAssumption
       DEF Init, SlotsStand, BindingsStand, ReviewsAfter, ReceiptLast, Terminal
  <2> QED
    BY <2>1, <2>2, <2>3 DEF IInv
<1>2. IInv /\ [Next]_vars => IInv'
  <2> SUFFICES ASSUME IInv, [Next]_vars PROVE IInv'
    OBVIOUS
  <2>1. TypeOK' /\ Grows
    BY TypeStep, StoreGrows DEF IInv
  <2>2. CallsStand'
    BY <2>1, CallsStep
  <2>3. SlotsStand' /\ BindingsStand'
    BY <2>1, SlotsStep, BindingsStep
  <2>4. ReviewsAfter' /\ ReceiptLast'
    BY <2>1, ReviewsStep, ReceiptsStep
  <2> QED
    BY <2>1, <2>2, <2>3, <2>4 DEF IInv
<1> QED
  BY <1>1, <1>2, PTL DEF Spec

(* Whatever hosts, proposals and bounds there are, every record and every  *)
(* call has its type; the stream keeps its ceiling (MAX_ADMISSION_SLOTS).  *)
THEOREM AdmissionTypeCorrect == Spec => []TypeOK
<1>1. IInv => TypeOK
  BY DEF IInv
<1> QED
  BY <1>1, Inductive, PTL

(* A candidate that can be read has all it stands on, of one and the same  *)
(* proposal, at every crash point (completeAdmissionReservation).          *)
THEOREM ReceiptIsLast == Spec => []ReceiptLast
<1>1. IInv => ReceiptLast
  BY DEF IInv
<1> QED
  BY <1>1, Inductive, PTL

(* A slot that was won is never stranded: what completeAdmissionReservation *)
(* verifies before it goes on is there, whoever crashed.                    *)
THEOREM SlotsAreCompletable == Spec => []SlotCompletable
<1>1. IInv => SlotCompletable
  <2> SUFFICES ASSUME IInv, NEW k \in DOMAIN slots
               PROVE  ChecksHold(slots[k])
    BY DEF SlotCompletable
  <2> DEFINE r == slots[k]
             i == r.claim.id
  <2>1. SlotStands(k) /\ i \in Ids /\ r \in Reservation
    BY SlotType DEF IInv, SlotsStand
  <2>2. SlotExact(r) /\ BundleExact(r) /\ i \in markers
    BY <2>1 DEF SlotExact, SlotStands
  <2>3. CASE Terminal(i)
    <3>1. candidates[i] = r.claim
      BY <2>1, <2>2, <2>3 DEF IInv, ReceiptLast, BundleExact
    <3>2. PICK j \in DOMAIN slots : slots[j] = bindings[i]
      BY <2>1, <2>3 DEF IInv, ReceiptLast
    <3>3. slots[j].claim.id = i
      BY <2>1, <2>3, <3>1, <3>2 DEF IInv, ReceiptLast
    <3>4. bindings[i] = r
      BY <3>2, <3>3, SlotsDiffer
    <3> QED
      BY <2>2, <2>3, <3>1, <3>4 DEF ChecksHold
  <2>4. CASE ~Terminal(i)
    <3>1. reviews[i] = << >>
      BY <2>1, <2>4 DEF IInv, ReviewsAfter
    <3>2. LineageExact(r.snapshot)
      BY <2>1 DEF SlotStands, Earned, LineageExact
    <3> QED
      BY <2>2, <2>4, <3>1, <3>2 DEF ChecksHold
  <2> QED
    BY <2>3, <2>4
<1> QED
  BY <1>1, Inductive, PTL

(* An admitted successor was asked for by a review of its predecessor, and *)
(* a rejected predecessor yielded to the evidence the policy demands       *)
(* (classifyAssessedRecurrenceGovernance).                                 *)
THEOREM OverridesAreEarned == Spec => []OverrideEarned
<1>1. IInv => OverrideEarned
  <2> SUFFICES ASSUME IInv, NEW i \in Ids, Terminal(i), candidates[i].supersedes # None
               PROVE  LET s == bindings[i].snapshot
                          p == candidates[i].supersedes
                          d == reviews[p][s.review]
                      IN  /\ s.predecessor = p /\ s.review # 0 /\ d.recorded
                          /\ \/ d.disposition = "revise"
                             \/ /\ d.disposition = "reject"
                                /\ Multiplier = 0 \/
                                     s.episodes >= Multiplier * candidates[p].episodes
    BY DEF OverrideEarned
  <2>1. PICK k \in DOMAIN slots : slots[k] = bindings[i]
    BY DEF IInv, ReceiptLast
  <2>2. Earned(bindings[i].claim, bindings[i].snapshot) /\ bindings[i].claim = candidates[i]
    BY <2>1 DEF IInv, ReceiptLast, SlotsStand, SlotStands
  <2>3. bindings[i].snapshot \in Snapshot
    BY <2>1, SlotType DEF IInv
  <2>4. candidates[i].supersedes \in Ids
    BY ClaimFields DEF IInv, TypeOK, Receipts, Terminal
  <2>5. reviews[candidates[i].supersedes] \in Seq(Review)
    BY <2>4 DEF IInv, TypeOK, Indexes
  <2>6. 0 \notin DOMAIN reviews[candidates[i].supersedes]
    BY <2>5
  <2> QED
    BY <2>2, <2>6 DEF Earned
<1> QED
  BY <1>1, Inductive, PTL

-------------------------------------------------------------------------------
(***************************************************************************)
(* The refinement.  A slot follows on the one before it (Follows), because *)
(* the frontier of a stream whose every slot has its receipt is its last   *)
(* slot's candidate, and a snapshot taken of that stream is still good for *)
(* as long as the stream has not grown.                                    *)
(***************************************************************************)

Before(n) == IF n = 0 THEN None ELSE slots[n].claim.id

Follows(k) == slots[k].claim.supersedes = Before(k - 1)

(* A call that may still append its slot proposes to follow the last one.  *)
WillFollow(h) ==
  pc[h] \in Deciding \ {"snapshot"} /\ seen[h] = Len(slots) =>
    mine[h].supersedes = Before(Len(slots))

ChainStands ==
  /\ \A k \in DOMAIN slots : Follows(k)
  /\ \A h \in Hosts : WillFollow(h)

(* The candidates of the group are those of its slots, once all have their *)
(* receipts; each but the last is superseded.                              *)
LEMMA FrontierIsLast ==
  ASSUME IInv, \A k \in DOMAIN slots : Follows(k),
         \A k \in DOMAIN slots : Terminal(slots[k].claim.id), NEW s,
         Available(s)
  PROVE  s = Before(Len(slots))
<1> DEFINE current == {i \in members : Terminal(i)}
<1>t. /\ Len(slots) \in Nat /\ DOMAIN slots = 1..Len(slots)
      /\ \A k \in DOMAIN slots : slots[k].claim.id \in Ids
  BY SlotType DEF IInv
<1>1. ASSUME NEW i \in current
      PROVE  \E k \in DOMAIN slots : slots[k].claim.id = i /\ claims[i] = slots[k].claim
  <2>1. i \in Ids /\ Terminal(i)
    BY DEF IInv, TypeOK
  <2>2. PICK k \in DOMAIN slots : slots[k] = bindings[i]
    BY <2>1 DEF IInv, ReceiptLast
  <2>3. bindings[i] # None /\ claims[i] = bindings[i].claim
    BY <2>1, <2>2, SlotType, ClaimFields DEF IInv, ReceiptLast
  <2> QED
    BY <2>1, <2>2, <2>3 DEF IInv, BindingsStand
<1>2. ASSUME NEW k \in DOMAIN slots
      PROVE  slots[k].claim.id \in current /\ claims[slots[k].claim.id] = slots[k].claim
  <2>1. Terminal(slots[k].claim.id) /\ slots[k].claim.id \in members
    BY <1>t DEF IInv, ReceiptLast
  <2> QED
    BY <2>1 DEF IInv, SlotsStand, SlotStands, BundleExact
<1>3. CASE Len(slots) = 0
  <2>1. current = {}
    BY <1>1, <1>3, <1>t
  <2>2. Frontier = {}
    BY <2>1 DEF Frontier
  <2> QED
    BY <1>3, <2>2 DEF Available, Before
<1>4. CASE Len(slots) # 0
  <2> DEFINE last == slots[Len(slots)].claim.id
  <2>1. Len(slots) \in DOMAIN slots /\ last \in current
    BY <1>2, <1>4, <1>t
  <2>2. ASSUME NEW j \in current PROVE claims[j].supersedes # last
    <3>1. PICK k \in DOMAIN slots : slots[k].claim.id = j /\ claims[j] = slots[k].claim
      BY <1>1
    <3>2. claims[j].supersedes = Before(k - 1) /\ k \in 1..Len(slots)
      BY <3>1, <1>t DEF Follows
    <3>3. CASE k = 1
      BY <3>2, <3>3, <1>t, <2>1, ClaimFields DEF Before
    <3>4. CASE k # 1
      <4>1. k - 1 \in DOMAIN slots /\ k - 1 # Len(slots) /\ k - 1 # 0
        BY <3>2, <3>4, <1>t
      <4>2. claims[j].supersedes = slots[k - 1].claim.id
        BY <3>2, <4>1 DEF Before
      <4> QED
        BY <4>1, <4>2, <2>1, SlotsDiffer
    <3> QED
      BY <3>3, <3>4
  <2>3. last \in Frontier
    BY <2>1, <2>2 DEF Frontier
  <2> QED
    BY <1>4, <2>3 DEF Available, Before
<1> QED
  BY <1>3, <1>4, <1>t

(* A slot that is appended follows on the last one.                        *)
LEMMA FollowsStep ==
  ASSUME IInv, TypeOK', Grows, ChainStands, [Next]_vars
  PROVE  \A k \in DOMAIN slots' : Follows(k)'
<1>t. Len(slots) \in Nat /\ DOMAIN slots = 1..Len(slots) /\ slots \in Seq(Reservation)
  BY SlotType DEF IInv
<1>1. CASE slots' = slots
  BY <1>1 DEF ChainStands, Follows, Before
<1>2. CASE slots' # slots
  <2>1. PICK h \in Hosts : Slot(h)
    BY <1>2, WorldStep DEF IInv, Next, Step, Crash, Begin, Forward, Prepare, TakeSnapshot,
       Decide, Lock, Poll, Mark, Complete, Member, Scope, Receipt, store, vars
  <2>2. /\ pc[h] = "slot" /\ seen[h] = Len(slots)
        /\ slots' = Append(slots, MyReservation(h))
    BY <1>2, <2>1 DEF Slot
  <2>3. mine[h].supersedes = Before(Len(slots))
    BY <2>2 DEF ChainStands, WillFollow, Deciding
  <2>4. MyReservation(h) \in Reservation /\ MyReservation(h).claim = mine[h]
    BY <2>2, MyReservationType DEF IInv, MyReservation
  <2> SUFFICES ASSUME NEW k \in 1..(Len(slots) + 1) PROVE Follows(k)'
    BY <2>2, <2>4, <1>t
  <2>5. /\ \A n \in 1..Len(slots) : slots'[n] = slots[n]
        /\ slots'[Len(slots) + 1] = MyReservation(h)
    BY <2>2, <2>4, <1>t
  <2>6. Before(k - 1)' = Before(k - 1)
    <3>1. k - 1 = 0 \/ k - 1 \in 1..Len(slots)
      BY <1>t
    <3> QED
      BY <2>5, <3>1 DEF Before
  <2>7. CASE k \in 1..Len(slots)
    BY <2>5, <2>6, <2>7, <1>t DEF ChainStands, Follows
  <2>8. CASE k = Len(slots) + 1
    <3>1. k - 1 = Len(slots)
      BY <2>8, <1>t
    <3> QED
      BY <2>3, <2>4, <2>5, <2>6, <2>8, <3>1 DEF Follows
  <2> QED
    BY <2>7, <2>8, <1>t
<1> QED
  BY <1>1, <1>2

LEMMA LastStays ==
  ASSUME IInv, Grows, Len(slots') = Len(slots)
  PROVE  Before(Len(slots))' = Before(Len(slots))
<1>1. Len(slots) \in Nat /\ DOMAIN slots = 1..Len(slots)
  BY SlotType DEF IInv
<1>2. Len(slots) # 0 => slots'[Len(slots)] = slots[Len(slots)]
  BY <1>1 DEF Grows
<1> QED
  BY <1>1, <1>2 DEF Before

(* What a call has decided stays good while the stream does not grow.      *)
LEMMA WillFollowStays ==
  ASSUME IInv, TypeOK', Grows, NEW h \in Hosts, WillFollow(h),
         pc[h] \in Deciding \ {"snapshot"},
         mine'[h] = mine[h], seen'[h] = seen[h]
  PROVE  WillFollow(h)'
<1> SUFFICES ASSUME seen[h] = Len(slots')
             PROVE  mine[h].supersedes = Before(Len(slots))'
  BY DEF WillFollow
<1>1. Len(slots) \in Nat /\ Len(slots') \in Nat
  BY SlotType DEF IInv, TypeOK, Slots
<1>2. seen[h] <= Len(slots) /\ Len(slots) <= Len(slots')
  BY DEF IInv, CallsStand, Behind, Grows
<1>3. Len(slots') = Len(slots)
  BY <1>1, <1>2
<1> QED
  BY <1>3, LastStays DEF WillFollow

LEMMA WillFollowOthers ==
  ASSUME IInv, TypeOK', Grows, NEW g \in Hosts, Untouched(g), WillFollow(g)
  PROVE  WillFollow(g)'
<1>1. CASE pc[g] \in Deciding \ {"snapshot"}
  BY <1>1, WillFollowStays DEF Untouched
<1>2. CASE pc[g] \notin Deciding \ {"snapshot"}
  BY <1>2 DEF WillFollow, Untouched
<1> QED
  BY <1>1, <1>2

LEMMA WillFollowOwn ==
  ASSUME IInv, TypeOK', Grows, ChainStands, NEW h \in Hosts,
         Step(h) \/ Crash(h) \/ \E p \in Proposals : Begin(h, p)
  PROVE  WillFollow(h)'
<1>t. pc \in [Hosts -> Steps] /\ seen \in [Hosts -> 0..MaxSlots] /\ pc' \in [Hosts -> Steps]
  BY DEF IInv, TypeOK
<1>w. WillFollow(h)
  BY DEF ChainStands
<1>1. CASE TakeSnapshot(h)
  <2>1. CASE Finish(h, "refused")
    BY <2>1, <1>t DEF Finish, Goto, WillFollow, Deciding
  <2>2. CASE ~Finish(h, "refused")
    <3>1. /\ Available(mine[h].supersedes) /\ slots' = slots
          /\ mine' = mine /\ seen' = seen /\ pc[h] = "snapshot"
      BY <1>1, <2>2 DEF TakeSnapshot, store
    <3> SUFFICES ASSUME seen[h] = Len(slots)
                 PROVE  mine[h].supersedes = Before(Len(slots))
      BY <3>1 DEF WillFollow, Before
    <3>2. \A k \in DOMAIN slots : Terminal(slots[k].claim.id)
      BY <3>1, SlotType DEF IInv, CallsStand, Behind, Deciding
    <3> QED
      BY <3>1, <3>2, FrontierIsLast DEF ChainStands
  <2> QED
    BY <2>1, <2>2
<1>2. CASE Decide(h) \/ Lock(h) \/ Mark(h)
  <2>1. pc[h] \in Deciding \ {"snapshot"}
    BY <1>2 DEF Decide, Lock, Mark, Deciding
  <2>2. CASE mine'[h] = mine[h] /\ seen'[h] = seen[h]
    BY <1>w, <2>1, <2>2, WillFollowStays
  <2>3. CASE pc'[h] = "idle"
    BY <2>3 DEF WillFollow, Deciding
  <2>4. (mine'[h] = mine[h] /\ seen'[h] = seen[h]) \/ pc'[h] = "idle"
    BY <1>2, <1>t DEF Decide, Lock, Mark, Finish, Goto, local
  <2> QED
    BY <2>2, <2>3, <2>4
<1>3. CASE ~TakeSnapshot(h) /\ ~(Decide(h) \/ Lock(h) \/ Mark(h))
  <2>1. pc'[h] \notin Deciding \ {"snapshot"}
    <3>1. ASSUME NEW o, Finish(h, o) PROVE pc'[h] = "idle"
      BY <3>1, <1>t DEF Finish, Goto
    <3>2. Completed(h) => pc'[h] \in {"idle", "prepare"}
      BY <3>1, <1>t DEF Completed, Goto
    <3>3. CASE \E p \in Proposals : Begin(h, p)
      BY <3>1, <3>3, <1>t DEF Begin, Goto, Deciding
    <3>4. CASE Forward(h) \/ Prepare(h) \/ Poll(h) \/ Crash(h)
      BY <3>1, <3>4, <1>t DEF Forward, Prepare, Poll, Crash, Goto, Deciding
    <3>5. CASE Slot(h)
      BY <3>1, <3>5, <1>t DEF Slot, WinSlot, LoseSlot, RetrySlot, Goto, Deciding
    <3>6. CASE Complete(h) \/ Member(h) \/ Scope(h) \/ Receipt(h)
      BY <3>1, <3>2, <3>6, <1>t DEF Complete, Member, Scope, Receipt, Goto, Deciding
    <3> QED
      BY <1>3, <3>3, <3>4, <3>5, <3>6 DEF Step
  <2> QED
    BY <2>1 DEF WillFollow
<1> QED
  BY <1>1, <1>2, <1>3

LEMMA ChainStep ==
  ASSUME IInv, TypeOK', Grows, ChainStands, [Next]_vars
  PROVE  ChainStands'
<1>1. ASSUME NEW g \in Hosts PROVE WillFollow(g)'
  <2>1. CASE \E h \in Hosts : Step(h) \/ Crash(h) \/ \E p \in Proposals : Begin(h, p)
    <3>1. PICK h \in Hosts : Step(h) \/ Crash(h) \/ \E p \in Proposals : Begin(h, p)
      BY <2>1
    <3>2. CASE h = g
      BY <3>1, <3>2, WillFollowOwn
    <3>3. CASE h # g
      BY <3>1, <3>3, OthersKeep, WillFollowOthers DEF IInv, ChainStands
    <3> QED
      BY <3>2, <3>3
  <2>2. CASE World \/ UNCHANGED vars
    <3>1. Untouched(g)
      BY <2>2, WorldStep DEF IInv, Untouched, local, vars
    <3> QED
      BY <3>1, WillFollowOthers DEF ChainStands
  <2> QED
    BY <2>1, <2>2 DEF Next
<1> QED
  BY <1>1, FollowsStep DEF ChainStands

LEMMA ChainAlways == Spec => []ChainStands
<1>1. Init => ChainStands
  BY DEF Init, ChainStands, WillFollow, Deciding
<1>2. IInv /\ ChainStands /\ [Next]_vars => ChainStands'
  <2> SUFFICES ASSUME IInv, ChainStands, [Next]_vars PROVE ChainStands'
    OBVIOUS
  <2> QED
    BY TypeStep, StoreGrows, ChainStep DEF IInv
<1> QED
  BY <1>1, <1>2, Inductive, PTL DEF Spec

-------------------------------------------------------------------------------
admissions == [k \in Admitted |-> slots[k].claim]

(* Only the last slot can be without its receipt.                          *)
LEMMA AdmittedIsPrefix ==
  ASSUME IInv
  PROVE  /\ \A k \in DOMAIN slots : k # Len(slots) => Terminal(slots[k].claim.id)
         /\ Admitted = {k \in DOMAIN slots : Terminal(slots[k].claim.id)}
<1>1. Len(slots) \in Nat /\ DOMAIN slots = 1..Len(slots)
  BY SlotType DEF IInv
<1>2. ASSUME NEW k \in DOMAIN slots, k # Len(slots) PROVE Terminal(slots[k].claim.id)
  <2>1. Len(slots) \in DOMAIN slots /\ k \in 1..(Len(slots) - 1)
    BY <1>1, <1>2
  <2> QED
    BY <2>1 DEF IInv, SlotsStand, SlotStands
<1>3. ASSUME NEW k \in Admitted PROVE Terminal(slots[k].claim.id)
  <2>1. PICK n \in DOMAIN slots : k <= n /\ Terminal(slots[n].claim.id)
    BY DEF Admitted
  <2>2. CASE k = n
    BY <2>1, <2>2
  <2>3. CASE k # n
    BY <1>1, <1>2, <2>1, <2>3 DEF Admitted
  <2> QED
    BY <2>2, <2>3
<1>4. ASSUME NEW k \in DOMAIN slots, Terminal(slots[k].claim.id) PROVE k \in Admitted
  BY <1>1, <1>4 DEF Admitted
<1> QED
  BY <1>2, <1>3, <1>4 DEF Admitted

LEMMA AdmissionsKept ==
  ASSUME IInv, Grows, Admitted' = Admitted
  PROVE  admissions' = admissions
BY DEF admissions, Admitted, Grows

(* A slot that is appended is not admitted yet.                            *)
LEMMA SlotAdmitsNone ==
  ASSUME IInv, Grows, NEW h \in Hosts, Slot(h)
  PROVE  Admitted' = Admitted
<1>t. /\ Len(slots) \in Nat /\ DOMAIN slots = 1..Len(slots) /\ slots \in Seq(Reservation)
      /\ candidates' = candidates
  BY SlotType DEF IInv, Slot
<1>1. CASE slots' = slots
  BY <1>1, <1>t DEF Admitted, Terminal
<1>2. CASE slots' # slots
  <2>1. /\ pc[h] = "slot" /\ seen[h] = Len(slots)
        /\ slots' = Append(slots, MyReservation(h))
    BY <1>2 DEF Slot
  <2>2. /\ MyReservation(h) \in Reservation /\ MyReservation(h).claim = mine[h]
        /\ mine[h].id \in Ids
    BY <2>1, MyReservationType, MineType DEF IInv, MyReservation
  <2>3. ~Terminal(mine[h].id)
    <3> SUFFICES ASSUME Terminal(mine[h].id) PROVE FALSE
      OBVIOUS
    <3>1. PICK k \in DOMAIN slots : slots[k] = bindings[mine[h].id]
      BY <2>2 DEF IInv, ReceiptLast
    <3>2. slots[k].claim.id = mine[h].id
      BY <2>2, <3>1, SlotType, ClaimFields DEF IInv, BindingsStand
    <3>3. \A n \in 1..seen[h] : slots[n].claim.id # mine[h].id
      BY <2>1 DEF IInv, CallsStand, Behind, Deciding
    <3> QED
      BY <2>1, <3>2, <3>3, <1>t
  <2>4. /\ DOMAIN slots' = 1..(Len(slots) + 1)
        /\ \A k \in 1..Len(slots) : slots'[k] = slots[k]
        /\ slots'[Len(slots) + 1] = MyReservation(h)
    BY <2>1, <2>2, <1>t
  <2>5. Admitted' = {k \in DOMAIN slots' :
                       \E n \in DOMAIN slots' : k <= n /\ Terminal(slots'[n].claim.id)}
    BY <1>t DEF Admitted, Terminal
  <2>6. ASSUME NEW n \in DOMAIN slots', Terminal(slots'[n].claim.id)
        PROVE  n \in DOMAIN slots /\ Terminal(slots[n].claim.id)
    BY <2>2, <2>3, <2>4, <2>6, <1>t
  <2>7. ASSUME NEW k \in DOMAIN slots', k \notin DOMAIN slots PROVE k \notin Admitted'
    BY <2>4, <2>5, <2>6, <2>7, <1>t
  <2>8. ASSUME NEW k \in DOMAIN slots PROVE k \in Admitted' <=> k \in Admitted
    BY <2>4, <2>5, <2>6, <1>t DEF Admitted
  <2> QED
    BY <2>5, <2>7, <2>8 DEF Admitted
<1> QED
  BY <1>1, <1>2

(* A function on 1..n is the sequence of its values.                       *)
LEMMA Appended ==
  ASSUME NEW n \in Nat \ {0}, NEW S, NEW f, f \in [1..n -> S]
  PROVE  /\ [k \in 1..(n - 1) |-> f[k]] \in Seq(S)
         /\ Len([k \in 1..(n - 1) |-> f[k]]) = n - 1
         /\ f = Append([k \in 1..(n - 1) |-> f[k]], f[n])
<1> DEFINE g == [k \in 1..(n - 1) |-> f[k]]
<1>1. n - 1 \in Nat /\ g \in [1..(n - 1) -> S]
  OBVIOUS
<1>2. g \in Seq(S) /\ Len(g) = n - 1
  BY <1>1
<1>3. f \in Seq(S) /\ Len(f) = n /\ f[n] \in S
  OBVIOUS
<1>4. Append(g, f[n]) \in Seq(S) /\ Len(Append(g, f[n])) = n
  BY <1>2, <1>3
<1>5. ASSUME NEW k \in 1..n PROVE Append(g, f[n])[k] = f[k]
  <2>1. CASE k = n
    BY <1>2, <1>3, <2>1
  <2>2. CASE k # n
    <3>1. k \in 1..(n - 1)
      BY <2>2
    <3> QED
      BY <1>2, <1>3, <3>1
  <2> QED
    BY <2>1, <2>2
<1>6. Append(g, f[n]) = f
  BY <1>3, <1>4, <1>5, SeqEqual
<1> QED
  BY <1>2, <1>6

(* A receipt admits the candidate of the last slot, which follows on the   *)
(* one admitted before it.                                                 *)
LEMMA ReceiptAdmits ==
  ASSUME IInv, TypeOK', Grows, ChainStands, NEW h \in Hosts, Receipt(h),
         candidates' # candidates
  PROVE  Chain!Next
<1> DEFINE r == target[h]
           n == Len(slots)
<1>t. /\ n \in Nat /\ DOMAIN slots = 1..n /\ slots \in Seq(Reservation)
      /\ slots' = slots /\ r \in Reservation /\ r.claim \in Claim
      /\ r.claim.id \in Ids /\ pc[h] = "receipt"
  BY SlotType, TargetType DEF IInv, Receipt, Engaged
<1>1. ~Terminal(r.claim.id) /\ candidates' = [candidates EXCEPT ![r.claim.id] = r.claim]
  <2>1. candidates' = [candidates EXCEPT ![r.claim.id] = r.claim]
    BY DEF Receipt
  <2>2. candidates[r.claim.id] \in {None, r.claim}
    BY DEF Receipt
  <2> QED
    BY <2>1, <2>2 DEF Terminal, IInv, TypeOK, Receipts
<1>2. PICK m \in DOMAIN slots : slots[m] = r
  BY <1>t DEF IInv, CallsStand, Placed, InSlots, Engaged
<1>3. m = n /\ slots[n] = r /\ n # 0
  BY <1>1, <1>2, <1>t, AdmittedIsPrefix
<1>4. Admitted = 1..(n - 1)
  <2>1. Admitted = {k \in DOMAIN slots : Terminal(slots[k].claim.id)}
    BY AdmittedIsPrefix
  <2>2. \A k \in DOMAIN slots : k # n => Terminal(slots[k].claim.id)
    BY AdmittedIsPrefix
  <2> QED
    BY <2>1, <2>2, <1>1, <1>3, <1>t
<1>5. Admitted' = 1..n
  <2>1. Terminal(slots[n].claim.id)'
    BY <1>1, <1>3, <1>t, ClaimFields DEF Terminal, IInv, TypeOK, Receipts
  <2>2. Admitted' = {k \in DOMAIN slots : \E l \in DOMAIN slots :
                       k <= l /\ candidates'[slots[l].claim.id] # None}
    BY <1>t DEF Admitted, Terminal
  <2>3. candidates'[slots[n].claim.id] # None /\ n \in DOMAIN slots
    BY <2>1, <1>3, <1>t DEF Terminal
  <2>4. \A k \in 1..n : k <= n
    BY <1>t
  <2> QED
    BY <2>2, <2>3, <2>4, <1>t
<1>6. admissions = [k \in 1..(n - 1) |-> slots[k].claim]
  BY <1>4 DEF admissions
<1>7. admissions' = [k \in 1..n |-> slots[k].claim]
  BY <1>5, <1>t DEF admissions
<1> DEFINE f == [k \in 1..n |-> slots[k].claim]
<1>8. f \in [1..n -> Claim] /\ n \in Nat \ {0}
  BY <1>3, <1>t, SlotType DEF IInv
<1>9. f[n] = r.claim /\ admissions' = f
  BY <1>3, <1>7, <1>t
<1>10. [k \in 1..(n - 1) |-> f[k]] = admissions
  BY <1>6, <1>t
<1>11. /\ admissions \in Seq(Claim) /\ Len(admissions) = n - 1
       /\ admissions' = Append(admissions, r.claim)
  <2> HIDE DEF f, n
  <2> QED
    BY <1>8, <1>9, <1>10, Appended
<1>12. r.claim.supersedes = Before(n - 1)
  BY <1>3, <1>t DEF ChainStands, Follows
<1>13. r.claim.supersedes =
         IF admissions = <<>> THEN None ELSE admissions[Len(admissions)].id
  <2>1. CASE n = 1
    <3>1. admissions = <<>>
      BY <1>11, <2>1, EmptySeq
    <3> QED
      BY <1>12, <2>1, <3>1 DEF Before
  <2>2. CASE n # 1
    <3>1. n - 1 \in 1..(n - 1) /\ admissions # <<>> /\ n - 1 # 0
      BY <1>11, <1>3, <1>t, <2>2
    <3>2. admissions[n - 1] = slots[n - 1].claim
      BY <1>6, <3>1
    <3> QED
      BY <1>11, <1>12, <3>1, <3>2 DEF Before
  <2> QED
    BY <2>1, <2>2
<1>14. ASSUME NEW k \in DOMAIN admissions
       PROVE  admissions[k].id # r.claim.id /\ admissions[k].content # r.claim.content
  <2>1. k \in 1..(n - 1) /\ admissions[k] = slots[k].claim /\ k \in DOMAIN slots
    BY <1>6, <1>t
  <2>2. slots[k].claim.id # slots[n].claim.id
    BY <2>1, <1>3, <1>t, SlotsDiffer
  <2>3. BundleExact(slots[k]) /\ BundleExact(slots[n])
    BY <2>1, <1>2, <1>3 DEF IInv, SlotsStand, SlotStands
  <2> QED
    BY <2>1, <2>2, <2>3, <1>3 DEF BundleExact
<1> QED
  BY <1>t, <1>11, <1>13, <1>14 DEF Chain!Next, Chain!Admit, Chain!Tip, admissions

LEMMA ChainNext ==
  ASSUME IInv, IInv', ChainStands, [Next]_vars
  PROVE  [Chain!Next]_admissions
<1>g. Grows
  BY StoreGrows DEF IInv
<1>1. ASSUME UNCHANGED <<slots, candidates>> PROVE admissions' = admissions
  BY <1>1 DEF admissions, Admitted, Terminal
<1>2. ASSUME NEW h \in Hosts, Step(h) \/ Crash(h) \/ \E p \in Proposals : Begin(h, p)
      PROVE  [Chain!Next]_admissions
  <2>1. CASE Slot(h)
    BY <2>1, <1>g, SlotAdmitsNone, AdmissionsKept
  <2>2. CASE Receipt(h)
    <3>1. CASE candidates' = candidates
      BY <2>2, <3>1, <1>1 DEF Receipt
    <3>2. CASE candidates' # candidates
      BY <2>2, <3>2, <1>g, ReceiptAdmits DEF IInv
    <3> QED
      BY <3>1, <3>2
  <2>3. CASE ~Slot(h) /\ ~Receipt(h)
    BY <1>1, <1>2, <2>3 DEF Step, Crash, Begin, Forward, Prepare, TakeSnapshot, Decide, Lock,
       Poll, Mark, Complete, Member, Scope, store
  <2> QED
    BY <2>1, <2>2, <2>3
<1>3. CASE World
  BY <1>1, <1>3, WorldStep DEF IInv, store
<1>4. CASE UNCHANGED vars
  BY <1>1, <1>4 DEF vars
<1> QED
  BY <1>2, <1>3, <1>4 DEF Next

(* The admissions of a group implement the chain of decision 0018: each    *)
(* candidate supersedes exactly the one admitted before it, and none is    *)
(* withdrawn, reordered or admitted twice, for any hosts and proposals     *)
(* (forwardCompleteCandidateAdmissions, appendCandidateAdmissionSlot).     *)
THEOREM AdmissionImplementsChain == Spec => ImplementsChain
<1>1. Init => Chain!Init
  <2> SUFFICES ASSUME Init PROVE admissions = <<>>
    BY DEF Chain!Init, admissions
  <2>1. Admitted = {}
    BY DEF Init, Admitted
  <2> QED
    BY <2>1 DEF admissions
<1>2. IInv /\ IInv' /\ ChainStands /\ [Next]_vars => [Chain!Next]_admissions
  BY ChainNext
<1> QED
  BY Inductive, ChainAlways, <1>1, <1>2, PTL
  DEF Spec, ImplementsChain, Chain!Spec, admissions
===============================================================================
