--------------------------- MODULE ResolutionProofs ---------------------------
(***************************************************************************)
(* What resolution and exposure guarantee for any interventions, scopes,   *)
(* requests and hosts.                                                     *)
(*                                                                         *)
(* A resolution reads interventions that move, so what it holds is judged  *)
(* against what it has seen begin: each member it found was in force at a  *)
(* transition no older than the call (Held), whatever stayed in force is   *)
(* found or still ahead (NothingMissed), and the scopes ahead keep the     *)
(* members of different scopes apart (NothingTwice).  An acknowledgement   *)
(* stands on its index entry, which an append at a current revision cannot *)
(* write twice (EntryAhead).                                               *)
(***************************************************************************)
EXTENDS Resolution, FiniteSetTheorems, SequenceTheorems, WellFoundedInduction, TLAPS

Receipt == [content : Resolved, resolvedAt : Instants]
ExposureSet == [content : Exposed, exposedAt : Instants]
Refusals == {"resolution.destination_drift", "resolution.intervention_stale",
             "exposure.refused", "exposure.already_acknowledged",
             "exposure.limit_exceeded", "store.conflict"}
Answers == [code : {"given"} \cup Refusals, record : Receipt \cup ExposureSet \cup {None}]

Writing == {"load", "index", "append", "create"}

Job == [pc : {"idle", "member", "return"} \cup Writing, request : Requests \cup {None},
        scopes : Seq(Scopes), todo : Seq(Interventions), group : SUBSET Interventions,
        found : Seq(Interventions), heads : [Interventions -> Nat] \cup {None},
        opened : [Interventions -> Nat] \cup {None}, content : Exposed \cup {None},
        revision : Nat, tries : Nat, answer : Answers \cup {None}]

TypeOK ==
  /\ members \in [Scopes -> Seq(Interventions)]
  /\ stream \in [Interventions -> Seq(InterventionState)]
  /\ receipts \in SUBSET Receipt
  /\ index \in [Episodes -> Seq(Resolved)]
  /\ sets \in SUBSET ExposureSet
  /\ work \in [Hosts -> Job]
  /\ spent \in [calls : Nat, crashes : Nat]

(* What a call has by program counter.                                     *)
CallStands(h) ==
  LET j == work[h] IN
    /\ j.pc = "idle" => j = Idle
    /\ j.pc = "member" =>
         /\ j.request \in Requests /\ j.content = None /\ j.answer = None
         /\ j.heads \in [Interventions -> Nat] /\ j.opened \in [Interventions -> Nat]
    /\ j.pc \in Writing =>
         /\ j.request = None /\ j.content \in Exposed /\ j.answer = None
         /\ ReadableSet([content |-> j.content])
    /\ j.pc = "return" /\ ~Asking(h) /\ j.answer.code = "given" =>
         j.answer.record \in receipts

(* Receipts are one for one content, and can be read back.                 *)
ReceiptsStand ==
  /\ \A r, s \in receipts : r.content = s.content => r = s
  /\ \A r \in receipts : Readable(r.content)

(* A membership lists interventions of its scope, once, and no stream is   *)
(* begun without one.                                                      *)
MembersStand ==
  /\ \A s \in Scopes :
       Distinct(members[s]) /\ \A i \in Elements(members[s]) : Of[i].scope = s
  /\ \A i \in Interventions : stream[i] # <<>> => i \in Elements(members[Of[i].scope])

Got(j) == Elements(j.found) \cup j.group

(* What was found was in force when it was read, after the call began.     *)
Held(h) ==
  LET j == work[h] IN
    /\ \A i \in Interventions : j.opened[i] <= Len(stream[i])
    /\ \A i \in Got(j) :
         /\ j.opened[i] <= j.heads[i] /\ j.heads[i] \in 1..Len(stream[i])
         /\ ResolvesFrom(stream[i][j.heads[i]])

(* No member is found twice: those of the scopes ahead are of none of the  *)
(* scopes behind.                                                          *)
NothingTwice(h) ==
  LET j == work[h] IN
    /\ Distinct(j.found) /\ Distinct(j.todo) /\ Distinct(j.scopes)
    /\ Elements(j.found) \cap j.group = {} /\ Got(j) \cap Elements(j.todo) = {}
    /\ \A i \in Got(j) \cup Elements(j.todo) : Of[i].scope \notin Elements(j.scopes)

(* What stays in force is found, or still ahead.                           *)
NothingMissed(h) ==
  LET j == work[h] IN
    \A i \in Interventions :
      /\ Serves(i) /\ InForceThroughout(h, i)
      /\ Of[i].scope \in Elements(MatchedScopes(j.request.scope))
      => i \in Got(j) \cup Elements(j.todo) \/ Of[i].scope \in Elements(j.scopes)

ReadingStands(h) == At(h, "member") => Held(h) /\ NothingTwice(h) /\ NothingMissed(h)

(* The index lists each receipt once, under its episode.                   *)
IndexStands ==
  \A e \in Episodes :
    /\ Distinct(index[e]) /\ Len(index[e]) <= MaxExposures
    /\ \A r \in Elements(index[e]) : r.request.episode = e

(* What is about to be appended at a current revision is not there, and    *)
(* there is room; what is about to be created is indexed.                  *)
EntryAhead(h) ==
  /\ At(h, "append") => LET entries == index[Episode(h)] IN
       /\ work[h].revision <= Len(entries)
       /\ work[h].revision = Len(entries) =>
            Content(h).receipt \notin Elements(entries) /\ Len(entries) < MaxExposures
  /\ At(h, "create") => Content(h).receipt \in Elements(index[Episode(h)])

(* A set stands on its index entry.                                        *)
SetsStand ==
  \A x \in sets :
    /\ ReadableSet(x)
    /\ x.content.receipt \in Elements(index[x.content.receipt.request.episode])

HostsStand == \A h \in Hosts : CallStands(h) /\ ReadingStands(h) /\ EntryAhead(h)

IInv == TypeOK /\ HostsStand /\ ReceiptsStand /\ MembersStand /\ IndexStands /\ SetsStand

-------------------------------------------------------------------------------
(***************************************************************************)
(* Operators.                                                              *)
(***************************************************************************)

(* A natural number bounded set has a greatest element.                    *)
LEMMA Greatest ==
  ASSUME NEW N \in Nat, NEW R \in SUBSET (0..N), R # {}
  PROVE  \E k \in R : \A l \in R : l <= k
<1> DEFINE T == {N - r : r \in R}
<1>1. T \subseteq Nat /\ T # {}
  <2>1. \A r \in R : N - r \in Nat
    OBVIOUS
  <2> QED
    BY <2>1
<1>2. PICK x \in T : \A y \in T : ~(<<y, x>> \in OpToRel(<, Nat))
  BY <1>1, NatLessThanWellFounded, WFMin
<1>3. PICK k \in R : x = N - k
  OBVIOUS
<1>4. ASSUME NEW l \in R PROVE l <= k
  <2>1. N - l \in T /\ N - l \in Nat /\ N - k \in Nat
    OBVIOUS
  <2>2. ~(N - l < N - k)
    BY <1>2, <1>3, <2>1 DEF OpToRel
  <2> QED
    BY <2>2
<1> QED
  BY <1>4

(* The order of birth enumerates a set of interventions: each once. The    *)
(* place of one is the number of those born before it.                     *)
LEMMA BirthEnumerates ==
  ASSUME NEW S \in SUBSET Interventions
  PROVE  /\ ByBirth(S) \in Seq(S)
         /\ Elements(ByBirth(S)) = S /\ Distinct(ByBirth(S))
<1> DEFINE n == Cardinality(S)
           Below(i) == {j \in S : Of[j].createdAt < Of[i].createdAt}
           rank == [i \in S |-> Cardinality(Below(i)) + 1]
           Ordered(s) == \A m, k \in DOMAIN s :
                           m < k => Of[s[m]].createdAt < Of[s[k]].createdAt
<1>1. IsFiniteSet(S) /\ n \in Nat
  BY BirthAssumption, FS_Subset, FS_CardinalityType
<1>2. \A i \in S : Of[i].createdAt \in Nat
  BY BirthAssumption
<1>3. ASSUME NEW i \in S
      PROVE  /\ IsFiniteSet(Below(i)) /\ Cardinality(Below(i)) \in Nat
             /\ Cardinality(Below(i)) < n
  <2>1. Below(i) \in SUBSET S /\ i \notin Below(i)
    BY <1>2
  <2> HIDE DEF Below
  <2>2. IsFiniteSet(Below(i)) /\ Cardinality(Below(i)) <= n /\ Cardinality(Below(i)) # n
    BY <1>1, <2>1, FS_Subset
  <2>3. Cardinality(Below(i)) \in Nat
    BY <2>2, FS_CardinalityType
  <2> QED
    BY <1>1, <2>2, <2>3
<1>4. ASSUME NEW i \in S, NEW j \in S, Of[i].createdAt < Of[j].createdAt
      PROVE  rank[i] < rank[j]
  <2>1. Below(i) \in SUBSET Below(j) /\ i \in Below(j) /\ i \notin Below(i)
    BY <1>2, <1>4
  <2>2. Cardinality(Below(i)) <= Cardinality(Below(j))
        /\ Cardinality(Below(i)) # Cardinality(Below(j))
    BY <1>3, <2>1, FS_Subset
  <2>3. rank[i] = Cardinality(Below(i)) + 1 /\ rank[j] = Cardinality(Below(j)) + 1
    OBVIOUS
  <2>4. Cardinality(Below(i)) \in Nat /\ Cardinality(Below(j)) \in Nat
    BY <1>3
  <2> HIDE DEF rank, Below
  <2> QED
    BY <2>2, <2>3, <2>4
<1>5. rank \in Injection(S, 1..n)
  <2>1. rank \in [S -> 1..n]
    <3>1. \A i \in S : Cardinality(Below(i)) + 1 \in 1..n
      <4> HIDE DEF Below, n
      <4> QED
        BY <1>1, <1>3
    <3> QED
      BY <3>1
  <2> HIDE DEF rank
  <2>2. ASSUME NEW i \in S, NEW j \in S, rank[i] = rank[j] PROVE i = j
    <3>0. rank[i] \in Int /\ rank[j] \in Int
      BY <2>1
    <3>1. ~(Of[i].createdAt < Of[j].createdAt) /\ ~(Of[j].createdAt < Of[i].createdAt)
      BY <1>4, <2>2, <3>0
    <3> QED
      BY <1>2, <3>1, BirthAssumption
  <2> QED
    BY <2>1, <2>2 DEF Injection, IsInjective
<1>6. rank \in Surjection(S, 1..n)
  BY <1>1, <1>5, FS_Injection, FS_Interval
<1> DEFINE at == [k \in 1..n |-> CHOOSE i \in S : rank[i] = k]
<1>7. \A k \in 1..n : at[k] \in S /\ rank[at[k]] = k
  BY <1>6 DEF Surjection
<1>8. at \in [1..n -> S] /\ Ordered(at)
  <2>1. ASSUME NEW m \in 1..n, NEW k \in 1..n, m < k
        PROVE  Of[at[m]].createdAt < Of[at[k]].createdAt
    <3>1. at[m] \in S /\ at[k] \in S /\ rank[at[m]] = m /\ rank[at[k]] = k
      BY <1>7
    <3> HIDE DEF at, rank
    <3>2. at[m] # at[k] /\ ~(Of[at[k]].createdAt < Of[at[m]].createdAt)
      <4>1. m \in Int /\ k \in Int /\ ~(k < m) /\ m # k
        BY <1>1, <2>1
      <4> QED
        BY <1>4, <3>1, <4>1
    <3>3. Of[at[m]].createdAt \in Nat /\ Of[at[k]].createdAt \in Nat
          /\ Of[at[m]].createdAt # Of[at[k]].createdAt
      BY <3>1, <3>2, BirthAssumption
    <3> QED
      BY <3>2, <3>3
  <2> QED
    BY <1>7, <2>1
<1> DEFINE b == ByBirth(S)
<1>9. b \in [1..n -> S] /\ Ordered(b)
  BY <1>8 DEF ByBirth
<1>10. \A m, k \in 1..n : b[m] = b[k] => m = k
  <2> SUFFICES ASSUME NEW m \in 1..n, NEW k \in 1..n, b[m] = b[k] PROVE m = k
    OBVIOUS
  <2>1. ~(Of[b[m]].createdAt < Of[b[k]].createdAt) /\ ~(Of[b[k]].createdAt < Of[b[m]].createdAt)
    BY <1>2, <1>9
  <2>2. ~(m < k) /\ ~(k < m)
    BY <1>9, <2>1
  <2> QED
    BY <2>2
<1>11. b \in Surjection(1..n, S)
  <2>1. b \in Injection(1..n, S)
    BY <1>9, <1>10 DEF Injection, IsInjective
  <2> QED
    BY <1>1, <2>1, FS_Injection, FS_Interval
<1>12. Elements(b) = S
  BY <1>9, <1>11 DEF Surjection, Elements
<1> QED
  BY <1>1, <1>9, <1>10, <1>12 DEF Distinct

(* What two sequences hold together, and that it is distinct when each is  *)
(* and they share nothing.                                                 *)
LEMMA Joined ==
  ASSUME NEW S, NEW s \in Seq(S), NEW t \in Seq(S)
  PROVE  /\ s \o t \in Seq(S)
         /\ Elements(s \o t) = Elements(s) \cup Elements(t)
         /\ Distinct(s) /\ Distinct(t) /\ Elements(s) \cap Elements(t) = {}
              => Distinct(s \o t)
<1>1. /\ s \o t \in Seq(S) /\ Len(s \o t) = Len(s) + Len(t)
      /\ \A i \in 1..Len(s) + Len(t) :
           (s \o t)[i] = IF i <= Len(s) THEN s[i] ELSE t[i - Len(s)]
  BY ConcatProperties
<1>2. Len(s) \in Nat /\ Len(t) \in Nat /\ DOMAIN s = 1..Len(s) /\ DOMAIN t = 1..Len(t)
      /\ DOMAIN (s \o t) = 1..Len(s) + Len(t)
  BY <1>1, LenProperties
<1>3. Elements(s) \cup Elements(t) \subseteq Elements(s \o t)
  <2>1. \A i \in 1..Len(s) : i \in DOMAIN (s \o t) /\ (s \o t)[i] = s[i]
    BY <1>1, <1>2
  <2>2. \A i \in 1..Len(t) : Len(s) + i \in DOMAIN (s \o t) /\ (s \o t)[Len(s) + i] = t[i]
    BY <1>1, <1>2
  <2> QED
    BY <1>2, <2>1, <2>2 DEF Elements
<1>4. Elements(s \o t) \subseteq Elements(s) \cup Elements(t)
  BY <1>1, <1>2 DEF Elements
<1>5. ASSUME Distinct(s), Distinct(t), Elements(s) \cap Elements(t) = {}
      PROVE  Distinct(s \o t)
  <2> SUFFICES ASSUME NEW m \in 1..Len(s) + Len(t), NEW k \in 1..Len(s) + Len(t),
                      (s \o t)[m] = (s \o t)[k]
               PROVE  m = k
    BY <1>2 DEF Distinct
  <2>1. CASE m <= Len(s) /\ k <= Len(s)
    BY <1>1, <1>2, <1>5, <2>1 DEF Distinct
  <2>2. CASE ~(m <= Len(s)) /\ ~(k <= Len(s))
    <3>1. m - Len(s) \in DOMAIN t /\ k - Len(s) \in DOMAIN t
          /\ t[m - Len(s)] = t[k - Len(s)]
      BY <1>1, <1>2, <2>2
    <3> QED
      BY <1>2, <1>5, <3>1 DEF Distinct
  <2>3. \A i \in 1..Len(s), l \in 1..Len(t) : s[i] # t[l]
    BY <1>2, <1>5 DEF Elements
  <2>4. CASE m <= Len(s) /\ ~(k <= Len(s))
    BY <1>1, <1>2, <2>3, <2>4
  <2>5. CASE ~(m <= Len(s)) /\ k <= Len(s)
    BY <1>1, <1>2, <2>3, <2>5
  <2> QED
    BY <2>1, <2>2, <2>4, <2>5
<1> QED
  BY <1>1, <1>3, <1>4, <1>5

(* The first of a sequence is one of it, and the rest is what it was.      *)
LEMMA Rest ==
  ASSUME NEW S, NEW s \in Seq(S), s # <<>>
  PROVE  /\ Head(s) \in S /\ Tail(s) \in Seq(S)
         /\ Elements(s) = {Head(s)} \cup Elements(Tail(s))
         /\ Distinct(s) => Distinct(Tail(s)) /\ Head(s) \notin Elements(Tail(s))
<1>1. /\ Len(s) \in Nat /\ Len(s) >= 1 /\ DOMAIN s = 1..Len(s) /\ Head(s) = s[1]
      /\ Tail(s) \in Seq(S) /\ DOMAIN Tail(s) = 1..Len(s) - 1
      /\ \A i \in 1..Len(s) - 1 : Tail(s)[i] = s[i + 1]
  OBVIOUS
<1>2. Elements(s) \subseteq {Head(s)} \cup Elements(Tail(s))
  <2> SUFFICES ASSUME NEW i \in 1..Len(s) PROVE s[i] \in {Head(s)} \cup Elements(Tail(s))
    BY <1>1 DEF Elements
  <2>1. CASE i = 1
    BY <1>1, <2>1
  <2>2. CASE i # 1
    <3>1. i - 1 \in 1..Len(s) - 1 /\ Tail(s)[i - 1] = s[i]
      BY <1>1, <2>2
    <3> QED
      BY <1>1, <3>1 DEF Elements
  <2> QED
    BY <2>1, <2>2
<1>3. {Head(s)} \cup Elements(Tail(s)) \subseteq Elements(s)
  <2>1. \A i \in 1..Len(s) - 1 : i + 1 \in 1..Len(s)
    BY <1>1
  <2> QED
    BY <1>1, <2>1 DEF Elements
<1>4. ASSUME Distinct(s) PROVE Distinct(Tail(s)) /\ Head(s) \notin Elements(Tail(s))
  <2>1. \A i, k \in 1..Len(s) - 1 : Tail(s)[i] = Tail(s)[k] => i = k
    <3> SUFFICES ASSUME NEW i \in 1..Len(s) - 1, NEW k \in 1..Len(s) - 1,
                        s[i + 1] = s[k + 1]
                 PROVE  i = k
      BY <1>1
    <3>1. i + 1 = k + 1
      BY <1>1, <1>4 DEF Distinct
    <3> QED
      BY <3>1
  <2>2. \A i \in 1..Len(s) - 1 : Tail(s)[i] # s[1]
    <3> SUFFICES ASSUME NEW i \in 1..Len(s) - 1 PROVE s[i + 1] # s[1]
      BY <1>1
    <3> QED
      BY <1>1, <1>4 DEF Distinct
  <2> QED
    BY <1>1, <2>1, <2>2 DEF Distinct, Elements
<1> QED
  BY <1>1, <1>2, <1>3, <1>4

(* The longest prefix within a budget is one: the empty one is.            *)
LEMMA PrefixFits ==
  ASSUME NEW active \in Seq(Interventions), NEW r \in Requests
  PROVE  /\ Fitting(active, r.budget) \in 0..Len(active)
         /\ Fitting(active, r.budget) <= r.budget.entries
<1> DEFINE fits == {n \in 0..Len(active) :
                      /\ n <= r.budget.entries
                      /\ Size(SubSeq(active, 1, n)) <= r.budget.characters}
<1>1. r.budget.entries \in Nat /\ r.budget.characters \in Nat
  BY ResolutionAssumption
<1>2. SubSeq(active, 1, 0) = <<>>
  BY SubSeqEmpty
<1>3. Size(<<>>) = 0
  <2> DEFINE one == [n \in 0..0 |-> 0]
             Is(f) == f = [n \in 0..Len(<<>>) |->
                             IF n = 0 THEN 0 ELSE f[n - 1] + Of[<<>>[n]].characters]
  <2>1. Len(<<>>) = 0
    OBVIOUS
  <2>2. Is(one)
    BY <2>1
  <2>3. Is(CHOOSE f : Is(f))
    BY <2>2
  <2>4. (CHOOSE f : Is(f))[0] = 0
    BY <2>1, <2>3
  <2> QED
    BY <2>1, <2>4 DEF Size
<1>4. 0 \in fits
  <2>1. Size(SubSeq(active, 1, 0)) = 0
    BY <1>2, <1>3
  <2>2. Len(active) \in Nat
    BY LenProperties
  <2>3. 0 \in 0..Len(active) /\ 0 <= r.budget.entries /\ 0 <= r.budget.characters
    BY <1>1, <2>2
  <2> QED
    BY <2>1, <2>3
<1>5. \E n \in fits : \A l \in fits : l <= n
  BY <1>4, Greatest, LenProperties
<1>6. Fitting(active, r.budget) \in fits
  BY <1>5 DEF Fitting
<1> QED
  BY <1>6

(* What a call that has read everything has collected.                     *)
LEMMA CollectedFacts ==
  ASSUME TypeOK, NEW h \in Hosts, NothingTwice(h)
  PROVE  /\ Collected(h) \in Seq(Interventions)
         /\ Elements(Collected(h)) = Got(work[h]) /\ Distinct(Collected(h))
<1>1. work[h].group \in SUBSET Interventions /\ work[h].found \in Seq(Interventions)
  BY DEF TypeOK, Job
<1>2. /\ ByBirth(work[h].group) \in Seq(work[h].group)
      /\ Elements(ByBirth(work[h].group)) = work[h].group /\ Distinct(ByBirth(work[h].group))
  BY <1>1, BirthEnumerates
<1>3. ByBirth(work[h].group) \in Seq(Interventions)
  BY <1>1, <1>2, SeqMonotonic
<1> QED
  BY <1>1, <1>2, <1>3, Joined DEF Collected, Got, NothingTwice

(* What is frozen of it is readable, and lists all of it: its entries and  *)
(* what it omits are, one after the other, what was collected.             *)
LEMMA FrozenFacts ==
  ASSUME TypeOK, NEW h \in Hosts, CallStands(h), NothingTwice(h), At(h, "member"),
         NEW c, c = Frozen(h)
  PROVE  /\ c \in Resolved /\ c.request = work[h].request /\ Readable(c)
         /\ {e.intervention : e \in Elements(c.entries)} \cup Elements(c.omitted) = Got(work[h])
         /\ \A e \in Elements(c.entries) :
              e.intervention \in Got(work[h]) /\ e.transition = work[h].heads[e.intervention]
<1> DEFINE active == Collected(h)
           n == Fitting(active, work[h].request.budget)
           named == [m \in 1..n |-> c.entries[m].intervention]
<1>1. /\ active \in Seq(Interventions) /\ Elements(active) = Got(work[h]) /\ Distinct(active)
  BY CollectedFacts
<1>2. /\ work[h].request \in Requests /\ work[h].heads \in [Interventions -> Nat]
  BY DEF CallStands, At
<1> HIDE DEF active, n
<1>3. n \in 0..Len(active) /\ n <= work[h].request.budget.entries
  BY <1>1, <1>2, PrefixFits DEF n
<1>4. Len(active) \in Nat /\ DOMAIN active = 1..Len(active)
      /\ \A m \in 1..Len(active) : active[m] \in Interventions
  BY <1>1
<1>5. /\ c.request = work[h].request /\ c.omitted = SubSeq(active, n + 1, Len(active))
      /\ c.entries = [m \in 1..n |-> [intervention |-> active[m],
                                      transition |-> work[h].heads[active[m]]]]
      /\ c = [request |-> c.request, entries |-> c.entries, omitted |-> c.omitted]
  BY DEF Frozen, active, n
<1>6. c.omitted \in Seq(Interventions)
  BY <1>1, <1>3, <1>4, <1>5
<1>7. c.entries \in Seq(Entry) /\ Len(c.entries) = n /\ DOMAIN c.entries = 1..n
  <2>1. \A m \in 1..n : [intervention |-> active[m], transition |-> work[h].heads[active[m]]] \in Entry
    BY <1>2, <1>3, <1>4 DEF Entry
  <2>2. c.entries \in [1..n -> Entry]
    BY <1>5, <2>1
  <2> QED
    BY <1>3, <2>2
<1>8. \A m \in 1..n : c.entries[m].intervention = active[m]
                      /\ c.entries[m].transition = work[h].heads[active[m]]
  BY <1>5
<1>9. named = SubSeq(active, 1, n) /\ named \o c.omitted = active
  <2>1. named = SubSeq(active, 1, n)
    BY <1>3, <1>4, <1>8
  <2>2. SubSeq(active, 1, n) \o SubSeq(active, n + 1, Len(active)) = SubSeq(active, 1, Len(active))
    <3>1. 1 \in 1..Len(active) + 1 /\ n \in 1 - 1..Len(active) /\ Len(active) \in n..Len(active)
      BY <1>3, <1>4
    <3> QED
      BY <1>1, <3>1, ConcatAdjacentSubSeq
  <2> QED
    BY <1>1, <1>5, <2>1, <2>2, SubSeqFull
<1>10. Readable(c)
  BY <1>1, <1>2, <1>3, <1>5, <1>7, <1>9 DEF Readable
<1>11. {e.intervention : e \in Elements(c.entries)} = Elements(named)
  BY <1>7 DEF Elements
<1>12. Elements(named) \cup Elements(c.omitted) = Elements(active)
  <2>1. named \in Seq(Interventions)
    BY <1>1, <1>3, <1>9
  <2> HIDE DEF named
  <2>2. Elements(named \o c.omitted) = Elements(named) \cup Elements(c.omitted)
    BY <1>6, <2>1, Joined
  <2> QED
    BY <1>9, <2>2
<1>13. \A e \in Elements(c.entries) :
         e.intervention \in Got(work[h]) /\ e.transition = work[h].heads[e.intervention]
  <2> SUFFICES ASSUME NEW m \in 1..n
               PROVE  c.entries[m].intervention \in Got(work[h])
                      /\ c.entries[m].transition = work[h].heads[c.entries[m].intervention]
    BY <1>7 DEF Elements
  <2>1. active[m] \in Elements(active)
    BY <1>3, <1>4 DEF Elements
  <2> QED
    BY <1>1, <1>8, <2>1
<1>14. c \in Resolved
  BY <1>2, <1>5, <1>6, <1>7 DEF Resolved
<1> QED
  BY <1>1, <1>5, <1>10, <1>11, <1>12, <1>13, <1>14

-------------------------------------------------------------------------------
(***************************************************************************)
(* What the invariant says of a state.                                     *)
(***************************************************************************)

LEMMA FairNow == IInv => ResolutionFair
<1> SUFFICES ASSUME IInv, NEW h \in Hosts, Complete(h), ~Stale(Collected(h)),
                    NEW c, c = Frozen(h)
             PROVE  /\ \A e \in Elements(c.entries) :
                        /\ e.transition \in work[h].opened[e.intervention]
                                             ..Len(stream[e.intervention])
                        /\ e.transition > 0
                        /\ ResolvesFrom(stream[e.intervention][e.transition])
                    /\ \A i \in Interventions :
                        /\ Serves(i) /\ InForceThroughout(h, i)
                        /\ Of[i].scope \in Elements(MatchedScopes(c.request.scope))
                        => i \in {e.intervention : e \in Elements(c.entries)}
                                  \cup Elements(c.omitted)
                    /\ Readable(c)
  BY DEF ResolutionFair
<1>1. /\ TypeOK /\ CallStands(h) /\ At(h, "member") /\ work[h] \in Job
      /\ Held(h) /\ NothingTwice(h) /\ NothingMissed(h)
      /\ work[h].todo = <<>> /\ work[h].scopes = <<>>
  BY DEF IInv, HostsStand, ReadingStands, Complete, ScopeRead, TypeOK
<1>2. /\ c.request = work[h].request /\ Readable(c)
      /\ {e.intervention : e \in Elements(c.entries)} \cup Elements(c.omitted) = Got(work[h])
      /\ \A e \in Elements(c.entries) :
           e.intervention \in Got(work[h]) /\ e.transition = work[h].heads[e.intervention]
  BY <1>1, FrozenFacts
<1>3. ASSUME NEW i \in Got(work[h])
      PROVE  /\ work[h].heads[i] \in work[h].opened[i]..Len(stream[i]) /\ work[h].heads[i] > 0
             /\ ResolvesFrom(stream[i][work[h].heads[i]])
  <2>1. i \in Interventions /\ work[h].opened \in [Interventions -> Nat]
    BY <1>1 DEF Job, Got, CallStands, At, Elements
  <2>2. work[h].opened[i] \in Nat /\ Len(stream[i]) \in Nat
    BY <1>1, <2>1 DEF TypeOK
  <2> QED
    BY <1>1, <2>2 DEF Held
<1>4. Elements(<<>>) = {}
  BY DEF Elements
<1> QED
  BY <1>1, <1>2, <1>3, <1>4 DEF NothingMissed

LEMMA CanonicalNow == IInv => ReceiptCanonical
BY DEF IInv, HostsStand, ReceiptsStand, CallStands, ReceiptCanonical, At

LEMMA IndexedNow == IInv => SetsIndexed
<1> SUFFICES ASSUME IInv, NEW e \in Episodes
             PROVE  ExposureIds(e) =
                      {r \in {x.content.receipt : x \in sets} : r.request.episode = e}
  BY DEF IInv, IndexStands, SetsStand, SetsIndexed
<1> QED
  BY DEF IInv, IndexStands, SetsStand, ExposureIds, SetOf

-------------------------------------------------------------------------------
(***************************************************************************)
(* What grows, and what a host keeps while another acts.                   *)
(***************************************************************************)

Grows ==
  /\ \A i \in Interventions :
       /\ Len(stream[i]) <= Len(stream'[i])
       /\ \A n \in 1..Len(stream[i]) : stream'[i][n] = stream[i][n]
  /\ \A s \in Scopes : Elements(members[s]) \subseteq Elements(members'[s])
  /\ receipts \subseteq receipts' /\ sets \subseteq sets'
  /\ \A e \in Episodes :
       /\ Len(index[e]) <= Len(index'[e]) /\ Elements(index[e]) \subseteq Elements(index'[e])
       /\ Len(index'[e]) = Len(index[e]) => index'[e] = index[e]

LEMMA Extended ==
  ASSUME NEW S, NEW s \in Seq(S), NEW e \in S
  PROVE  /\ Append(s, e) \in Seq(S) /\ Len(Append(s, e)) = Len(s) + 1 /\ Len(s) \in Nat
         /\ \A n \in 1..Len(s) : Append(s, e)[n] = s[n]
         /\ Append(s, e)[Len(s) + 1] = e
         /\ Elements(Append(s, e)) = Elements(s) \cup {e}
         /\ Distinct(s) /\ e \notin Elements(s) => Distinct(Append(s, e))
<1>1. /\ Append(s, e) \in Seq(S) /\ Len(Append(s, e)) = Len(s) + 1 /\ Len(s) \in Nat
      /\ \A n \in 1..Len(s) : Append(s, e)[n] = s[n]
      /\ Append(s, e)[Len(s) + 1] = e
      /\ DOMAIN s = 1..Len(s) /\ DOMAIN Append(s, e) = 1..Len(s) + 1
  OBVIOUS
<1> QED
  BY <1>1 DEF Elements, Distinct

LEMMA StoreGrows ==
  ASSUME TypeOK, [Next]_vars
  PROVE  Grows
<1>1. CASE UNCHANGED <<members, stream, receipts, index, sets>>
  <2>1. \A i \in Interventions : Len(stream[i]) \in Nat
    BY DEF TypeOK
  <2>2. \A e \in Episodes : Len(index[e]) \in Nat
    BY DEF TypeOK
  <2> QED
    BY <1>1, <2>1, <2>2 DEF Grows
<1>2. ASSUME NEW i \in Interventions, PersistMembership(i) PROVE Grows
  <2>1. \A j \in Interventions : Len(stream[j]) \in Nat
    BY DEF TypeOK
  <2>2. \A e \in Episodes : Len(index[e]) \in Nat
    BY DEF TypeOK
  <2>3. ASSUME NEW s \in Scopes PROVE Elements(members[s]) \subseteq Elements(members'[s])
    <3>1. members[s] \in Seq(Interventions)
      BY DEF TypeOK
    <3>2. members'[s] = members[s] \/ members'[s] = Append(members[s], i)
      BY <1>2 DEF PersistMembership, TypeOK
    <3>3. Elements(Append(members[s], i)) = Elements(members[s]) \cup {i}
      BY <3>1, Extended
    <3> QED
      BY <3>2, <3>3
  <2> QED
    BY <1>2, <2>1, <2>2, <2>3 DEF PersistMembership, Grows
<1>3. ASSUME NEW i \in Interventions, Transition(i) PROVE Grows
  <2>1. PICK t \in States : stream' = [stream EXCEPT ![i] = Append(@, t)]
    BY <1>3 DEF Transition
  <2>2. t \in InterventionState
    BY ResolutionAssumption
  <2>3. \A e \in Episodes : Len(index[e]) \in Nat
    BY DEF TypeOK
  <2>4. ASSUME NEW j \in Interventions
        PROVE  /\ Len(stream[j]) <= Len(stream'[j])
               /\ \A n \in 1..Len(stream[j]) : stream'[j][n] = stream[j][n]
    <3>1. stream[j] \in Seq(InterventionState)
      BY DEF TypeOK
    <3>2. stream'[j] = stream[j] \/ stream'[j] = Append(stream[j], t)
      BY <2>1 DEF TypeOK
    <3>3. CASE stream'[j] = stream[j]
      BY <3>1, <3>3
    <3>4. CASE stream'[j] = Append(stream[j], t)
      BY <2>2, <3>1, <3>4, Extended
    <3> QED
      BY <3>2, <3>3, <3>4
  <2> QED
    BY <1>3, <2>3, <2>4 DEF Transition, Grows
<1>4. ASSUME NEW h \in Hosts, PersistResolution(h) PROVE Grows
  <2>1. \A i \in Interventions : Len(stream[i]) \in Nat
    BY DEF TypeOK
  <2>2. \A e \in Episodes : Len(index[e]) \in Nat
    BY DEF TypeOK
  <2>3. receipts \subseteq receipts'
    BY <1>4 DEF PersistResolution
  <2> QED
    BY <1>4, <2>1, <2>2, <2>3 DEF PersistResolution, Grows
<1>5. ASSUME NEW h \in Hosts, AppendIndex(h) PROVE Grows
  <2>1. \A i \in Interventions : Len(stream[i]) \in Nat
    BY DEF TypeOK
  <2>2. ASSUME NEW e \in Episodes
        PROVE  /\ Len(index[e]) <= Len(index'[e]) /\ Elements(index[e]) \subseteq Elements(index'[e])
               /\ Len(index'[e]) = Len(index[e]) => index'[e] = index[e]
    <3>1. index[e] \in Seq(Resolved) /\ index[e] \in Seq(Resolved \cup {Content(h).receipt})
      BY SeqMonotonic DEF TypeOK
    <3>2. index'[e] = index[e] \/ index'[e] = Append(index[e], Content(h).receipt)
      BY <1>5 DEF AppendIndex, TypeOK
    <3>3. CASE index'[e] = index[e]
      BY <3>1, <3>3
    <3>4. CASE index'[e] = Append(index[e], Content(h).receipt)
      <4>1. /\ Len(index'[e]) = Len(index[e]) + 1 /\ Len(index[e]) \in Nat
            /\ Elements(index'[e]) = Elements(index[e]) \cup {Content(h).receipt}
        BY <3>1, <3>4, Extended
      <4> QED
        BY <4>1
    <3> QED
      BY <3>2, <3>3, <3>4
  <2> QED
    BY <1>5, <2>1, <2>2 DEF AppendIndex, Grows
<1>6. ASSUME NEW h \in Hosts, CreateExposureSet(h) PROVE Grows
  <2>1. \A i \in Interventions : Len(stream[i]) \in Nat
    BY DEF TypeOK
  <2>2. \A e \in Episodes : Len(index[e]) \in Nat
    BY DEF TypeOK
  <2>3. sets \subseteq sets'
    BY <1>6 DEF CreateExposureSet
  <2> QED
    BY <1>6, <2>1, <2>2, <2>3 DEF CreateExposureSet, Grows
<1> QED
  BY <1>1, <1>2, <1>3, <1>4, <1>5, <1>6
  DEF Next, Step, vars, StartResolve, StartAcknowledge, StartCall, ListMemberships, ReadMember,
      RefuseStale, LoadExposureSet, ReadIndex, Return, Crash

(* What a host stands on, no other takes away.                             *)
LEMMA Keeps ==
  ASSUME IInv, TypeOK', Grows, NEW h \in Hosts, work'[h] = work[h]
  PROVE  (CallStands(h) /\ ReadingStands(h) /\ EntryAhead(h))'
<1>1. CallStands(h) /\ ReadingStands(h) /\ EntryAhead(h) /\ TypeOK /\ work[h] \in Job
  BY DEF IInv, HostsStand, TypeOK
<1>2. CallStands(h)'
  BY <1>1 DEF CallStands, Grows, Asking, Content, ReadableSet
<1>3. ASSUME At(h, "member")' PROVE (Held(h) /\ NothingTwice(h) /\ NothingMissed(h))'
  <2>1. At(h, "member") /\ Held(h) /\ NothingTwice(h) /\ NothingMissed(h)
    BY <1>1, <1>3 DEF At, ReadingStands
  <2>2. work[h].opened \in [Interventions -> Nat] /\ work[h].heads \in [Interventions -> Nat]
        /\ Got(work[h]) \subseteq Interventions
    BY <1>1, <2>1 DEF CallStands, At, Job, Got, Elements
  <2>3. \A i \in Interventions : Len(stream[i]) \in Nat /\ Len(stream'[i]) \in Nat
    BY <1>1 DEF TypeOK
  <2>4. Held(h)'
    BY <2>1, <2>2, <2>3 DEF Held, Grows
  <2>5. NothingTwice(h)'
    BY <2>1 DEF NothingTwice
  <2>6. ASSUME NEW i \in Interventions, InForceThroughout(h, i)' PROVE InForceThroughout(h, i)
    <3>1. /\ work[h].opened[i] > 0 /\ work[h].opened[i] \in Nat
          /\ \A n \in work[h].opened[i]..Len(stream'[i]) : ResolvesFrom(stream'[i][n])
      BY <2>2, <2>6 DEF InForceThroughout
    <3>2. ASSUME NEW n \in work[h].opened[i]..Len(stream[i]) PROVE ResolvesFrom(stream[i][n])
      <4>1. n \in 1..Len(stream[i]) /\ n \in work[h].opened[i]..Len(stream'[i])
        BY <2>3, <3>1 DEF Grows
      <4> QED
        BY <3>1, <4>1 DEF Grows
    <3> QED
      BY <3>1, <3>2 DEF InForceThroughout
  <2>7. NothingMissed(h)'
    BY <2>1, <2>6 DEF NothingMissed, Serves
  <2> QED
    BY <2>4, <2>5, <2>7
<1>4. EntryAhead(h)'
  <2>1. CASE At(h, "append") \/ At(h, "create")
    <3>1. Content(h) \in Exposed
      BY <1>1, <2>1 DEF CallStands, At, Writing, Content
    <3>2. Episode(h) \in Episodes
      BY <3>1 DEF Exposed, Resolved, Episode, Episodes
    <3>3. Len(index[Episode(h)]) \in Nat /\ Len(index'[Episode(h)]) \in Nat /\ work[h].revision \in Nat
      BY <1>1, <3>2 DEF TypeOK, Job
    <3>4. Content(h)' = Content(h) /\ Episode(h)' = Episode(h)
          /\ At(h, "append")' = At(h, "append") /\ At(h, "create")' = At(h, "create")
      BY DEF Content, Episode, At
    <3>5. /\ Len(index[Episode(h)]) <= Len(index'[Episode(h)])
          /\ Elements(index[Episode(h)]) \subseteq Elements(index'[Episode(h)])
          /\ Len(index'[Episode(h)]) = Len(index[Episode(h)]) =>
               index'[Episode(h)] = index[Episode(h)]
      BY <3>2 DEF Grows
    <3>6. CASE At(h, "append")
      <4>1. /\ work[h].revision <= Len(index[Episode(h)])
            /\ work[h].revision = Len(index[Episode(h)]) =>
                 /\ Content(h).receipt \notin Elements(index[Episode(h)])
                 /\ Len(index[Episode(h)]) < MaxExposures
        BY <1>1, <3>6 DEF EntryAhead
      <4>2. /\ work'[h].revision <= Len(index'[Episode(h)])
            /\ work'[h].revision = Len(index'[Episode(h)]) =>
                 /\ Content(h).receipt \notin Elements(index'[Episode(h)])
                 /\ Len(index'[Episode(h)]) < MaxExposures
        BY <3>3, <3>5, <4>1
      <4> QED
        BY <3>4, <3>6, <4>2 DEF EntryAhead, At
    <3>7. CASE At(h, "create")
      BY <1>1, <3>4, <3>5, <3>7 DEF EntryAhead, At
    <3> QED
      BY <2>1, <3>6, <3>7
  <2> QED
    BY <2>1 DEF EntryAhead, At
<1> QED
  BY <1>2, <1>3, <1>4 DEF ReadingStands

-------------------------------------------------------------------------------
(***************************************************************************)
(* What the host that acts stands on.                                      *)
(***************************************************************************)

Stands(h) == CallStands(h) /\ ReadingStands(h) /\ EntryAhead(h)

LEMMA Put_ ==
  ASSUME TypeOK, NEW h \in Hosts, NEW j \in Job, Put(h, j)
  PROVE  /\ work' \in [Hosts -> Job] /\ work'[h] = j
         /\ \A g \in Hosts \ {h} : work'[g] = work[g]
BY DEF TypeOK, Put

(* A call that is over, or not begun.                                      *)
LEMMA Idles ==
  ASSUME TypeOK, NEW h \in Hosts, work'[h] = Idle
  PROVE  Idle \in Job /\ Stands(h)'
<1>1. Idle \in Job
  BY DEF Idle, Job
<1> QED
  BY <1>1 DEF Stands, CallStands, ReadingStands, EntryAhead, At, Idle, Writing

(* A refusal promises nothing.                                             *)
LEMMA Refuses ==
  ASSUME TypeOK, NEW h \in Hosts, NEW code \in Refusals, Refuse(h, code)
  PROVE  /\ work' \in [Hosts -> Job] /\ Stands(h)'
         /\ work'[h].pc = "return" /\ work'[h].request = work[h].request
         /\ work'[h].content = work[h].content
         /\ work'[h].answer = [code |-> code, record |-> None]
         /\ \A g \in Hosts \ {h} : work'[g] = work[g]
<1> DEFINE j == [work[h] EXCEPT !.pc = "return", !.answer = [code |-> code, record |-> None]]
<1>1. work[h] \in Job
  BY DEF TypeOK
<1>2. j \in Job
  BY <1>1 DEF Job, Answers
<1>3. /\ work' \in [Hosts -> Job] /\ work'[h] = j /\ code # "given"
      /\ \A g \in Hosts \ {h} : work'[g] = work[g]
  BY <1>2, Put_ DEF Refuse, Answer, Refusals
<1>4. /\ j.pc = "return" /\ j.request = work[h].request /\ j.content = work[h].content
      /\ j.answer = [code |-> code, record |-> None]
  BY <1>1 DEF Job
<1>5. Stands(h)'
  BY <1>3, <1>4 DEF Stands, CallStands, ReadingStands, EntryAhead, At, Writing
<1> QED
  BY <1>3, <1>4, <1>5

(* A record that is given to who acknowledges, or stands.                  *)
LEMMA Gives ==
  ASSUME TypeOK, NEW h \in Hosts, NEW r \in Receipt \cup ExposureSet, Give(h, r),
         Asking(h) \/ r \in receipts'
  PROVE  /\ work' \in [Hosts -> Job] /\ Stands(h)'
         /\ work'[h].pc = "return" /\ work'[h].request = work[h].request
         /\ work'[h].content = work[h].content
         /\ work'[h].answer = [code |-> "given", record |-> r]
         /\ \A g \in Hosts \ {h} : work'[g] = work[g]
<1> DEFINE j == [work[h] EXCEPT !.pc = "return", !.answer = [code |-> "given", record |-> r]]
<1>1. work[h] \in Job
  BY DEF TypeOK
<1>2. j \in Job
  <2>1. [code |-> "given", record |-> r] \in Answers
    BY DEF Answers
  <2> QED
    BY <1>1, <2>1 DEF Job
<1>3. /\ work' \in [Hosts -> Job] /\ work'[h] = j
      /\ \A g \in Hosts \ {h} : work'[g] = work[g]
  BY <1>2, Put_ DEF Give, Answer
<1>4. /\ j.pc = "return" /\ j.request = work[h].request /\ j.content = work[h].content
      /\ j.answer = [code |-> "given", record |-> r]
  BY <1>1 DEF Job
<1>5. Stands(h)'
  BY <1>3, <1>4 DEF Stands, CallStands, ReadingStands, EntryAhead, At, Writing, Asking, Content
<1> QED
  BY <1>3, <1>4, <1>5

(* A set that stands, told to who acknowledges its receipt.                *)
LEMMA Tells ==
  ASSUME TypeOK, NEW h \in Hosts, NEW x \in sets, Tell(h, x), Asking(h)
  PROVE  /\ work' \in [Hosts -> Job] /\ Stands(h)'
         /\ work'[h].pc = "return" /\ work'[h].request = work[h].request
         /\ work'[h].content = work[h].content
         /\ work'[h].answer = IF x.content = Content(h) THEN [code |-> "given", record |-> x]
                              ELSE [code |-> "exposure.already_acknowledged", record |-> None]
         /\ \A g \in Hosts \ {h} : work'[g] = work[g]
<1>1. x \in ExposureSet
  BY DEF TypeOK
<1>2. CASE x.content = Content(h)
  BY <1>1, <1>2, Gives DEF Tell
<1>3. CASE x.content # Content(h)
  <2>1. Refuse(h, "exposure.already_acknowledged")
    BY <1>3 DEF Tell
  <2> QED
    BY <1>3, <2>1, Refuses DEF Refusals
<1> QED
  BY <1>2, <1>3

-------------------------------------------------------------------------------
(* The steps of a resolution.                                              *)

LEMMA StartResolveStep ==
  ASSUME IInv, NEW h \in Hosts, StartResolve(h)
  PROVE  /\ work' \in [Hosts -> Job] /\ Stands(h)'
         /\ \A g \in Hosts \ {h} : work'[g] = work[g]
<1>1. TypeOK /\ MembersStand /\ UNCHANGED <<members, stream, receipts, index, sets>>
  BY DEF IInv, StartResolve, StartCall
<1>2. PICK r \in Requests :
        Put(h, [Idle EXCEPT
                  !.pc = "member", !.request = r, !.scopes = MatchedScopes(r.scope),
                  !.heads = [i \in Interventions |-> 0],
                  !.opened = [i \in Interventions |-> Len(stream[i])]])
  BY DEF StartResolve
<1> DEFINE zeros == [i \in Interventions |-> 0]
           lengths == [i \in Interventions |-> Len(stream[i])]
           j == [Idle EXCEPT !.pc = "member", !.request = r, !.scopes = MatchedScopes(r.scope),
                             !.heads = zeros, !.opened = lengths]
<1>3. \A i \in Interventions : Len(stream[i]) \in Nat
  BY <1>1 DEF TypeOK
<1>4. MatchedScopes(r.scope) \in Seq(Scopes) /\ Distinct(MatchedScopes(r.scope))
  <2>1. Ancestors[r.scope] \in Seq(Elements(Ancestors[r.scope]))
        /\ Distinct(<<r.scope>> \o Ancestors[r.scope])
    BY AncestorsAssumption
  <2>2. Elements(Ancestors[r.scope]) \subseteq Scopes /\ r.scope \in Scopes
    BY DEF Scopes
  <2>3. Ancestors[r.scope] \in Seq(Scopes)
    BY <2>1, <2>2, SeqMonotonic
  <2> QED
    BY <2>1, <2>2, <2>3 DEF MatchedScopes
<1>5. /\ j.pc = "member" /\ j.request = r /\ j.scopes = MatchedScopes(r.scope)
      /\ j.todo = <<>> /\ j.group = {} /\ j.found = <<>>
      /\ j.heads = zeros /\ j.opened = lengths
      /\ j.content = None /\ j.answer = None /\ j.revision = 0 /\ j.tries = 0
  BY DEF Idle
<1>6. j \in Job
  <2>1. zeros \in [Interventions -> Nat] /\ lengths \in [Interventions -> Nat]
    BY <1>3
  <2> HIDE DEF zeros, lengths
  <2>2. Idle \in Job
    BY DEF Job, Idle
  <2> QED
    BY <1>4, <2>1, <2>2 DEF Job
<1>7. /\ work' \in [Hosts -> Job] /\ work'[h] = j
      /\ \A g \in Hosts \ {h} : work'[g] = work[g]
  BY <1>1, <1>2, <1>6, Put_
<1> HIDE DEF j
<1>8. CallStands(h)'
  BY <1>3, <1>5, <1>7 DEF CallStands, Writing
<1>9. Elements(<<>>) = {} /\ Distinct(<<>>) /\ Got(j) = {}
  BY <1>5 DEF Elements, Distinct, Got
<1>10. (Held(h) /\ NothingTwice(h) /\ NothingMissed(h))'
  BY <1>1, <1>3, <1>4, <1>5, <1>7, <1>9 DEF Held, NothingTwice, NothingMissed
<1>11. EntryAhead(h)'
  BY <1>5, <1>7 DEF EntryAhead, At
<1> QED
  BY <1>7, <1>8, <1>10, <1>11 DEF Stands, ReadingStands

LEMMA ListMembershipsStep ==
  ASSUME IInv, NEW h \in Hosts, ListMemberships(h)
  PROVE  /\ work' \in [Hosts -> Job] /\ Stands(h)'
         /\ \A g \in Hosts \ {h} : work'[g] = work[g]
<1> DEFINE s == Head(work[h].scopes)
           j == [work[h] EXCEPT !.scopes = Tail(@), !.todo = members[s],
                                !.found = Collected(h), !.group = {}]
<1>1. /\ TypeOK /\ MembersStand /\ UNCHANGED <<members, stream, receipts, index, sets>>
      /\ CallStands(h) /\ Held(h) /\ NothingTwice(h) /\ NothingMissed(h)
      /\ At(h, "member") /\ work[h].todo = <<>> /\ work[h].scopes # <<>> /\ work[h] \in Job
  BY DEF IInv, HostsStand, ReadingStands, ListMemberships, ScopeRead, TypeOK
<1>2. /\ s \in Scopes /\ Tail(work[h].scopes) \in Seq(Scopes)
      /\ Elements(work[h].scopes) = {s} \cup Elements(Tail(work[h].scopes))
      /\ Distinct(Tail(work[h].scopes)) /\ s \notin Elements(Tail(work[h].scopes))
  BY <1>1, Rest DEF Job, NothingTwice
<1>3. /\ members[s] \in Seq(Interventions) /\ Distinct(members[s])
      /\ \A i \in Elements(members[s]) : Of[i].scope = s
  BY <1>1, <1>2 DEF TypeOK, MembersStand
<1>4. /\ Collected(h) \in Seq(Interventions) /\ Distinct(Collected(h))
      /\ Elements(Collected(h)) = Got(work[h])
  BY <1>1, CollectedFacts
<1>5. j \in Job
  BY <1>1, <1>2, <1>3, <1>4 DEF Job
<1>6. /\ work' \in [Hosts -> Job] /\ work'[h] = j
      /\ \A g \in Hosts \ {h} : work'[g] = work[g]
  BY <1>1, <1>5, Put_ DEF ListMemberships
<1>7. /\ j.pc = "member" /\ j.request = work[h].request /\ j.scopes = Tail(work[h].scopes)
      /\ j.todo = members[s] /\ j.group = {} /\ j.found = Collected(h)
      /\ j.heads = work[h].heads /\ j.opened = work[h].opened
      /\ j.content = work[h].content /\ j.answer = work[h].answer
  BY <1>1 DEF Job, At
<1> HIDE DEF j, s
<1>8. CallStands(h)'
  BY <1>1, <1>6, <1>7 DEF CallStands, Writing, At
<1>9. Got(j) = Got(work[h])
  BY <1>4, <1>7 DEF Got
<1>10. Held(h)'
  BY <1>1, <1>6, <1>7, <1>9 DEF Held
<1>11. NothingTwice(h)'
  <2>1. \A i \in Got(work[h]) : Of[i].scope \notin Elements(work[h].scopes)
    BY <1>1 DEF NothingTwice
  <2> QED
    BY <1>2, <1>3, <1>4, <1>6, <1>7, <1>9, <2>1 DEF NothingTwice
<1>12. NothingMissed(h)'
  <2> SUFFICES ASSUME NEW i \in Interventions, Serves(i), InForceThroughout(h, i)',
                      Of[i].scope \in Elements(MatchedScopes(j.request.scope))
               PROVE  i \in Got(j) \cup Elements(j.todo) \/ Of[i].scope \in Elements(j.scopes)
    BY <1>6 DEF NothingMissed, Serves
  <2>1. InForceThroughout(h, i)
    BY <1>1, <1>6, <1>7 DEF InForceThroughout
  <2>2. i \in Got(work[h]) \/ Of[i].scope \in Elements(work[h].scopes)
    <3>1. Elements(<<>>) = {}
      BY DEF Elements
    <3> QED
      BY <1>1, <1>7, <2>1, <3>1 DEF NothingMissed
  <2>3. CASE Of[i].scope = s
    <3>1. work[h].opened[i] > 0 /\ work[h].opened[i] <= Len(stream[i])
      BY <1>1, <2>1 DEF InForceThroughout, Held
    <3>2. stream[i] # <<>>
      <4>1. work[h].opened[i] \in Nat
        BY <1>1 DEF CallStands, At
      <4> QED
        BY <3>1, <4>1
    <3> QED
      BY <1>1, <1>7, <2>3, <3>2 DEF MembersStand
  <2> QED
    BY <1>2, <1>7, <1>9, <2>2, <2>3
<1>13. EntryAhead(h)'
  BY <1>6, <1>7 DEF EntryAhead, At
<1> QED
  BY <1>6, <1>8, <1>10, <1>11, <1>12, <1>13 DEF Stands, ReadingStands

LEMMA ReadMemberStep ==
  ASSUME IInv, NEW h \in Hosts, ReadMember(h)
  PROVE  /\ work' \in [Hosts -> Job] /\ Stands(h)'
         /\ work'[h].request = work[h].request /\ work'[h].content = work[h].content
         /\ \A g \in Hosts \ {h} : work'[g] = work[g]
<1> DEFINE i == Head(work[h].todo)
           rest == [work[h] EXCEPT !.todo = Tail(@)]
           taken == [rest EXCEPT !.group = @ \cup {i}, !.heads[i] = Len(stream[i])]
           serves == /\ Of[i].action = "publish" /\ stream[i] # <<>>
                     /\ ResolvesFrom(State(i)) /\ Of[i].effectClass = "context"
<1>1. /\ TypeOK /\ MembersStand /\ UNCHANGED <<members, stream, receipts, index, sets>>
      /\ CallStands(h) /\ Held(h) /\ NothingTwice(h) /\ NothingMissed(h)
      /\ At(h, "member") /\ work[h].todo # <<>> /\ work[h] \in Job
  BY DEF IInv, HostsStand, ReadingStands, ReadMember, TypeOK
<1>2. /\ i \in Interventions /\ Tail(work[h].todo) \in Seq(Interventions)
      /\ Elements(work[h].todo) = {i} \cup Elements(Tail(work[h].todo))
      /\ Distinct(Tail(work[h].todo)) /\ i \notin Elements(Tail(work[h].todo))
  BY <1>1, Rest DEF Job, NothingTwice
<1>3. /\ work[h].heads \in [Interventions -> Nat] /\ work[h].opened \in [Interventions -> Nat]
      /\ work[h].request \in Requests /\ work[h].content = None /\ work[h].answer = None
      /\ work[h].group \subseteq Interventions /\ Got(work[h]) \subseteq Interventions
  BY <1>1 DEF CallStands, At, Job, Got, Elements
<1>4. CASE serves /\ ~DestinationCurrent(h, i)
  <2>1. Refuse(h, "resolution.destination_drift")
    BY <1>4 DEF ReadMember
  <2> QED
    BY <1>1, <2>1, Refuses DEF Refusals
<1>5. CASE ~serves
  <2>1. rest \in Job /\ Put(h, rest)
    BY <1>1, <1>2, <1>5 DEF Job, ReadMember
  <2>2. /\ work' \in [Hosts -> Job] /\ work'[h] = rest
        /\ \A g \in Hosts \ {h} : work'[g] = work[g]
    BY <1>1, <2>1, Put_
  <2>3. /\ rest.pc = "member" /\ rest.request = work[h].request /\ rest.scopes = work[h].scopes
        /\ rest.todo = Tail(work[h].todo) /\ rest.group = work[h].group
        /\ rest.found = work[h].found /\ rest.heads = work[h].heads
        /\ rest.opened = work[h].opened /\ rest.content = None /\ rest.answer = None
    BY <1>1, <1>3 DEF Job, At
  <2> HIDE DEF rest
  <2>4. CallStands(h)' /\ EntryAhead(h)'
    BY <1>3, <2>2, <2>3 DEF CallStands, Writing, EntryAhead, At
  <2>5. Got(rest) = Got(work[h])
    BY <2>3 DEF Got
  <2>6. Held(h)' /\ NothingTwice(h)'
    BY <1>1, <1>2, <2>2, <2>3, <2>5 DEF Held, NothingTwice
  <2>7. NothingMissed(h)'
    <3> SUFFICES ASSUME NEW k \in Interventions, Serves(k), InForceThroughout(h, k)',
                        Of[k].scope \in Elements(MatchedScopes(work[h].request.scope))
                 PROVE  k \in Got(rest) \cup Elements(rest.todo)
                        \/ Of[k].scope \in Elements(rest.scopes)
      BY <2>2, <2>3 DEF NothingMissed, Serves
    <3>1. InForceThroughout(h, k)
      BY <1>1, <2>2, <2>3 DEF InForceThroughout
    <3>2. k \in Got(work[h]) \cup Elements(work[h].todo) \/ Of[k].scope \in Elements(work[h].scopes)
      BY <1>1, <3>1 DEF NothingMissed
    <3>3. k # i
      <4>1. /\ work[h].opened[k] \in Nat \ {0} /\ work[h].opened[k] <= Len(stream[k])
            /\ stream[k] \in Seq(InterventionState)
        BY <1>1, <1>3, <3>1 DEF InForceThroughout, Held, TypeOK
      <4>2. Len(stream[k]) \in work[h].opened[k]..Len(stream[k]) /\ stream[k] # <<>>
        BY <4>1
      <4>3. ResolvesFrom(State(k))
        BY <3>1, <4>2 DEF InForceThroughout, State
      <4> QED
        BY <1>5, <4>2, <4>3 DEF Serves
    <3> QED
      BY <1>2, <2>3, <2>5, <3>2, <3>3
  <2> QED
    BY <1>3, <2>2, <2>3, <2>4, <2>6, <2>7 DEF Stands, ReadingStands
<1>6. CASE serves /\ DestinationCurrent(h, i)
  <2>1. stream[i] \in Seq(InterventionState) /\ Len(stream[i]) \in Nat \ {0}
    BY <1>1, <1>2, <1>6 DEF TypeOK
  <2> DEFINE heads == [work[h].heads EXCEPT ![i] = Len(stream[i])]
             group == work[h].group \cup {i}
  <2>2. heads \in [Interventions -> Nat] /\ group \in SUBSET Interventions
        /\ heads[i] = Len(stream[i])
        /\ \A k \in Interventions : k # i => heads[k] = work[h].heads[k]
    BY <1>2, <1>3, <2>1
  <2>3. taken = [work[h] EXCEPT !.todo = Tail(@), !.group = group, !.heads = heads]
    BY <1>1 DEF Job
  <2>4. Put(h, taken)
    BY <1>6 DEF ReadMember
  <2> DEFINE j == [work[h] EXCEPT !.todo = Tail(@), !.group = group, !.heads = heads]
  <2> HIDE DEF heads, group, taken
  <2>5. j \in Job
    BY <1>1, <1>2, <2>2 DEF Job
  <2>6. /\ work' \in [Hosts -> Job] /\ work'[h] = j
        /\ \A g \in Hosts \ {h} : work'[g] = work[g]
    BY <1>1, <2>3, <2>4, <2>5, Put_
  <2>7. /\ j.pc = "member" /\ j.request = work[h].request /\ j.scopes = work[h].scopes
        /\ j.todo = Tail(work[h].todo) /\ j.group = group
        /\ j.found = work[h].found /\ j.heads = heads
        /\ j.opened = work[h].opened /\ j.content = None /\ j.answer = None
    BY <1>1, <1>3 DEF Job, At
  <2> HIDE DEF j
  <2>8. CallStands(h)' /\ EntryAhead(h)'
    BY <1>3, <2>2, <2>6, <2>7 DEF CallStands, Writing, EntryAhead, At
  <2>9. Got(j) = Got(work[h]) \cup {i} /\ i \notin Got(work[h])
    BY <1>1, <1>2, <2>7 DEF Got, group, NothingTwice
  <2>10. Held(h)'
    <3>1. ASSUME NEW k \in Got(work[h])
          PROVE  /\ work[h].opened[k] <= heads[k] /\ heads[k] \in 1..Len(stream[k])
                 /\ ResolvesFrom(stream[k][heads[k]])
      <4>1. heads[k] = work[h].heads[k]
        BY <1>3, <2>2, <2>9
      <4> QED
        BY <1>1, <4>1 DEF Held
    <3>2. /\ work[h].opened[i] <= heads[i] /\ heads[i] \in 1..Len(stream[i])
          /\ ResolvesFrom(stream[i][heads[i]])
      BY <1>1, <1>2, <1>6, <2>1, <2>2 DEF Held, State
    <3> QED
      BY <1>1, <2>6, <2>7, <2>9, <3>1, <3>2 DEF Held
  <2>11. NothingTwice(h)'
    <3>1. Of[i].scope \notin Elements(work[h].scopes) /\ i \notin Elements(work[h].found)
      BY <1>1, <1>2 DEF NothingTwice, Got
    <3>2. Elements(work[h].found) \cap group = {}
      BY <1>1, <3>1 DEF NothingTwice, group
    <3> QED
      BY <1>1, <1>2, <2>6, <2>7, <2>9, <3>1, <3>2 DEF NothingTwice
  <2>12. NothingMissed(h)'
    <3>1. \A k \in Interventions : InForceThroughout(h, k)' => InForceThroughout(h, k)
      BY <1>1, <2>6, <2>7 DEF InForceThroughout
    <3> QED
      BY <1>1, <1>2, <2>6, <2>7, <2>9, <3>1 DEF NothingMissed, Serves
  <2> QED
    BY <1>3, <2>6, <2>7, <2>8, <2>10, <2>11, <2>12 DEF Stands, ReadingStands
<1> QED
  BY <1>4, <1>5, <1>6

LEMMA RefuseStaleStep ==
  ASSUME IInv, NEW h \in Hosts, RefuseStale(h)
  PROVE  /\ work' \in [Hosts -> Job] /\ Stands(h)'
         /\ work'[h].request = work[h].request /\ work'[h].content = work[h].content
         /\ \A g \in Hosts \ {h} : work'[g] = work[g]
<1>1. TypeOK /\ Refuse(h, "resolution.intervention_stale")
  BY DEF IInv, RefuseStale
<1> QED
  BY <1>1, Refuses DEF Refusals

(* A receipt is written if none stands; the caller is given the one there. *)
LEMMA PersistResolutionStep ==
  ASSUME IInv, NEW h \in Hosts, PersistResolution(h)
  PROVE  /\ work' \in [Hosts -> Job] /\ Stands(h)'
         /\ work'[h].request = work[h].request /\ work'[h].content = work[h].content
         /\ \A g \in Hosts \ {h} : work'[g] = work[g]
         /\ receipts' \in SUBSET Receipt /\ ReceiptsStand'
<1>1. /\ TypeOK /\ ReceiptsStand /\ CallStands(h) /\ NothingTwice(h) /\ At(h, "member")
      /\ receipts \in SUBSET Receipt
  BY DEF IInv, HostsStand, ReadingStands, PersistResolution, Complete, ScopeRead, TypeOK
<1>2. PICK t \in Clock[h] :
        LET r == [content |-> Frozen(h), resolvedAt |-> t]
        IN IF Stored(r.content) = {}
           THEN receipts' = receipts \cup {r} /\ Give(h, r)
           ELSE /\ UNCHANGED receipts
                /\ \E standing \in Stored(r.content) : Give(h, standing)
  BY DEF PersistResolution
<1> DEFINE c == Frozen(h)
           r == [content |-> c, resolvedAt |-> t]
<1>3. c \in Resolved /\ Readable(c)
  BY <1>1, FrozenFacts
<1> HIDE DEF c
<1>4. r \in Receipt /\ r.content = c
  BY <1>3 DEF Receipt, Instants
<1>5. CASE Stored(c) = {}
  <2>1. receipts' = receipts \cup {r} /\ Give(h, r)
    BY <1>2, <1>5 DEF c
  <2>2. r \in receipts' /\ receipts' \in SUBSET Receipt
    BY <1>1, <1>4, <2>1
  <2>3. ReceiptsStand'
    BY <1>1, <1>3, <1>5, <2>1 DEF ReceiptsStand, Stored
  <2> QED
    BY <1>1, <1>4, <2>1, <2>2, <2>3, Gives
<1>6. CASE Stored(c) # {}
  <2>1. PICK standing \in Stored(c) : Give(h, standing)
    BY <1>2, <1>6 DEF c
  <2>2. UNCHANGED receipts /\ standing \in receipts' /\ standing \in Receipt
    BY <1>1, <1>2, <1>6, <2>1 DEF c, Stored
  <2>3. ReceiptsStand'
    BY <1>1, <2>2 DEF ReceiptsStand
  <2> QED
    BY <1>1, <2>1, <2>2, <2>3, Gives
<1> QED
  BY <1>5, <1>6

-------------------------------------------------------------------------------
(* The steps of an acknowledgement.                                        *)

(* What an acknowledgement is about can be read back as an exposure set.   *)
LEMMA ContentReadable ==
  ASSUME NEW r \in Receipt, NEW c \in Claims, Accepted(r, c), Readable(r.content)
  PROVE  /\ ExposureContent(r, c) \in Exposed
         /\ ReadableSet([content |-> ExposureContent(r, c)])
<1> DEFINE entries == r.content.entries
           named == [n \in DOMAIN entries |-> entries[n].intervention]
<1>1. r.content \in Resolved /\ entries \in Seq(Entry) /\ r.content.omitted \in Seq(Interventions)
  BY DEF Receipt, Resolved
<1>2. named \in Seq(Interventions) /\ DOMAIN named = DOMAIN entries
  <2>1. DOMAIN entries = 1..Len(entries) /\ Len(entries) \in Nat
        /\ \A n \in 1..Len(entries) : entries[n].intervention \in Interventions
    <3>1. \A e \in Entry : e.intervention \in Interventions
      BY DEF Entry
    <3> HIDE DEF entries
    <3> QED
      BY <1>1, <3>1, LenProperties
  <2> QED
    BY <2>1
<1>3. Distinct(named \o r.content.omitted)
  BY DEF Readable
<1>4. \A m, n \in DOMAIN entries : entries[m].intervention = entries[n].intervention => m = n
  <2> SUFFICES ASSUME NEW m \in DOMAIN entries, NEW n \in DOMAIN entries, named[m] = named[n]
               PROVE  m = n
    OBVIOUS
  <2> HIDE DEF named
  <2>1. /\ m \in DOMAIN (named \o r.content.omitted) /\ (named \o r.content.omitted)[m] = named[m]
        /\ n \in DOMAIN (named \o r.content.omitted) /\ (named \o r.content.omitted)[n] = named[n]
    BY <1>1, <1>2
  <2> QED
    BY <1>3, <2>1 DEF Distinct
<1>5. AppliedEntries(r, c) \in SUBSET Entry
  BY <1>1 DEF AppliedEntries, Elements
<1>6. ExposureContent(r, c) \in Exposed
  BY <1>1, <1>5 DEF ExposureContent, Exposed
<1>7. ReadableSet([content |-> ExposureContent(r, c)])
  BY <1>4 DEF ExposureContent, ReadableSet, Accepted, HostObserved
<1> QED
  BY <1>6, <1>7

LEMMA StartAcknowledgeStep ==
  ASSUME IInv, NEW h \in Hosts, StartAcknowledge(h)
  PROVE  /\ work' \in [Hosts -> Job] /\ Stands(h)'
         /\ (work'[h].request = None /\ work'[h].answer = None) \/ work'[h].content = None
         /\ \A g \in Hosts \ {h} : work'[g] = work[g]
<1>1. TypeOK /\ ReceiptsStand
  BY DEF IInv
<1>2. PICK r \in receipts, c \in Claims :
        Put(h, IF Accepted(r, c)
               THEN [Idle EXCEPT !.pc = "load", !.content = ExposureContent(r, c)]
               ELSE [Idle EXCEPT !.pc = "return", 
                           !.answer = [code |-> "exposure.refused", record |-> None]])
  BY DEF StartAcknowledge
<1>3. r \in Receipt /\ Readable(r.content) /\ Idle \in Job
  BY <1>1 DEF TypeOK, ReceiptsStand, Job, Idle
<1>4. CASE Accepted(r, c)
  <2> DEFINE x == ExposureContent(r, c)
             j == [Idle EXCEPT !.pc = "load", !.content = x]
  <2>1. x \in Exposed /\ ReadableSet([content |-> x])
    BY <1>3, <1>4, ContentReadable
  <2> HIDE DEF x
  <2>2. j \in Job
    BY <1>3, <2>1 DEF Job, Writing
  <2>3. /\ work' \in [Hosts -> Job] /\ work'[h] = j
        /\ \A g \in Hosts \ {h} : work'[g] = work[g]
    BY <1>1, <1>2, <1>4, <2>2, Put_ DEF x
  <2>4. j.pc = "load" /\ j.content = x /\ j.request = None /\ j.answer = None
    BY DEF Idle
  <2> HIDE DEF j
  <2> QED
    BY <2>1, <2>3, <2>4 DEF Stands, CallStands, ReadingStands, EntryAhead, At, Writing, ReadableSet
<1>5. CASE ~Accepted(r, c)
  <2> DEFINE a == [code |-> "exposure.refused", record |-> None]
             j == [Idle EXCEPT !.pc = "return", !.answer = a]
  <2>1. a \in Answers /\ a.code = "exposure.refused"
    BY DEF Answers, Refusals
  <2> HIDE DEF a
  <2>2. j \in Job
    BY <1>3, <2>1 DEF Job, Writing
  <2>3. /\ work' \in [Hosts -> Job] /\ work'[h] = j
        /\ \A g \in Hosts \ {h} : work'[g] = work[g]
    BY <1>1, <1>2, <1>5, <2>2, Put_ DEF a
  <2>4. j.pc = "return" /\ j.content = None /\ j.request = None /\ j.answer = a
    BY DEF Idle
  <2> HIDE DEF j
  <2> QED
    BY <2>1, <2>3, <2>4 DEF Stands, CallStands, ReadingStands, EntryAhead, At, Writing
<1> QED
  BY <1>4, <1>5

(* Who acknowledges, past the start, asks about a content with a receipt.  *)
LEMMA Asks ==
  ASSUME IInv, NEW h \in Hosts, work[h].pc \in Writing
  PROVE  /\ Asking(h) /\ Content(h) \in Exposed /\ work[h].request = None
         /\ work[h].answer = None /\ ReadableSet([content |-> Content(h)])
         /\ Content(h).receipt \in Resolved
         /\ Episode(h) \in Episodes /\ index[Episode(h)] \in Seq(Resolved)
         /\ work[h] \in Job
<1>1. TypeOK /\ CallStands(h)
  BY DEF IInv, HostsStand
<1>2. Content(h) \in Exposed /\ Content(h).receipt \in Resolved
  BY <1>1 DEF CallStands, Content, Exposed
<1>3. Episode(h) \in Episodes
  BY <1>2 DEF Resolved, Episode, Episodes
<1> QED
  BY <1>1, <1>2, <1>3, AbsenceAssumption DEF CallStands, Content, TypeOK, Asking

(* A step of an acknowledgement that leaves it with another counter, and   *)
(* with what that counter stands on.                                       *)
LEMMA Proceeds ==
  ASSUME IInv, TypeOK, NEW h \in Hosts, work[h].pc \in Writing, NEW j \in Job, Put(h, j),
         j.pc \in Writing, j.request = None, j.content = Content(h), j.answer = None,
         j.pc = "append" => /\ j.revision = Len(index'[Episode(h)])
                            /\ Content(h).receipt \notin Elements(index'[Episode(h)])
                            /\ Len(index'[Episode(h)]) < MaxExposures,
         j.pc = "create" => Content(h).receipt \in Elements(index'[Episode(h)])
  PROVE  /\ work' \in [Hosts -> Job] /\ Stands(h)' /\ work'[h] = j
         /\ \A g \in Hosts \ {h} : work'[g] = work[g]
<1>1. /\ work' \in [Hosts -> Job] /\ work'[h] = j
      /\ \A g \in Hosts \ {h} : work'[g] = work[g]
  BY Put_
<1>2. Content(h) \in Exposed /\ ReadableSet([content |-> Content(h)])
  BY Asks
<1>3. Content(h)' = Content(h) /\ Episode(h)' = Episode(h) /\ j.revision \in Nat
  BY <1>1 DEF Content, Episode, Job
<1>4. CallStands(h)' /\ ReadingStands(h)'
  BY <1>1, <1>2 DEF CallStands, ReadingStands, At, Writing, ReadableSet
<1>5. EntryAhead(h)'
  BY <1>1, <1>3 DEF EntryAhead, At
<1> QED
  BY <1>1, <1>4, <1>5 DEF Stands

(* The step writes nothing.                                                *)
StoreKept == UNCHANGED <<members, stream, receipts, index, sets>>

LEMMA LoadExposureSetStep ==
  ASSUME IInv, NEW h \in Hosts, LoadExposureSet(h)
  PROVE  /\ work' \in [Hosts -> Job] /\ Stands(h)' /\ StoreKept
         /\ work'[h].request = None /\ work'[h].content = Content(h)
         /\ \/ work'[h].answer = None
            \/ /\ \E x \in SetOf(Content(h).receipt) : x.content # Content(h)
               /\ work'[h].answer = [code |-> "exposure.already_acknowledged", record |-> None]
         /\ \A g \in Hosts \ {h} : work'[g] = work[g]
<1>1. /\ TypeOK /\ At(h, "load") /\ work[h].pc \in Writing /\ StoreKept
  BY DEF IInv, LoadExposureSet, At, Writing, StoreKept
<1>2. Asking(h) /\ work[h].request = None /\ work[h].answer = None /\ work[h] \in Job
  BY <1>1, Asks
<1>3. CASE \E x \in SetOf(Content(h).receipt) : x.content # Content(h)
  <2>1. Refuse(h, "exposure.already_acknowledged")
    BY <1>3 DEF LoadExposureSet
  <2> QED
    BY <1>1, <1>2, <1>3, <2>1, Refuses DEF Refusals, Content
<1>4. CASE ~\E x \in SetOf(Content(h).receipt) : x.content # Content(h)
  <2> DEFINE j == [work[h] EXCEPT !.pc = "index"]
  <2>1. Put(h, j)
    BY <1>4 DEF LoadExposureSet
  <2>2. /\ j \in Job /\ j.pc = "index" /\ j.request = None /\ j.content = Content(h)
        /\ j.answer = None
    BY <1>2 DEF Job, Writing, Content
  <2> HIDE DEF j
  <2>3. j.pc \in Writing /\ j.pc # "append" /\ j.pc # "create"
    BY <2>2 DEF Writing
  <2>4. /\ work' \in [Hosts -> Job] /\ Stands(h)' /\ work'[h] = j
        /\ \A g \in Hosts \ {h} : work'[g] = work[g]
    BY <1>1, <2>1, <2>2, <2>3, Proceeds
  <2> QED
    BY <1>1, <2>2, <2>4
<1> QED
  BY <1>3, <1>4

LEMMA ReadIndexStep ==
  ASSUME IInv, NEW h \in Hosts, ReadIndex(h)
  PROVE  /\ work' \in [Hosts -> Job] /\ Stands(h)' /\ StoreKept
         /\ work'[h].request = None /\ work'[h].content = Content(h)
         /\ work'[h].answer \in {None} \cup {[code |-> f, record |-> None] :
                                 f \in {"exposure.limit_exceeded", "store.conflict"}}
         /\ \A g \in Hosts \ {h} : work'[g] = work[g]
<1> DEFINE entries == index[Episode(h)]
<1>1. /\ TypeOK /\ At(h, "index") /\ work[h].pc \in Writing /\ StoreKept
      /\ UNCHANGED index
  BY DEF IInv, ReadIndex, At, Writing, StoreKept
<1>2. Asking(h) /\ work[h].request = None /\ work[h].answer = None /\ work[h] \in Job
      /\ entries \in Seq(Resolved) /\ Len(entries) \in Nat
  BY <1>1, Asks, LenProperties
<1>3. CASE Content(h).receipt \in Elements(entries)
  <2> DEFINE j == [work[h] EXCEPT !.pc = "create"]
  <2>1. Put(h, j)
    BY <1>3 DEF ReadIndex
  <2>2. /\ j \in Job /\ j.pc = "create" /\ j.request = None /\ j.content = Content(h)
        /\ j.answer = None
    BY <1>2 DEF Job, Writing, Content
  <2> HIDE DEF j
  <2>3. j.pc \in Writing /\ j.pc # "append"
    BY <2>2 DEF Writing
  <2>4. /\ work' \in [Hosts -> Job] /\ Stands(h)' /\ work'[h] = j
        /\ \A g \in Hosts \ {h} : work'[g] = work[g]
    BY <1>1, <1>3, <2>1, <2>2, <2>3, Proceeds
  <2> QED
    BY <1>1, <2>2, <2>4
<1>4. CASE Refuse(h, "exposure.limit_exceeded")
  BY <1>1, <1>2, <1>4, Refuses DEF Refusals, Content
<1>5. CASE Refuse(h, "store.conflict")
  BY <1>1, <1>2, <1>5, Refuses DEF Refusals, Content
<1>6. CASE /\ Content(h).receipt \notin Elements(entries) /\ ~(Len(entries) >= MaxExposures)
           /\ Put(h, [work[h] EXCEPT !.pc = "append", !.tries = @ + 1,
                                     !.revision = Len(entries)])
  <2> DEFINE j == [work[h] EXCEPT !.pc = "append", !.tries = @ + 1, !.revision = Len(entries)]
  <2>1. /\ j \in Job /\ j.pc = "append" /\ j.request = None /\ j.content = Content(h)
        /\ j.answer = None /\ j.revision = Len(entries)
    <3>1. work[h].tries + 1 \in Nat
      BY <1>2 DEF Job
    <3> HIDE DEF entries
    <3> QED
      BY <1>2, <3>1 DEF Job, Writing, Content
  <2> HIDE DEF j
  <2>2. j.pc \in Writing /\ j.pc # "create"
    BY <2>1 DEF Writing
  <2>3. Len(entries) < MaxExposures
    BY <1>2, <1>6, ResolutionAssumption
  <2>4. /\ work' \in [Hosts -> Job] /\ Stands(h)' /\ work'[h] = j
        /\ \A g \in Hosts \ {h} : work'[g] = work[g]
    BY <1>1, <1>6, <2>1, <2>2, <2>3, Proceeds DEF j
  <2> QED
    BY <1>1, <2>1, <2>4
<1> QED
  BY <1>3, <1>4, <1>5, <1>6 DEF ReadIndex

(* At a current revision the entry is new; else the store is as it was,    *)
(* and the entry either a rival's or still ahead.                          *)
LEMMA AppendIndexStep ==
  ASSUME IInv, NEW h \in Hosts, AppendIndex(h)
  PROVE  /\ work' \in [Hosts -> Job] /\ Stands(h)'
         /\ index' \in [Episodes -> Seq(Resolved)] /\ IndexStands'
         /\ work'[h].request = None /\ work'[h].content = Content(h) /\ work'[h].answer = None
         /\ \A g \in Hosts \ {h} : work'[g] = work[g]
<1> DEFINE entries == index[Episode(h)]
           current == Len(entries) = work[h].revision
           replayed == entries # <<>> /\ entries[Len(entries)] = Content(h).receipt
           j == [work[h] EXCEPT !.pc = IF current \/ replayed THEN "create" ELSE "index"]
<1>1. /\ TypeOK /\ At(h, "append") /\ work[h].pc \in Writing /\ IndexStands /\ EntryAhead(h)
  BY DEF IInv, HostsStand, AppendIndex, At, Writing
<1>2. /\ work[h].request = None /\ work[h].answer = None /\ work[h] \in Job
      /\ Episode(h) \in Episodes /\ Content(h).receipt \in Resolved
      /\ entries \in Seq(Resolved) /\ Len(entries) \in Nat
  BY <1>1, Asks, LenProperties
<1>3. /\ j \in Job /\ j.pc = (IF current \/ replayed THEN "create" ELSE "index")
      /\ j.request = None /\ j.content = Content(h) /\ j.answer = None
  <2>1. (IF current \/ replayed THEN "create" ELSE "index")
          \in {"idle", "member", "return"} \cup Writing
    BY DEF Writing
  <2> HIDE DEF current, replayed
  <2> QED
    BY <1>2, <2>1 DEF Job, Content
<1>4. Put(h, j)
  BY DEF AppendIndex
<1>5. index' = IF current
               THEN [index EXCEPT ![Episode(h)] = Append(@, Content(h).receipt)] ELSE index
  BY DEF AppendIndex
<1> HIDE DEF j
<1>6. CASE current
  <2> DEFINE longer == Append(entries, Content(h).receipt)
  <2>1. index' = [index EXCEPT ![Episode(h)] = longer]
    BY <1>5, <1>6
  <2>2. /\ Content(h).receipt \notin Elements(entries) /\ Len(entries) < MaxExposures
    BY <1>1, <1>6 DEF EntryAhead
  <2>3. /\ longer \in Seq(Resolved) /\ Len(longer) = Len(entries) + 1
        /\ Elements(longer) = Elements(entries) \cup {Content(h).receipt} /\ Distinct(longer)
    BY <1>1, <1>2, <2>2, Extended DEF IndexStands
  <2> HIDE DEF longer
  <2>4. index' \in [Episodes -> Seq(Resolved)]
    BY <1>1, <2>1, <2>3 DEF TypeOK
  <2>5. index'[Episode(h)] = longer
        /\ \A e \in Episodes : e # Episode(h) => index'[e] = index[e]
    BY <1>1, <1>2, <2>1 DEF TypeOK
  <2>6. IndexStands'
    <3>1. Len(longer) <= MaxExposures
      BY <1>2, <2>2, <2>3, ResolutionAssumption
    <3>2. \A r \in Elements(longer) : r.request.episode = Episode(h)
      BY <1>1, <1>2, <2>3 DEF IndexStands, Episode
    <3> QED
      BY <1>1, <2>3, <2>5, <3>1, <3>2 DEF IndexStands
  <2>7. j.pc = "create" /\ j.pc \in Writing /\ j.pc # "append"
        /\ Content(h).receipt \in Elements(index'[Episode(h)])
    BY <1>3, <1>6, <2>3, <2>5 DEF Writing
  <2>8. /\ work' \in [Hosts -> Job] /\ Stands(h)' /\ work'[h] = j
        /\ \A g \in Hosts \ {h} : work'[g] = work[g]
    BY <1>1, <1>3, <1>4, <2>7, Proceeds
  <2> QED
    BY <1>3, <2>4, <2>6, <2>8
<1>7. CASE ~current
  <2>1. UNCHANGED index /\ IndexStands' /\ index' \in [Episodes -> Seq(Resolved)]
    BY <1>1, <1>5, <1>7 DEF IndexStands, TypeOK
  <2>2. j.pc \in Writing /\ j.pc # "append"
    BY <1>3 DEF Writing
  <2>3. j.pc = "create" => Content(h).receipt \in Elements(index'[Episode(h)])
    BY <1>2, <1>3, <1>7, <2>1 DEF Elements
  <2>4. /\ work' \in [Hosts -> Job] /\ Stands(h)' /\ work'[h] = j
        /\ \A g \in Hosts \ {h} : work'[g] = work[g]
    BY <1>1, <1>3, <1>4, <2>2, <2>3, Proceeds
  <2> QED
    BY <1>3, <2>1, <2>4
<1> QED
  BY <1>6, <1>7

LEMMA CreateExposureSetStep ==
  ASSUME IInv, NEW h \in Hosts, CreateExposureSet(h)
  PROVE  /\ work' \in [Hosts -> Job] /\ Stands(h)'
         /\ sets' \in SUBSET ExposureSet /\ SetsStand'
         /\ work'[h].request = None /\ work'[h].content = Content(h)
         /\ \/ /\ SetOf(Content(h).receipt) = {}
               /\ \E t \in Instants : LET x == [content |-> Content(h), exposedAt |-> t]
                                     IN /\ sets' = sets \cup {x}
                                        /\ work'[h].answer = [code |-> "given", record |-> x]
            \/ /\ UNCHANGED sets
               /\ \E x \in SetOf(Content(h).receipt) :
                    work'[h].answer =
                      IF x.content = Content(h) THEN [code |-> "given", record |-> x]
                      ELSE [code |-> "exposure.already_acknowledged", record |-> None]
         /\ \A g \in Hosts \ {h} : work'[g] = work[g]
<1>1. /\ TypeOK /\ At(h, "create") /\ work[h].pc \in Writing /\ SetsStand /\ EntryAhead(h)
      /\ UNCHANGED index
  BY DEF IInv, HostsStand, CreateExposureSet, At, Writing
<1>2. /\ Asking(h) /\ work[h].request = None /\ Content(h) \in Exposed
      /\ ReadableSet([content |-> Content(h)])
  BY <1>1, Asks
<1>3. CASE SetOf(Content(h).receipt) = {}
  <2>1. PICK t \in Clock[h] : LET x == [content |-> Content(h), exposedAt |-> t]
                             IN sets' = sets \cup {x} /\ Give(h, x)
    BY <1>3 DEF CreateExposureSet
  <2> DEFINE x == [content |-> Content(h), exposedAt |-> t]
  <2>2. x \in ExposureSet /\ t \in Instants /\ x.content = Content(h)
    BY <1>2 DEF ExposureSet, Instants
  <2>3. sets' = sets \cup {x} /\ Give(h, x)
    BY <2>1
  <2>4. SetsStand'
    <3>1. ReadableSet(x) /\ Content(h).receipt \in Elements(index[Content(h).receipt.request.episode])
      BY <1>1, <1>2, <2>2 DEF ReadableSet, EntryAhead, Episode
    <3> HIDE DEF x
    <3> QED
      BY <1>1, <2>2, <2>3, <3>1 DEF SetsStand, ReadableSet
  <2>5. sets' \in SUBSET ExposureSet
    BY <1>1, <2>2, <2>3 DEF TypeOK
  <2>6. /\ work' \in [Hosts -> Job] /\ Stands(h)'
        /\ work'[h].request = work[h].request /\ work'[h].content = work[h].content
        /\ work'[h].answer = [code |-> "given", record |-> x]
        /\ \A g \in Hosts \ {h} : work'[g] = work[g]
    <3> HIDE DEF x
    <3> QED
      BY <1>1, <1>2, <2>2, <2>3, Gives
  <2> QED
    BY <1>2, <1>3, <2>2, <2>3, <2>4, <2>5, <2>6 DEF Content
<1>4. CASE SetOf(Content(h).receipt) # {}
  <2>1. PICK x \in SetOf(Content(h).receipt) : Tell(h, x)
    BY <1>4 DEF CreateExposureSet
  <2>2. UNCHANGED sets /\ x \in sets
    BY <1>4, <2>1 DEF CreateExposureSet, SetOf
  <2>3. SetsStand' /\ sets' \in SUBSET ExposureSet
    BY <1>1, <2>2 DEF SetsStand, ReadableSet, TypeOK
  <2>4. /\ work' \in [Hosts -> Job] /\ Stands(h)'
        /\ work'[h].request = work[h].request /\ work'[h].content = work[h].content
        /\ work'[h].answer = IF x.content = Content(h) THEN [code |-> "given", record |-> x]
                             ELSE [code |-> "exposure.already_acknowledged", record |-> None]
        /\ \A g \in Hosts \ {h} : work'[g] = work[g]
    BY <1>1, <1>2, <2>1, <2>2, Tells
  <2> QED
    BY <1>2, <2>1, <2>2, <2>3, <2>4 DEF Content
<1> QED
  BY <1>3, <1>4

-------------------------------------------------------------------------------
(***************************************************************************)
(* The invariant.                                                          *)
(***************************************************************************)

LEMMA InitIInv == Init => IInv
<1> SUFFICES ASSUME Init PROVE IInv
  OBVIOUS
<1>1. ASSUME NEW s \in Scopes
      PROVE  /\ ByBirth({i \in AtStart : Of[i].scope = s}) \in Seq(Interventions)
             /\ Distinct(ByBirth({i \in AtStart : Of[i].scope = s}))
             /\ Elements(ByBirth({i \in AtStart : Of[i].scope = s})) =
                  {i \in AtStart : Of[i].scope = s}
  <2>1. {i \in AtStart : Of[i].scope = s} \in SUBSET Interventions
    BY ResolutionAssumption
  <2> QED
    BY <2>1, BirthEnumerates, SeqMonotonic
<1>2. members \in [Scopes -> Seq(Interventions)] /\ MembersStand
  <2> DEFINE of(s) == ByBirth({i \in AtStart : Of[i].scope = s})
  <2>1. members = [s \in Scopes |-> of(s)]
    BY DEF Init
  <2>2. \A s \in Scopes : /\ of(s) \in Seq(Interventions) /\ Distinct(of(s))
                         /\ Elements(of(s)) = {i \in AtStart : Of[i].scope = s}
    BY <1>1
  <2> HIDE DEF of
  <2>3. \A i \in Interventions : Of[i].scope \in Scopes /\ (stream[i] # <<>> => i \in AtStart)
    BY DEF Init, Scopes
  <2> QED
    BY <2>1, <2>2, <2>3 DEF MembersStand
<1>3. stream \in [Interventions -> Seq(InterventionState)]
  <2>1. Authorized \in InterventionState /\ Active \in InterventionState
    BY DEF Authorized, Active, InitialState, InterventionState
  <2> QED
    BY <2>1 DEF Init
<1>4. \A h \in Hosts : Stands(h) /\ work[h] \in Job
  BY DEF Init, Stands, CallStands, ReadingStands, EntryAhead, At, Idle, Writing, Job
<1>5. TypeOK
  BY <1>2, <1>3, <1>4 DEF Init, TypeOK
<1>6. IndexStands
  BY ResolutionAssumption DEF Init, IndexStands, Distinct, Elements
<1> QED
  BY <1>2, <1>4, <1>5, <1>6 DEF Init, IInv, HostsStand, Stands, ReceiptsStand, SetsStand

(* Others move interventions only as far as memberships and streams go.    *)
LEMMA MoveStep ==
  ASSUME IInv, NEW i \in Interventions, PersistMembership(i) \/ Transition(i)
  PROVE  TypeOK' /\ MembersStand' /\ UNCHANGED <<receipts, index, sets, work>>
<1>1. TypeOK /\ MembersStand
  BY DEF IInv
<1>2. Of[i].scope \in Scopes
  BY DEF Scopes
<1>3. CASE PersistMembership(i)
  <2> DEFINE longer == Append(members[Of[i].scope], i)
  <2>1. /\ members' = [members EXCEPT ![Of[i].scope] = longer] /\ UNCHANGED <<stream, spent>>
        /\ i \notin Elements(members[Of[i].scope])
        /\ UNCHANGED <<receipts, index, sets, work>>
    BY <1>3 DEF PersistMembership
  <2>2. /\ longer \in Seq(Interventions) /\ Distinct(longer)
        /\ Elements(longer) = Elements(members[Of[i].scope]) \cup {i}
    BY <1>1, <1>2, <2>1, Extended DEF TypeOK, MembersStand
  <2> HIDE DEF longer
  <2>3. TypeOK'
    BY <1>1, <2>1, <2>2 DEF TypeOK
  <2>4. \A s \in Scopes : members'[s] = IF s = Of[i].scope THEN longer ELSE members[s]
    BY <1>1, <2>1 DEF TypeOK
  <2>5. MembersStand'
    <3>1. \A j \in Interventions : Of[j].scope \in Scopes
      BY DEF Scopes
    <3> QED
      BY <1>1, <1>2, <2>1, <2>2, <2>4, <3>1 DEF MembersStand
  <2> QED
    BY <2>1, <2>3, <2>5
<1>4. CASE Transition(i)
  <2>1. PICK t \in States : stream' = [stream EXCEPT ![i] = Append(@, t)]
    BY <1>4 DEF Transition
  <2> DEFINE longer == Append(stream[i], t)
  <2>2. t \in InterventionState /\ longer \in Seq(InterventionState)
    BY <1>1, <2>1, ResolutionAssumption DEF TypeOK
  <2>3. /\ stream' = [stream EXCEPT ![i] = longer] /\ UNCHANGED <<members, spent>>
        /\ i \in Elements(members[Of[i].scope]) /\ UNCHANGED <<receipts, index, sets, work>>
    BY <1>4, <2>1 DEF Transition
  <2> HIDE DEF longer
  <2>4. TypeOK' /\ MembersStand'
    BY <1>1, <2>2, <2>3 DEF TypeOK, MembersStand
  <2> QED
    BY <2>3, <2>4
<1> QED
  BY <1>3, <1>4

(* A step of a host.                                                       *)
LEMMA HostStep ==
  ASSUME IInv, NEW h \in Hosts, StartResolve(h) \/ StartAcknowledge(h) \/ Step(h) \/ Crash(h)
  PROVE  /\ TypeOK' /\ ReceiptsStand' /\ MembersStand' /\ IndexStands' /\ SetsStand'
         /\ Stands(h)' /\ \A g \in Hosts \ {h} : work'[g] = work[g]
<1>1. TypeOK /\ ReceiptsStand /\ MembersStand /\ IndexStands /\ SetsStand
  BY DEF IInv
<1>2. spent' \in [calls : Nat, crashes : Nat] /\ UNCHANGED <<members, stream>>
  <2>1. UNCHANGED <<members, stream>>
    BY DEF StartResolve, StartAcknowledge, StartCall, Step, Crash, ListMemberships, ReadMember,
           RefuseStale, PersistResolution, LoadExposureSet, ReadIndex, AppendIndex,
           CreateExposureSet, Return
  <2>2. \/ spent' = spent \/ spent' = [spent EXCEPT !.calls = @ + 1]
        \/ spent' = [spent EXCEPT !.crashes = @ + 1]
    BY DEF StartResolve, StartAcknowledge, StartCall, Step, Crash, ListMemberships, ReadMember,
           RefuseStale, PersistResolution, LoadExposureSet, ReadIndex, AppendIndex,
           CreateExposureSet, Return
  <2>3. spent \in [calls : Nat, crashes : Nat]
    BY <1>1 DEF TypeOK
  <2>4. spent.calls + 1 \in Nat /\ spent.crashes + 1 \in Nat
    BY <2>3
  <2>5. spent' \in [calls : Nat, crashes : Nat]
    <3>1. CASE spent' = spent
      BY <2>3, <3>1
    <3>2. CASE spent' = [spent EXCEPT !.calls = @ + 1]
      BY <2>3, <2>4, <3>2
    <3>3. CASE spent' = [spent EXCEPT !.crashes = @ + 1]
      BY <2>3, <2>4, <3>3
    <3> QED
      BY <2>2, <3>1, <3>2, <3>3
  <2> QED
    BY <2>1, <2>5
<1>3. MembersStand'
  BY <1>1, <1>2 DEF MembersStand
<1> DEFINE Acts == /\ work' \in [Hosts -> Job] /\ Stands(h)'
                   /\ \A g \in Hosts \ {h} : work'[g] = work[g]
<1>4. ASSUME UNCHANGED <<receipts, index, sets>>, Acts
      PROVE  TypeOK' /\ ReceiptsStand' /\ IndexStands' /\ SetsStand'
  BY <1>1, <1>2, <1>4 DEF TypeOK, ReceiptsStand, IndexStands, SetsStand, ReadableSet
<1>5. CASE StartResolve(h)
  <2>1. UNCHANGED <<receipts, index, sets>> /\ Acts
    BY <1>5, StartResolveStep DEF StartResolve, StartCall
  <2> QED
    BY <1>3, <1>4, <2>1
<1>6. CASE StartAcknowledge(h)
  <2>1. UNCHANGED <<receipts, index, sets>> /\ Acts
    BY <1>6, StartAcknowledgeStep DEF StartAcknowledge, StartCall
  <2> QED
    BY <1>3, <1>4, <2>1
<1>7. CASE ListMemberships(h)
  <2>1. UNCHANGED <<receipts, index, sets>> /\ Acts
    BY <1>7, ListMembershipsStep DEF ListMemberships
  <2> QED
    BY <1>3, <1>4, <2>1
<1>8. CASE ReadMember(h)
  <2>1. UNCHANGED <<receipts, index, sets>> /\ Acts
    BY <1>8, ReadMemberStep DEF ReadMember
  <2> QED
    BY <1>3, <1>4, <2>1
<1>9. CASE RefuseStale(h)
  <2>1. UNCHANGED <<receipts, index, sets>> /\ Acts
    BY <1>9, RefuseStaleStep DEF RefuseStale
  <2> QED
    BY <1>3, <1>4, <2>1
<1>10. CASE PersistResolution(h)
  <2>1. UNCHANGED <<index, sets>> /\ Acts /\ ReceiptsStand' /\ receipts' \in SUBSET Receipt
    BY <1>10, PersistResolutionStep DEF PersistResolution
  <2> QED
    BY <1>1, <1>2, <1>3, <2>1 DEF TypeOK, IndexStands, SetsStand, ReadableSet
<1>11. CASE LoadExposureSet(h)
  <2>1. UNCHANGED <<receipts, index, sets>> /\ Acts
    BY <1>11, LoadExposureSetStep DEF LoadExposureSet
  <2> QED
    BY <1>3, <1>4, <2>1
<1>12. CASE ReadIndex(h)
  <2>1. UNCHANGED <<receipts, index, sets>> /\ Acts
    BY <1>12, ReadIndexStep DEF ReadIndex
  <2> QED
    BY <1>3, <1>4, <2>1
<1>13. CASE AppendIndex(h)
  <2>1. /\ UNCHANGED <<receipts, sets>> /\ Acts /\ IndexStands'
        /\ index' \in [Episodes -> Seq(Resolved)]
    BY <1>13, AppendIndexStep DEF AppendIndex
  <2>2. TypeOK' /\ ReceiptsStand'
    BY <1>1, <1>2, <2>1 DEF TypeOK, ReceiptsStand
  <2>3. Grows
    BY <1>1, <1>13, StoreGrows DEF Next, Step
  <2>4. SetsStand'
    <3> SUFFICES ASSUME NEW x \in sets
                 PROVE  x.content.receipt \in Elements(index'[x.content.receipt.request.episode])
      BY <1>1, <2>1 DEF SetsStand, ReadableSet
    <3>1. x.content.receipt.request.episode \in Episodes
      BY <1>1 DEF TypeOK, ExposureSet, Exposed, Resolved, Episodes
    <3> QED
      BY <1>1, <2>3, <3>1 DEF SetsStand, Grows
  <2> QED
    BY <1>3, <2>1, <2>2, <2>4
<1>14. CASE CreateExposureSet(h)
  <2>1. UNCHANGED <<receipts, index>> /\ Acts /\ SetsStand' /\ sets' \in SUBSET ExposureSet
    BY <1>14, CreateExposureSetStep DEF CreateExposureSet
  <2> QED
    BY <1>1, <1>2, <1>3, <2>1 DEF TypeOK, ReceiptsStand, IndexStands
<1>15. CASE Return(h) \/ Crash(h)
  <2>1. Put(h, Idle) /\ UNCHANGED <<receipts, index, sets>>
    BY <1>15 DEF Return, Crash
  <2>2. Idle \in Job
    BY DEF Idle, Job
  <2>3. work' \in [Hosts -> Job] /\ work'[h] = Idle /\ \A g \in Hosts \ {h} : work'[g] = work[g]
    BY <1>1, <2>1, <2>2, Put_
  <2>4. Acts
    BY <1>1, <2>3, Idles
  <2> QED
    BY <1>3, <1>4, <2>1, <2>4
<1> QED
  BY <1>5, <1>6, <1>7, <1>8, <1>9, <1>10, <1>11, <1>12, <1>13, <1>14, <1>15 DEF Step

LEMMA NextIInv == IInv /\ [Next]_vars => IInv'
<1> SUFFICES ASSUME IInv, [Next]_vars PROVE IInv'
  OBVIOUS
<1>1. TypeOK /\ Grows
  BY StoreGrows DEF IInv
<1>2. CASE UNCHANGED vars
  <2>1. /\ UNCHANGED <<receipts, index, sets, work, members, stream, spent>>
        /\ TypeOK /\ ReceiptsStand /\ MembersStand /\ IndexStands /\ SetsStand
    BY <1>2 DEF vars, IInv
  <2>2. TypeOK' /\ ReceiptsStand' /\ MembersStand' /\ IndexStands' /\ SetsStand'
    BY <2>1 DEF TypeOK, ReceiptsStand, MembersStand, IndexStands, SetsStand, ReadableSet
  <2> QED
    BY <1>1, <2>1, <2>2, Keeps DEF IInv, HostsStand
<1>3. ASSUME NEW i \in Interventions, PersistMembership(i) \/ Transition(i) PROVE IInv'
  <2>1. TypeOK' /\ MembersStand' /\ UNCHANGED <<receipts, index, sets, work>>
    BY <1>3, MoveStep
  <2>2. ReceiptsStand' /\ IndexStands' /\ SetsStand'
    BY <2>1 DEF IInv, ReceiptsStand, IndexStands, SetsStand, ReadableSet
  <2> QED
    BY <1>1, <2>1, <2>2, Keeps DEF IInv, HostsStand
<1>4. ASSUME NEW h \in Hosts, StartResolve(h) \/ StartAcknowledge(h) \/ Step(h) \/ Crash(h)
      PROVE  IInv'
  <2>1. /\ TypeOK' /\ ReceiptsStand' /\ MembersStand' /\ IndexStands' /\ SetsStand'
        /\ Stands(h)' /\ \A g \in Hosts \ {h} : work'[g] = work[g]
    BY <1>4, HostStep
  <2>2. \A g \in Hosts \ {h} : (CallStands(g) /\ ReadingStands(g) /\ EntryAhead(g))'
    BY <1>1, <2>1, Keeps
  <2> QED
    BY <2>1, <2>2 DEF IInv, HostsStand, Stands
<1> QED
  BY <1>2, <1>3, <1>4 DEF Next

THEOREM Inductive == Spec => []IInv
BY InitIInv, NextIInv, PTL DEF Spec

(* The store and what every call holds are well typed.                     *)
THEOREM WellTyped == Spec => []TypeOK
<1>1. IInv => TypeOK
  BY DEF IInv
<1> QED
  BY Inductive, <1>1, PTL

(* Whatever moves while it is read, what a call freezes was in force while *)
(* the call ran, leaves out nothing that was in force throughout, and can  *)
(* be read back.                                                           *)
THEOREM Fair == Spec => []ResolutionFair
BY Inductive, FairNow, PTL

(* Racing and retried resolutions of one content share one receipt.        *)
THEOREM Canonical == Spec => []ReceiptCanonical
BY Inductive, CanonicalNow, PTL

(* Every exposure set is in its episode's index, once, within its limit.   *)
THEOREM Indexed == Spec => []SetsIndexed
BY Inductive, IndexedNow, PTL

-------------------------------------------------------------------------------
(***************************************************************************)
(* The ledger.                                                             *)
(***************************************************************************)

(* What the ledger sees of a host's call.                                  *)
LEMMA OneSeen ==
  ASSUME NEW h \in Hosts, \A g \in Hosts \ {h} : work'[g] = work[g]
  PROVE  Seens' = [Seens EXCEPT ![h] = Seen(h)']
<1>1. \A g \in Hosts \ {h} : Seen(g)' = Seen(g)
  BY DEF Seen, Asking, Content
<1> QED
  BY <1>1 DEF Seens

(* A step that neither the ledger nor the host's own call shows.           *)
LEMMA Unseen ==
  ASSUME NEW h \in Hosts, \A g \in Hosts \ {h} : work'[g] = work[g],
         Seen(h)' = Seen(h), UNCHANGED sets
  PROVE  UNCHANGED <<sets, Seens>>
<1>1. Seens' = [Seens EXCEPT ![h] = Seen(h)]
  BY OneSeen
<1> QED
  BY <1>1 DEF Seens

LEMMA ResolvingUnseen ==
  ASSUME IInv, NEW h \in Hosts,
         \/ ListMemberships(h) \/ ReadMember(h) \/ RefuseStale(h) \/ PersistResolution(h)
         \/ StartResolve(h)
  PROVE  UNCHANGED <<sets, Seens>>
<1>1. CallStands(h) /\ UNCHANGED sets /\ work \in [Hosts -> Job]
  BY DEF IInv, TypeOK, HostsStand, ListMemberships, ReadMember, RefuseStale, PersistResolution,
         StartResolve, StartCall
<1>2. \A g \in Hosts \ {h} : work'[g] = work[g]
  BY ListMembershipsStep, ReadMemberStep, RefuseStaleStep, PersistResolutionStep, StartResolveStep
<1>3. work[h].content = None
  <2>1. CASE At(h, "idle")
    BY <1>1, <2>1 DEF CallStands, At, Idle
  <2>2. CASE At(h, "member")
    BY <1>1, <2>2 DEF CallStands, At
  <2> QED
    BY <2>1, <2>2 DEF ListMemberships, ReadMember, RefuseStale, PersistResolution,
                      Complete, ScopeRead, StartResolve, StartCall
<1>4. work'[h].content = None
  <2>1. CASE ListMemberships(h)
    BY <1>1, <1>3, <2>1 DEF ListMemberships, Put, Job
  <2>2. CASE StartResolve(h)
    BY <1>1, <2>2 DEF StartResolve, Put, Idle
  <2> QED
    BY <1>3, <2>1, <2>2, ReadMemberStep, RefuseStaleStep, PersistResolutionStep
<1> QED
  BY <1>1, <1>2, <1>3, <1>4, Unseen DEF Seen, Asking, Content

LEMMA StepBegins ==
  ASSUME IInv, NEW h \in Hosts, StartAcknowledge(h)
  PROVE  ExposureLedger!Begin(h) \/ UNCHANGED <<sets, Seens>>
<1>1. /\ work' \in [Hosts -> Job] /\ UNCHANGED sets /\ CallStands(h) /\ At(h, "idle")
      /\ (work'[h].request = None /\ work'[h].answer = None) \/ work'[h].content = None
      /\ \A g \in Hosts \ {h} : work'[g] = work[g]
  BY StartAcknowledgeStep DEF IInv, HostsStand, StartAcknowledge, StartCall
<1>2. Seen(h) = [content |-> None, answer |-> None]
  BY <1>1 DEF Seen, Asking, Content, CallStands, At, Idle
<1>3. Seens' = [Seens EXCEPT ![h] = Seen(h)'] /\ Seens[h] = Seen(h)
  BY <1>1, OneSeen DEF Seens
<1>4. CASE work'[h].content = None
  <2>1. Seen(h)' = Seen(h)
    BY <1>2, <1>4 DEF Seen, Asking, Content
  <2> QED
    BY <1>1, <2>1, Unseen
<1>5. CASE work'[h].content # None
  <2>1. Seen(h)' = [content |-> work'[h].content, answer |-> None]
    BY <1>1, <1>5 DEF Seen, Asking, Content
  <2>2. [Seens[h] EXCEPT !.content = work'[h].content] = Seen(h)'
    BY <1>2, <1>3, <2>1
  <2>3. Seens' = [Seens EXCEPT ![h].content = work'[h].content]
    BY <1>3, <2>2
  <2>4. Seens'[h].content = work'[h].content
    BY <2>1 DEF Seens
  <2> QED
    BY <1>1, <1>2, <1>3, <1>5, <2>3, <2>4 DEF ExposureLedger!Begin, ExposureLedger!Unasked
<1> QED
  BY <1>4, <1>5

(* An acknowledgement in progress, as the ledger sees it.                  *)
LEMMA AskingSeen ==
  ASSUME IInv, NEW h \in Hosts, work[h].pc \in Writing
  PROVE  Seen(h) = [content |-> Content(h), answer |-> None] /\ Seens[h] = Seen(h) /\ ExposureLedger!Asks(h)
<1>1. Seen(h) = [content |-> Content(h), answer |-> None] /\ Content(h) # None
  BY Asks, AbsenceAssumption DEF Seen
<1> QED
  BY <1>1 DEF Seens, ExposureLedger!Asks

LEMMA StepAnswers ==
  ASSUME IInv, NEW h \in Hosts,
         LoadExposureSet(h) \/ ReadIndex(h) \/ AppendIndex(h) \/ CreateExposureSet(h)
  PROVE  ExposureLedger!Perform(h) \/ ExposureLedger!Fail(h) \/ UNCHANGED <<sets, Seens>>
<1>1. work[h].pc \in Writing
  BY DEF LoadExposureSet, ReadIndex, AppendIndex, CreateExposureSet, At, Writing
<1>2. /\ Seen(h) = [content |-> Content(h), answer |-> None] /\ Seens[h] = Seen(h)
      /\ ExposureLedger!Asks(h) /\ Content(h) # None
  BY <1>1, AskingSeen, Asks, AbsenceAssumption
<1>3. /\ work'[h].request = None /\ work'[h].content = Content(h)
      /\ \A g \in Hosts \ {h} : work'[g] = work[g]
  BY LoadExposureSetStep, ReadIndexStep, AppendIndexStep, CreateExposureSetStep
<1>4. /\ Seen(h)' = [content |-> Content(h), answer |-> work'[h].answer]
      /\ Seens' = [Seens EXCEPT ![h] = Seen(h)']
  BY <1>2, <1>3, OneSeen DEF Seen, Asking, Content
<1>5. ASSUME NEW a, work'[h].answer = a PROVE Seens' = [Seens EXCEPT ![h].answer = a]
  <2>1. [Seens[h] EXCEPT !.answer = a] = Seen(h)'
    BY <1>2, <1>4, <1>5
  <2> QED
    BY <1>4, <2>1
<1>6. work'[h].answer = None /\ UNCHANGED sets => UNCHANGED <<sets, Seens>>
  BY <1>2, <1>3, <1>4, Unseen
<1>7. ExposureLedger!Standing(Content(h)) = SetOf(Content(h).receipt)
  BY DEF ExposureLedger!Standing, SetOf
<1>8. ASSUME NEW x \in SetOf(Content(h).receipt), UNCHANGED sets,
             work'[h].answer = IF x.content = Content(h) THEN [code |-> "given", record |-> x]
                               ELSE [code |-> "exposure.already_acknowledged", record |-> None]
      PROVE  ExposureLedger!Perform(h)
  BY <1>2, <1>5, <1>7, <1>8 DEF ExposureLedger!Perform, ExposureLedger!Told, ExposureLedger!Refusal
<1>9. CASE LoadExposureSet(h)
  <2>1. /\ UNCHANGED sets
        /\ \/ work'[h].answer = None
           \/ /\ \E x \in SetOf(Content(h).receipt) : x.content # Content(h)
              /\ work'[h].answer = [code |-> "exposure.already_acknowledged", record |-> None]
    BY <1>9, LoadExposureSetStep DEF StoreKept
  <2> QED
    BY <1>6, <1>8, <2>1
<1>10. CASE ReadIndex(h)
  <2>1. /\ UNCHANGED sets
        /\ work'[h].answer \in {None} \cup {[code |-> f, record |-> None] :
                                 f \in {"exposure.limit_exceeded", "store.conflict"}}
    BY <1>10, ReadIndexStep DEF StoreKept
  <2> QED
    BY <1>2, <1>5, <1>6, <2>1 DEF ExposureLedger!Fail, ExposureLedger!Refusal
<1>11. CASE AppendIndex(h)
  BY <1>6, <1>11, AppendIndexStep DEF AppendIndex
<1>12. CASE CreateExposureSet(h)
  <2>1. CASE UNCHANGED sets /\ \E x \in SetOf(Content(h).receipt) :
                 work'[h].answer =
                   IF x.content = Content(h) THEN [code |-> "given", record |-> x]
                   ELSE [code |-> "exposure.already_acknowledged", record |-> None]
    BY <1>8, <2>1
  <2>2. CASE /\ SetOf(Content(h).receipt) = {}
             /\ \E t \in Instants : LET x == [content |-> Content(h), exposedAt |-> t]
                                   IN /\ sets' = sets \cup {x}
                                      /\ work'[h].answer = [code |-> "given", record |-> x]
    BY <1>2, <1>5, <1>7, <2>2 DEF ExposureLedger!Perform, ExposureLedger!Told
  <2> QED
    BY <1>12, <2>1, <2>2, CreateExposureSetStep
<1> QED
  BY <1>9, <1>10, <1>11, <1>12

LEMMA StepEnds ==
  ASSUME IInv, NEW h \in Hosts, Return(h) \/ Crash(h)
  PROVE  ExposureLedger!End(h) \/ UNCHANGED <<sets, Seens>>
<1>1. work' = [work EXCEPT ![h] = Idle] /\ UNCHANGED sets /\ work \in [Hosts -> Job]
  BY DEF IInv, TypeOK, Return, Crash, Put
<1>2. Seen(h)' = [content |-> None, answer |-> None]
  BY <1>1 DEF Seen, Asking, Content, Idle
<1>3. Seens' = [Seens EXCEPT ![h] = [content |-> None, answer |-> None]] /\ Seens[h] = Seen(h)
  BY <1>1, <1>2, OneSeen DEF Seens
<1>4. CASE Seen(h) = [content |-> None, answer |-> None]
  BY <1>1, <1>2, <1>4, Unseen
<1>5. CASE Seen(h) # [content |-> None, answer |-> None]
  BY <1>1, <1>3, <1>5 DEF ExposureLedger!End, ExposureLedger!Unasked
<1> QED
  BY <1>4, <1>5

(* Acknowledging implements the ledger: whichever hosts race, retry or     *)
(* crash, one receipt has one exposure set, and who acknowledges is told   *)
(* the one that stands.                                                    *)
THEOREM Implements == Spec => ImplementsLedger
<1>1. Init => ExposureLedger!Init
  <2> SUFFICES ASSUME Init PROVE sets = {} /\ Seens = [h \in Hosts |-> ExposureLedger!Unasked]
    BY DEF ExposureLedger!Init
  <2>1. \A h \in Hosts : Seen(h) = ExposureLedger!Unasked
    BY DEF Init, Seen, Asking, Content, Idle, ExposureLedger!Unasked
  <2> QED
    BY <2>1 DEF Init, Seens
<1>2. IInv /\ [Next]_vars => [ExposureLedger!Next]_<<sets, Seens>>
  <2> SUFFICES ASSUME IInv, [Next]_vars PROVE ExposureLedger!Next \/ UNCHANGED <<sets, Seens>>
    OBVIOUS
  <2>1. CASE UNCHANGED vars
    BY <2>1 DEF vars, Seens, Seen, Asking, Content
  <2>2. ASSUME NEW i \in Interventions, PersistMembership(i) \/ Transition(i)
        PROVE  UNCHANGED <<sets, Seens>>
    BY <2>2, MoveStep DEF Seens, Seen, Asking, Content
  <2>3. ASSUME NEW h \in Hosts, StartResolve(h) \/ StartAcknowledge(h) \/ Step(h) \/ Crash(h)
        PROVE  ExposureLedger!Next \/ UNCHANGED <<sets, Seens>>
    BY <2>3, ResolvingUnseen, StepBegins, StepAnswers, StepEnds DEF Step, ExposureLedger!Next
  <2> QED
    BY <2>1, <2>2, <2>3 DEF Next
<1> QED
  BY <1>1, <1>2, Inductive, PTL
  DEF Spec, ImplementsLedger, ExposureLedger!Spec, ExposureLedger!vars

===============================================================================
