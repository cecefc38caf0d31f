------------------------- MODULE SessionSyncProofs -------------------------
(***************************************************************************)
(* Proofs about SessionSync, for any sessions, batch sizes, chunks, limits *)
(* of failures, changes and stops.                                         *)
(***************************************************************************)
EXTENDS SessionSync, FiniteSetTheorems, TLAPS

\* What a pass names is in the database, and its cursor is not ahead of time.
Good(p, known, now) ==
  /\ p \in PassType
  /\ p.from <= now
  /\ p.seen \subseteq known
  /\ Ids(p.ids) \subseteq known

\* No row is stamped after the present moment, and what a queue, a pass or the
\* chunks name is in the database.
Stamped ==
  /\ \A s \in Sessions : rows[s] <= clock
  /\ \A w \in Passes : Good(pass[w], Known, clock)
  /\ \A m \in Modes : Ids(queue[m]) \subseteq Known
  /\ pending.left > 0 => pending.session \in Known

\* A pass queries and loads only when no chunk waits to be sent.
QueriesWithoutChunks ==
  /\ pending.left = 0 => pending.session = 0
  /\ pass["own"].phase \in {"listAll", "listNew", "load"} => pending.session = 0

\* The query for updates was given the cursor as it is.
QueriesFromCursor ==
  pass["own"].phase = "listNew" => pass["own"].from = top /\ pass["own"].seen = topIds

\* What is selected stays queued until it has been sent.
SelectedIsQueued ==
  pass["own"].phase = "load" => Ids(pass["own"].ids) \subseteq Ids(queue[pass["own"].mode])

\* The chunks that follow the one that is being sent are of the same content.
ChunksFollow ==
  pass["own"].phase \in {"handing", "sent"} =>
    \A s \in pass["own"].part :
      pending.session = s /\ (s \in pass["own"].fresh => pending.fresh)

Untainted ==
  /\ QueriesWithoutChunks
  /\ QueriesFromCursor
  /\ SelectedIsQueued
  /\ ChunksFollow
  /\ \A s \in owed : Tracked(s) \/ s \in excused

SyncInv == TypeOK /\ Stamped /\ (~tainted => Untainted)

-----------------------------------------------------------------------------
(* Sequences.                                                              *)

LEMMA SeqFacts ==
  ASSUME NEW S, NEW q \in Seq(S)
  PROVE  /\ Len(q) \in Nat /\ DOMAIN q = 1..Len(q)
         /\ IsFiniteSet(DOMAIN q)
         /\ Ids(q) \subseteq S
<1>1. Len(q) \in Nat /\ DOMAIN q = 1..Len(q)
  OBVIOUS
<1>2. IsFiniteSet(1..Len(q))
  BY <1>1, FS_Interval
<1>3. Ids(q) \subseteq S
  BY <1>1 DEF Ids
<1> QED  BY <1>1, <1>2, <1>3

(***************************************************************************)
(* What Without leaves of a sequence.                                      *)
(***************************************************************************)
LEMMA WithoutIs ==
  ASSUME NEW S, NEW q \in Seq(S), NEW R, NEW r \in Without(q, R)
  PROVE  /\ r \in Seq(S)
         /\ Ids(r) = Ids(q) \ R
         /\ IsInjective(q) => IsInjective(r)
<1> DEFINE K == {i \in DOMAIN q : q[i] \notin R}
<1>1. Len(q) \in Nat /\ DOMAIN q = 1..Len(q) /\ IsFiniteSet(DOMAIN q)
  BY SeqFacts
<1>2. Cardinality(K) \in Nat
  BY <1>1, FS_Subset, FS_CardinalityType
<1>3. \E f \in [1..Cardinality(K) -> K] :
         /\ Ids(f) = K
         /\ \A i, j \in DOMAIN f : i < j => f[i] < f[j]
         /\ r = [i \in DOMAIN f |-> q[f[i]]]
  BY DEF Without, Arranged
<1>4. PICK f \in [1..Cardinality(K) -> K] :
         /\ Ids(f) = K
         /\ \A i, j \in DOMAIN f : i < j => f[i] < f[j]
         /\ r = [i \in DOMAIN f |-> q[f[i]]]
  BY <1>3
<1> HIDE DEF K
<1>5. DOMAIN f = 1..Cardinality(K)
  BY <1>4
<1>6. r \in Seq(S)
  <2>1. \A i \in DOMAIN f : q[f[i]] \in S
    BY <1>1, <1>4 DEF K
  <2> QED  BY <1>2, <1>4, <1>5, <2>1
<1>7. DOMAIN r = DOMAIN f /\ \A i \in DOMAIN f : r[i] = q[f[i]]
  BY <1>4
<1>8. Ids(r) = Ids(q) \ R
  <2>1. ASSUME NEW x \in Ids(r) PROVE x \in Ids(q) \ R
    BY <1>4, <1>7, <2>1 DEF Ids, K
  <2>2. ASSUME NEW x \in Ids(q) \ R PROVE x \in Ids(r)
    <3>1. PICK i \in DOMAIN q : q[i] = x
      BY DEF Ids
    <3>2. i \in Ids(f)
      BY <1>4, <2>2, <3>1 DEF K
    <3>3. PICK k \in DOMAIN f : f[k] = i
      BY <3>2 DEF Ids
    <3> QED  BY <1>7, <3>1, <3>3 DEF Ids
  <2> QED  BY <2>1, <2>2
<1>9. ASSUME IsInjective(q) PROVE IsInjective(r)
  <2> SUFFICES ASSUME NEW i \in DOMAIN r, NEW j \in DOMAIN r, r[i] = r[j]
               PROVE  i = j
    BY DEF IsInjective
  <2>1. f[i] \in 1..Len(q) /\ f[j] \in 1..Len(q) /\ f[i] = f[j]
    BY <1>1, <1>4, <1>7, <1>9 DEF IsInjective, K
  <2>2. i \in Int /\ j \in Int
    BY <1>2, <1>5, <1>7
  <2> QED  BY <1>1, <1>4, <1>7, <2>1, <2>2
<1> QED  BY <1>6, <1>8, <1>9

(***************************************************************************)
(* A list of sessions names each of them once.                             *)
(***************************************************************************)
LEMMA ListedIs ==
  ASSUME TypeOK, NEW S \in SUBSET Sessions, NEW r \in Listed(S)
  PROVE  r \in Seq(Sessions) /\ Ids(r) = S /\ IsInjective(r)
<1>1. Cardinality(S) \in Nat
  BY SyncAssumption, FS_Subset, FS_CardinalityType
<1>2. /\ r \in [1..Cardinality(S) -> S]
      /\ Ids(r) = S
      /\ \A i, j \in DOMAIN r : i < j =>
           rows[r[i]] > rows[r[j]] \/ (rows[r[i]] = rows[r[j]] /\ r[i] > r[j])
  BY DEF Listed, Arranged
<1>3. r \in Seq(Sessions)
  BY <1>1, <1>2
<1>4. ASSUME NEW i \in DOMAIN r, NEW j \in DOMAIN r, r[i] = r[j], i # j
      PROVE  FALSE
  <2>1. r[i] \in Sessions
    BY <1>2
  <2>2. Sessions \subseteq Nat /\ MaxClock \in Nat /\ rows \in [Sessions -> 0..MaxClock]
    BY SyncAssumption DEF TypeOK
  <2>3. r[i] \in Nat
    BY <2>1, <2>2
  <2>5. rows[r[i]] \in Nat
    <3>1. \A s \in Sessions : rows[s] \in Nat
      BY <2>2
    <3> QED  BY <2>1, <3>1
  <2>4. i \in Int /\ j \in Int
    BY <1>1, <1>2
  <2> QED  BY <1>2, <1>4, <2>3, <2>4, <2>5
<1> QED  BY <1>2, <1>3, <1>4 DEF IsInjective

\* What is appended to a queue joins its sessions, each once.
LEMMA AppendedIs ==
  ASSUME NEW q \in Seq(Sessions), NEW r \in Seq(Sessions)
  PROVE  /\ q \o r \in Seq(Sessions)
         /\ Ids(q \o r) = Ids(q) \cup Ids(r)
         /\ IsInjective(q) /\ IsInjective(r) /\ Ids(q) \cap Ids(r) = {}
              => IsInjective(q \o r)
<1> DEFINE c == q \o r
<1>1. /\ c \in Seq(Sessions) /\ Len(c) = Len(q) + Len(r)
      /\ Len(q) \in Nat /\ Len(r) \in Nat
      /\ DOMAIN c = 1..Len(c) /\ DOMAIN q = 1..Len(q) /\ DOMAIN r = 1..Len(r)
      /\ \A i \in 1..Len(q) : c[i] = q[i]
      /\ \A i \in 1..Len(r) : c[Len(q) + i] = r[i]
  OBVIOUS
<1> HIDE DEF c
<1>2. \A i \in DOMAIN c : IF i <= Len(q) THEN i \in DOMAIN q /\ c[i] = q[i]
                          ELSE i - Len(q) \in DOMAIN r /\ c[i] = r[i - Len(q)]
  <2> TAKE i \in DOMAIN c
  <2>1. CASE i <= Len(q)
    BY <1>1, <2>1
  <2>2. CASE ~(i <= Len(q))
    <3>1. i - Len(q) \in 1..Len(r)
      BY <1>1, <2>2
    <3>2. Len(q) + (i - Len(q)) = i
      BY <1>1
    <3> QED  BY <1>1, <2>2, <3>1, <3>2
  <2> QED  BY <2>1, <2>2
<1>3. Ids(c) = Ids(q) \cup Ids(r)
  <2>1. Ids(c) \subseteq Ids(q) \cup Ids(r)
    BY <1>2 DEF Ids
  <2>2. Ids(q) \subseteq Ids(c)
    BY <1>1 DEF Ids
  <2>3. ASSUME NEW i \in DOMAIN r PROVE r[i] \in Ids(c)
    <3>1. Len(q) + i \in DOMAIN c /\ c[Len(q) + i] = r[i]
      BY <1>1
    <3> QED  BY <3>1 DEF Ids
  <2> QED  BY <2>1, <2>2, <2>3 DEF Ids
<1>4. ASSUME IsInjective(q), IsInjective(r), Ids(q) \cap Ids(r) = {}
      PROVE  IsInjective(c)
  <2> SUFFICES ASSUME NEW i \in DOMAIN c, NEW j \in DOMAIN c, c[i] = c[j]
               PROVE  i = j
    BY DEF IsInjective
  <2>1. i \in Int /\ j \in Int
    BY <1>1
  <2>2. CASE i <= Len(q) /\ j <= Len(q)
    BY <1>2, <1>4, <2>2 DEF IsInjective
  <2>3. CASE ~(i <= Len(q)) /\ ~(j <= Len(q))
    <3>1. i - Len(q) = j - Len(q)
      BY <1>2, <1>4, <2>3 DEF IsInjective
    <3> QED  BY <1>1, <2>1, <3>1
  <2>4. CASE i <= Len(q) /\ ~(j <= Len(q))
    BY <1>2, <1>4, <2>4 DEF Ids
  <2>5. CASE ~(i <= Len(q)) /\ j <= Len(q)
    BY <1>2, <1>4, <2>5 DEF Ids
  <2> QED  BY <2>2, <2>3, <2>4, <2>5
<1> QED  BY <1>1, <1>3, <1>4 DEF c

\* A beginning of a sequence.
LEMMA PrefixIs ==
  ASSUME NEW q \in Seq(Sessions), NEW n \in Nat, n <= Len(q)
  PROVE  SubSeq(q, 1, n) \in Seq(Sessions) /\ Ids(SubSeq(q, 1, n)) \subseteq Ids(q)
<1> DEFINE p == SubSeq(q, 1, n)
<1>1. /\ p \in Seq(Sessions) /\ Len(p) = n /\ DOMAIN p = 1..Len(p)
      /\ \A i \in 1..n : p[i] = q[i]
      /\ DOMAIN q = 1..Len(q) /\ Len(q) \in Nat
  OBVIOUS
<1> HIDE DEF p
<1>2. Ids(p) \subseteq Ids(q)
  BY <1>1 DEF Ids
<1> QED  BY <1>1, <1>2 DEF p

\* Candidates are members of the queue they are taken from.
LEMMA CandidatesAre ==
  ASSUME NEW q \in Seq(Sessions), NEW limit \in Nat, NEW c \in Candidates(q, limit)
  PROVE  c \in Seq(Sessions) /\ Ids(c) \subseteq Ids(q)
<1>1. PICK ready \in Without(q, deferred) :
        c = SubSeq(ready, 1, IF Len(ready) < limit THEN Len(ready) ELSE limit)
  BY DEF Candidates
<1>2. ready \in Seq(Sessions) /\ Ids(ready) \subseteq Ids(q) /\ Len(ready) \in Nat
  BY WithoutIs
<1> DEFINE n == IF Len(ready) < limit THEN Len(ready) ELSE limit
<1>3. n \in Nat /\ n <= Len(ready)
  BY <1>2
<1> HIDE DEF n
<1>4. SubSeq(ready, 1, n) \in Seq(Sessions) /\ Ids(SubSeq(ready, 1, n)) \subseteq Ids(ready)
  BY <1>2, <1>3, PrefixIs
<1> QED  BY <1>1, <1>2, <1>4 DEF n

\* The queues r are the queues as they were, that of mode without R.
RestOf(r, mode, R) ==
  /\ r \in [Modes -> Seq(Sessions)]
  /\ \A m \in Modes : IsInjective(r[m])
  /\ \A m \in Modes : Ids(r[m]) = IF m = mode THEN Ids(queue[m]) \ R
                                  ELSE Ids(queue[m])

\* A dequeue takes the sessions from one queue and keeps the other.
LEMMA DequeuedIs ==
  ASSUME TypeOK, NEW mode \in Modes, NEW R, NEW r \in Dequeued(mode, R)
  PROVE  RestOf(r, mode, R)
<1>1. PICK rest \in Without(queue[mode], R) : r = [queue EXCEPT ![mode] = rest]
  BY DEF Dequeued
<1>2. queue \in [Modes -> Seq(Sessions)] /\ \A m \in Modes : IsInjective(queue[m])
  BY DEF TypeOK
<1>3. /\ rest \in Seq(Sessions) /\ Ids(rest) = Ids(queue[mode]) \ R
      /\ IsInjective(rest)
  BY <1>2, WithoutIs
<1> QED  BY <1>1, <1>2, <1>3 DEF RestOf

-----------------------------------------------------------------------------
(* Types.                                                                  *)

Shape == TypeOK /\ Stamped

\* The assumptions on the constants, in the form the provers use.
LEMMA Constants ==
  /\ Sessions \subseteq Nat /\ 0 \notin Sessions /\ IsFiniteSet(Sessions)
  /\ MaxChunks \in Nat \ {0} /\ IncrementalBatch \in Nat /\ BackfillBatch \in Nat
  /\ MaxTimeouts \in Nat \ {0} /\ MaxRateLimited \in Nat \ {0}
  /\ MaxClock \in Nat /\ MaxEvents \in Nat
BY SyncAssumption

LEMMA NoPassGood == ASSUME Shape PROVE Good(NoPass, Known, clock)
<1>1. Ids(<<>>) = {}
  BY DEF Ids
<1>2. clock \in Nat
  BY Constants DEF Shape, TypeOK
<1>3. <<>> \in Seq(Sessions)
  OBVIOUS
<1> QED  BY <1>1, <1>2, <1>3 DEF Good, NoPass, PassType, Phases, Modes

(***************************************************************************)
(* The newest stamp of some rows is one of theirs.                         *)
(***************************************************************************)
LEMMA LatestIs ==
  ASSUME Shape, NEW S \in SUBSET Known, S # {}
  PROVE  Latest(S) \in 1..clock /\ \E s \in S : rows[s] = Latest(S)
<1>1. /\ rows \in [Sessions -> 0..MaxClock] /\ clock \in Nat /\ S \subseteq Sessions
      /\ \A s \in S : rows[s] \in 1..clock
  <2>1. rows \in [Sessions -> 0..MaxClock] /\ clock \in Nat /\ S \subseteq Sessions
    BY Constants DEF Shape, TypeOK, Known
  <2>2. ASSUME NEW s \in S PROVE rows[s] \in 1..clock
    <3>1. rows[s] \in 0..MaxClock /\ rows[s] > 0 /\ rows[s] <= clock
      BY <2>1 DEF Shape, Stamped, Known
    <3> QED  BY <2>1, <3>1
  <2> QED  BY <2>1, <2>2
<1> DEFINE T == StampsOf(S)
           Older(t) == {u \in T : u > t}
           C == {Older(t) : t \in T}
<1>2. T \subseteq 1..clock /\ T # {}
  BY <1>1 DEF StampsOf
<1>3. IsFiniteSet(T)
  <2>1. IsFiniteSet(1..clock)
    BY <1>1, FS_Interval
  <2> QED  BY <1>2, <2>1, FS_Subset
<1> HIDE DEF T
<1>4. C \subseteq FiniteSubsetsOf(T) /\ C # {}
  <2>1. \A t \in T : Older(t) \in SUBSET T
    OBVIOUS
  <2>2. \A t \in T : IsFiniteSet(Older(t))
    <3> TAKE t \in T
    <3>1. Older(t) \in SUBSET T
      OBVIOUS
    <3> HIDE DEF Older
    <3> QED  BY <1>3, <3>1, FS_Subset
  <2> QED  BY <1>2, <2>1, <2>2 DEF FiniteSubsetsOf
<1>5. PICK A \in C : \A B \in C : <<B, A>> \notin StrictSubsetOrdering(T)
  <2>1. IsWellFoundedOn(StrictSubsetOrdering(T), FiniteSubsetsOf(T))
    BY <1>3, FS_StrictSubsetOrderingWellFounded
  <2> HIDE DEF C
  <2> QED  BY <1>4, <2>1, WFMin
<1>6. PICK m \in T : A = Older(m)
  BY <1>5
<1>7. ASSUME NEW u \in T, u > m
      PROVE  FALSE
  <2>1. Older(u) \in C /\ Older(u) \subseteq A /\ u \in A /\ u \notin Older(u)
    BY <1>2, <1>6, <1>7
  <2>2. <<Older(u), A>> \in StrictSubsetOrdering(T)
    BY <1>6, <2>1 DEF StrictSubsetOrdering
  <2> QED  BY <1>5, <2>1, <2>2
<1>8. \A u \in T : u <= m
  BY <1>2, <1>7
<1>9. Latest(S) \in T
  BY <1>8 DEF Latest, T
<1> QED  BY <1>2, <1>9 DEF T, StampsOf

(***************************************************************************)
(* What a step that leaves the database alone must do to keep Shape.       *)
(***************************************************************************)
FlagsOK == /\ tainted \in BOOLEAN /\ relayReady \in BOOLEAN /\ socketDisabled \in BOOLEAN
           /\ started \in BOOLEAN /\ timer \in BOOLEAN /\ featureDisabled \in BOOLEAN
           /\ throttled \in BOOLEAN

QueuesGood(q) == /\ q \in [Modes -> Seq(Sessions)]
                 /\ \A m \in Modes : IsInjective(q[m]) /\ Ids(q[m]) \subseteq Known

ChunksGood(c) == c \in ChunksType /\ (c.left > 0 => c.session \in Known)

PassesGood(p) == /\ p \in [Passes -> PassType]
                 /\ \A w \in Passes : Good(p[w], Known, clock)

CountsGood(t, l) == /\ t \in [Sessions -> 0..(MaxTimeouts - 1)]
                    /\ l \in [Sessions -> 0..(MaxRateLimited - 1)]

\* What Shape says of each variable.
LEMMA ShapeFacts ==
  ASSUME Shape
  PROVE  /\ FlagsOK /\ QueuesGood(queue) /\ ChunksGood(pending) /\ PassesGood(pass)
         /\ CountsGood(timeouts, limited)
         /\ rows \in [Sessions -> 0..MaxClock] /\ clock \in 0..MaxClock
         /\ changes \in 0..MaxEvents /\ stops \in 0..MaxEvents
         /\ owed \subseteq Known /\ excused \subseteq Sessions /\ deferred \subseteq Known
         /\ top \in 0..clock /\ topIds \subseteq Known /\ Known \subseteq Sessions
         /\ \A s \in Sessions : rows[s] <= clock
BY DEF Shape, TypeOK, Stamped, FlagsOK, QueuesGood, ChunksGood, PassesGood, CountsGood, Known

\* A step that changes neither database nor clock has to keep the types only.
LEMMA ShapeKept ==
  ASSUME Shape, UNCHANGED <<rows, clock, changes>>,
         FlagsOK', owed' \subseteq owed, excused' \subseteq Sessions,
         stops' \in 0..MaxEvents, top' \in 0..clock, topIds' \subseteq Known,
         deferred' \subseteq Known, CountsGood(timeouts', limited'),
         QueuesGood(queue'), ChunksGood(pending'), PassesGood(pass')
  PROVE  Shape'
<1>1. Known' = Known
  BY DEF Known
<1>2. TypeOK'
  BY <1>1, ShapeFacts DEF TypeOK, FlagsOK, CountsGood, QueuesGood, ChunksGood, PassesGood
<1>3. Stamped'
  BY <1>1, ShapeFacts DEF Stamped, QueuesGood, ChunksGood, PassesGood
<1> QED  BY <1>2, <1>3 DEF Shape

LEMMA NoChunksGood == ChunksGood(NoChunks)
BY Constants DEF ChunksGood, ChunksType, NoChunks, Modes

\* A pass that is replaced by a good one.
LEMMA PassSet ==
  ASSUME Shape, NEW w \in Passes, NEW p, Good(p, Known, clock)
  PROVE  PassesGood([pass EXCEPT ![w] = p])
<1>1. PassesGood(pass) /\ p \in PassType
  BY ShapeFacts DEF Good
<1> QED  BY <1>1 DEF PassesGood

\* A pass begins with a query, or with the chunks that wait.
LEMMA BeginShape ==
  ASSUME Shape, Begin
  PROVE  ChunksGood(pending') /\ PassesGood(pass')
<1>1. /\ ChunksGood(pending) /\ PassesGood(pass) /\ "own" \in Passes
      /\ top \in 0..clock /\ clock \in Nat /\ topIds \subseteq Known /\ Known \subseteq Sessions
  BY Constants, ShapeFacts DEF Passes
<1>2. CASE pass["own"].phase # "none"
  BY <1>1, <1>2 DEF Begin
<1>3. CASE pass["own"].phase = "none" /\ pending.left > 0
  <2>1. /\ pending \in ChunksType /\ pending.session \in Known /\ pending.session \in Sessions
        /\ pending.mode \in Modes /\ pending.left \in 1..(MaxChunks - 1)
    BY <1>1, <1>3, Constants DEF ChunksGood, ChunksType
  <2>2. ChunksGood(pending')
    <3>1. CASE pending.left = 1
      BY <1>3, <3>1, NoChunksGood DEF Begin
    <3>2. CASE pending.left # 1
      <4>1. pending' = [pending EXCEPT !.left = @ - 1]
        BY <1>3, <3>2 DEF Begin
      <4>2. pending.left - 1 \in 0..(MaxChunks - 1)
        BY <2>1, <3>2, Constants
      <4> QED  BY <2>1, <4>1, <4>2 DEF ChunksGood, ChunksType
    <3> QED  BY <3>1, <3>2
  <2> DEFINE p == [NoPass EXCEPT !.phase = "handing", !.mode = pending.mode,
                           !.ids = <<pending.session>>,
                           !.fresh = IF pending.fresh THEN {pending.session} ELSE {},
                           !.part = IF pending.left = 1 THEN {} ELSE {pending.session}]
  <2>3. pass' = [pass EXCEPT !["own"] = p]
    BY <1>3 DEF Begin
  <2>4. Good(p, Known, clock)
    <3>1. <<pending.session>> \in Seq(Sessions) /\ Ids(<<pending.session>>) \subseteq Known
      BY <2>1 DEF Ids
    <3>2. p \in PassType
      BY <2>1, <3>1 DEF PassType, NoPass, Phases
    <3>3. p.from = 0 /\ p.seen = {} /\ p.ids = <<pending.session>>
      BY DEF NoPass
    <3> HIDE DEF p
    <3> QED  BY <1>1, <3>1, <3>2, <3>3 DEF Good
  <2> HIDE DEF p
  <2>5. PassesGood(pass')
    BY <1>1, <2>3, <2>4, PassSet
  <2> QED  BY <2>2, <2>5
<1>4. CASE pass["own"].phase = "none" /\ ~(pending.left > 0)
  <2> DEFINE p == IF top = 0 THEN [NoPass EXCEPT !.phase = "listAll"]
                  ELSE [NoPass EXCEPT !.phase = "listNew", !.from = top, !.seen = topIds]
  <2>1. pass' = [pass EXCEPT !["own"] = p] /\ pending' = pending
    BY <1>4 DEF Begin
  <2>2. Good(p, Known, clock)
    <3>1. <<>> \in Seq(Sessions) /\ Ids(<<>>) \subseteq Known
      BY DEF Ids
    <3>2. p \in PassType
      <4>1. [NoPass EXCEPT !.phase = "listAll"] \in PassType
        BY <3>1 DEF PassType, NoPass, Phases, Modes
      <4>2. [NoPass EXCEPT !.phase = "listNew", !.from = top, !.seen = topIds] \in PassType
        <5>1. top \in Nat /\ topIds \in SUBSET Sessions
          BY <1>1
        <5>2. NoPass \in PassType
          BY <3>1 DEF PassType, NoPass, Phases, Modes
        <5> QED  BY <5>1, <5>2 DEF PassType, Phases
      <4> QED  BY <4>1, <4>2
    <3>3. p.from \in {0, top} /\ p.seen \in {{}, topIds} /\ p.ids = <<>>
      BY DEF NoPass
    <3> HIDE DEF p
    <3> QED  BY <1>1, <3>1, <3>2, <3>3 DEF Good
  <2> HIDE DEF p
  <2>3. PassesGood(pass')
    BY <1>1, <2>1, <2>2, PassSet
  <2> QED  BY <1>1, <2>1, <2>3
<1> QED  BY <1>2, <1>3, <1>4

LEMMA InitShape == ASSUME Init PROVE Shape
<1>1. \A m \in Modes : IsInjective(queue[m]) /\ Ids(queue[m]) = {}
  BY DEF Init, IsInjective, Ids
<1>2. <<>> \in Seq(Sessions) /\ Ids(<<>>) = {}
  BY DEF Ids
<1>3. queue \in [Modes -> Seq(Sessions)]
  BY <1>2 DEF Init
<1>4. NoPass \in PassType /\ NoPass.from = 0 /\ NoPass.seen = {} /\ NoPass.ids = <<>>
  BY <1>2 DEF NoPass, PassType, Phases, Modes
<1>5. NoChunks \in ChunksType /\ NoChunks.left = 0
  BY NoChunksGood DEF ChunksGood, NoChunks
<1>6. Known = {}
  BY DEF Init, Known
<1>7. pass \in [Passes -> PassType] /\ \A w \in Passes : pass[w] = NoPass
  BY <1>4 DEF Init
<1>8. TypeOK
  <2>1. {tainted, relayReady, socketDisabled, started, timer, featureDisabled,
         throttled} \subseteq BOOLEAN
    BY DEF Init
  <2>2. /\ rows \in [Sessions -> 0..MaxClock]
        /\ timeouts \in [Sessions -> 0..(MaxTimeouts - 1)]
        /\ limited \in [Sessions -> 0..(MaxRateLimited - 1)]
    BY Constants DEF Init
  <2>3. /\ clock \in 0..MaxClock /\ changes \in 0..MaxEvents /\ stops \in 0..MaxEvents
        /\ top \in 0..clock
    BY Constants DEF Init
  <2>4. owed \subseteq Known /\ excused \subseteq Sessions /\ topIds \subseteq Known
        /\ deferred \subseteq Known
    BY DEF Init
  <2>5. pending \in ChunksType
    BY <1>5 DEF Init
  <2> QED  BY <1>1, <1>3, <1>7, <2>1, <2>2, <2>3, <2>4, <2>5 DEF TypeOK
<1>9. Stamped
  BY <1>1, <1>2, <1>4, <1>5, <1>6, <1>7 DEF Init, Stamped, Good
<1> QED  BY <1>8, <1>9 DEF Shape

(***************************************************************************)
(* A change of the database: rows are added, and time goes on.             *)
(***************************************************************************)
LEMMA ChangedShape ==
  ASSUME Shape, NEW s \in Sessions, NEW t \in 1..MaxClock,
         clock' \in 0..MaxClock, clock <= clock', t <= clock', Changed(s, t)
  PROVE  Shape'
<1>1. /\ FlagsOK /\ QueuesGood(queue) /\ ChunksGood(pending) /\ PassesGood(pass)
      /\ CountsGood(timeouts, limited)
      /\ rows \in [Sessions -> 0..MaxClock] /\ clock \in 0..MaxClock
      /\ changes \in 0..MaxEvents /\ stops \in 0..MaxEvents
      /\ owed \subseteq Known /\ excused \subseteq Sessions /\ deferred \subseteq Known
      /\ top \in 0..clock /\ topIds \subseteq Known /\ Known \subseteq Sessions
      /\ \A u \in Sessions : rows[u] <= clock
  BY ShapeFacts
<1>2. /\ rows' = [rows EXCEPT ![s] = t] /\ changes + stops < MaxEvents
      /\ changes' = changes + 1 /\ owed' = owed \cup {s}
      /\ pass' = [w \in Passes |-> [pass[w] EXCEPT !.fresh = @ \ {s}]]
      /\ pending' = [pending EXCEPT !.fresh = @ /\ pending.session # s]
      /\ UNCHANGED <<tainted, relay, service, cursor, queue, retries>>
      /\ excused' \subseteq excused \cup {s}
  BY DEF Changed
<1>3. /\ tainted' = tainted /\ relayReady' = relayReady /\ socketDisabled' = socketDisabled
      /\ started' = started /\ stops' = stops /\ timer' = timer
      /\ featureDisabled' = featureDisabled /\ throttled' = throttled
      /\ top' = top /\ topIds' = topIds /\ queue' = queue
      /\ deferred' = deferred /\ timeouts' = timeouts /\ limited' = limited
  BY <1>2 DEF relay, service, cursor, retries
<1>4. rows' \in [Sessions -> 0..MaxClock] /\ Known' = Known \cup {s}
  BY <1>1, <1>2, Constants DEF Known
<1>5. \A u \in Sessions : rows'[u] <= clock'
  BY <1>1, <1>2, Constants
<1>6. ChunksGood(pending)' /\ pending' \in ChunksType
  <2>1. pending \in ChunksType
    BY <1>1 DEF ChunksGood
  <2>2. pending' \in ChunksType
    BY <1>2, <2>1 DEF ChunksType
  <2>3. pending'.left = pending.left /\ pending'.session = pending.session
    BY <1>2, <2>1 DEF ChunksType
  <2> QED  BY <1>1, <1>4, <2>2, <2>3 DEF ChunksGood
<1>7. PassesGood(pass)'
  <2>1. ASSUME NEW w \in Passes
        PROVE  pass'[w] \in PassType /\ Good(pass'[w], Known', clock')
    <3>1. pass[w] \in PassType /\ Good(pass[w], Known, clock)
      BY <1>1 DEF PassesGood
    <3>2. pass'[w] = [pass[w] EXCEPT !.fresh = @ \ {s}]
      BY <1>2
    <3>3. /\ pass'[w] \in PassType /\ pass'[w].from = pass[w].from
          /\ pass'[w].seen = pass[w].seen /\ pass'[w].ids = pass[w].ids
      BY <3>1, <3>2 DEF PassType
    <3>4. pass[w].from \in Nat /\ clock \in Nat /\ clock' \in Nat
      BY <1>1, <3>1, Constants DEF PassType
    <3> QED  BY <1>4, <3>1, <3>3, <3>4 DEF Good
  <2> QED  BY <1>2, <2>1 DEF PassesGood
<1>8. QueuesGood(queue)'
  BY <1>1, <1>3, <1>4 DEF QueuesGood
<1>9. changes' \in 0..MaxEvents
  BY <1>1, <1>2, Constants
<1>10. top \in 0..clock'
  BY <1>1, Constants
<1>11. TypeOK'
  <2>1. /\ owed' \subseteq Known' /\ excused' \subseteq Sessions
        /\ topIds' \subseteq Known' /\ deferred' \subseteq Known'
    BY <1>1, <1>2, <1>3, <1>4
  <2>2. /\ {tainted, relayReady, socketDisabled, started, timer, featureDisabled,
            throttled}' \subseteq BOOLEAN
    BY <1>1, <1>3 DEF FlagsOK
  <2>3. timeouts' \in [Sessions -> 0..(MaxTimeouts - 1)]
        /\ limited' \in [Sessions -> 0..(MaxRateLimited - 1)]
    BY <1>1, <1>3 DEF CountsGood
  <2> QED  BY <1>1, <1>3, <1>4, <1>6, <1>7, <1>8, <1>9, <1>10, <2>1, <2>2, <2>3
           DEF TypeOK, PassesGood, QueuesGood
<1>12. Stamped'
  BY <1>5, <1>6, <1>7, <1>8 DEF Stamped, PassesGood, QueuesGood, ChunksGood
<1> QED  BY <1>11, <1>12 DEF Shape

(***************************************************************************)
(* The queries of a pass.                                                  *)
(***************************************************************************)
LEMMA ListAllShape ==
  ASSUME Shape, NEW w \in Passes, ListAllEnds(w)
  PROVE  Shape'
<1>1. /\ FlagsOK /\ QueuesGood(queue) /\ ChunksGood(pending) /\ PassesGood(pass)
      /\ CountsGood(timeouts, limited) /\ stops \in 0..MaxEvents
      /\ owed \subseteq Known /\ excused \subseteq Sessions /\ deferred \subseteq Known
      /\ top \in 0..clock /\ topIds \subseteq Known /\ Known \subseteq Sessions
      /\ clock \in Nat
  BY ShapeFacts, Constants
<1>2. /\ UNCHANGED <<source, relay, service, retries, pending>>
      /\ excused' = excused \ Known /\ tainted' = (tainted \/ w = "old")
  BY DEF ListAllEnds
<1>3. /\ UNCHANGED <<rows, clock, changes>> /\ owed' = owed
      /\ stops' = stops /\ deferred' = deferred /\ pending' = pending
      /\ CountsGood(timeouts', limited')
  BY <1>1, <1>2 DEF source, service, retries
<1>4. FlagsOK'
  BY <1>1, <1>2 DEF FlagsOK, relay, service
<1>5. top' \in 0..clock /\ topIds' \subseteq Known /\ QueuesGood(queue')
  <2>1. CASE Known = {}
    BY <1>1, <2>1 DEF ListAllEnds, cursor
  <2>2. CASE Known # {}
    <3>1. /\ top' = Latest(Known)
          /\ topIds' = {s \in Known : rows[s] = Latest(Known)}
          /\ \E added \in Listed(Known \ Ids(queue["backfill"])) :
               queue' = [queue EXCEPT !["backfill"] = @ \o added]
      BY <2>2 DEF ListAllEnds
    <3>2. top' \in 0..clock
      BY <1>1, <2>2, <3>1, LatestIs
    <3>3. PICK added \in Listed(Known \ Ids(queue["backfill"])) :
            queue' = [queue EXCEPT !["backfill"] = queue["backfill"] \o added]
      BY <3>1
    <3>4. /\ added \in Seq(Sessions) /\ Ids(added) = Known \ Ids(queue["backfill"])
          /\ IsInjective(added)
      <4>1. Known \ Ids(queue["backfill"]) \in SUBSET Sessions
        BY <1>1
      <4> QED  BY <4>1, ListedIs DEF Shape
    <3>5. QueuesGood(queue')
      <4>1. "backfill" \in Modes
        BY DEF Modes
      <4>2. queue["backfill"] \in Seq(Sessions) /\ IsInjective(queue["backfill"])
            /\ Ids(queue["backfill"]) \subseteq Known
        BY <1>1, <4>1 DEF QueuesGood
      <4>3. /\ queue["backfill"] \o added \in Seq(Sessions)
            /\ IsInjective(queue["backfill"] \o added)
            /\ Ids(queue["backfill"] \o added) \subseteq Known
        BY <3>4, <4>2, AppendedIs
      <4> DEFINE c == queue["backfill"] \o added
      <4>4. queue' = [queue EXCEPT !["backfill"] = c]
        BY <3>3
      <4> HIDE DEF c
      <4>5. c \in Seq(Sessions) /\ IsInjective(c) /\ Ids(c) \subseteq Known
        BY <4>3 DEF c
      <4> QED  BY <1>1, <4>1, <4>4, <4>5 DEF QueuesGood
    <3> QED  BY <3>1, <3>2, <3>5
  <2> QED  BY <2>1, <2>2
<1>6. PassesGood(pass')
  <2>1. CASE Known = {} /\ top = 0
    BY <2>1, NoPassGood, PassSet DEF ListAllEnds
  <2>2. CASE ~(Known = {} /\ top = 0)
    <3> DEFINE p == [NoPass EXCEPT !.phase = "listNew", !.from = top', !.seen = topIds']
    <3>1. pass' = [pass EXCEPT ![w] = p]
      BY <2>2 DEF ListAllEnds
    <3>2. Good(p, Known, clock)
      <4>1. <<>> \in Seq(Sessions) /\ Ids(<<>>) \subseteq Known
        BY DEF Ids
      <4>2. NoPass \in PassType /\ NoPass.ids = <<>>
        BY <4>1 DEF PassType, NoPass, Phases, Modes
      <4>3. top' \in Nat /\ topIds' \in SUBSET Sessions
        BY <1>1, <1>5
      <4>4. p \in PassType /\ p.from = top' /\ p.seen = topIds' /\ p.ids = <<>>
        BY <4>2, <4>3 DEF PassType, Phases
      <4> HIDE DEF p
      <4> QED  BY <1>1, <1>5, <4>1, <4>4 DEF Good
    <3> HIDE DEF p
    <3> QED  BY <3>1, <3>2, PassSet
  <2> QED  BY <2>1, <2>2
<1> QED  BY <1>1, <1>2, <1>3, <1>4, <1>5, <1>6, ShapeKept

\* The selection of a batch.
LEMMA SelectShape ==
  ASSUME Shape, NEW w \in Passes, NEW mode \in Modes, NEW ids \in Seq(Sessions),
         Ids(ids) \subseteq Known, Select(w, mode, ids)
  PROVE  PassesGood(pass')
<1> DEFINE p == [NoPass EXCEPT !.phase = "load", !.mode = mode, !.ids = ids,
                               !.fresh = Ids(ids)]
<1>1. pass' = [pass EXCEPT ![w] = p]
  BY DEF Select
<1>2. Good(NoPass, Known, clock) /\ NoPass \in PassType /\ Ids(ids) \in SUBSET Sessions
  BY NoPassGood, ShapeFacts DEF Good
<1>3. /\ p \in PassType /\ p.from = NoPass.from /\ p.seen = NoPass.seen /\ p.ids = ids
  BY <1>2 DEF PassType, Phases
<1> HIDE DEF p
<1>4. Good(p, Known, clock)
  BY <1>2, <1>3 DEF Good
<1> QED  BY <1>1, <1>4, PassSet

\* The rows that the query for updates returns, and the new ones among them.
Updated(w) == {s \in Known : rows[s] >= pass[w].from}
New(w) == {s \in Updated(w) : ~(rows[s] = pass[w].from /\ s \in pass[w].seen)}

\* The query for updates adds what it finds to the incremental queue.
LEMMA ListNewQueues ==
  ASSUME Shape, NEW w \in Passes, ListNewEnds(w)
  PROVE  /\ QueuesGood(queue')
         /\ queue'["backfill"] = queue["backfill"]
         /\ Ids(queue'["incremental"]) = Ids(queue["incremental"]) \cup New(w)
<1>1. QueuesGood(queue) /\ Known \subseteq Sessions /\ "incremental" \in Modes
  BY ShapeFacts DEF Modes
<1>2. PICK added \in Listed(New(w) \ Ids(queue["incremental"])) :
        queue' = [queue EXCEPT !["incremental"] = queue["incremental"] \o added]
  BY DEF ListNewEnds, New, Updated
<1>3. New(w) \subseteq Known
  BY DEF New, Updated
<1>4. /\ added \in Seq(Sessions) /\ Ids(added) = New(w) \ Ids(queue["incremental"])
      /\ IsInjective(added)
  <2>1. New(w) \ Ids(queue["incremental"]) \in SUBSET Sessions
    BY <1>1, <1>3
  <2> QED  BY <2>1, ListedIs DEF Shape
<1>5. /\ queue["incremental"] \in Seq(Sessions) /\ IsInjective(queue["incremental"])
      /\ Ids(queue["incremental"]) \subseteq Known
  BY <1>1 DEF QueuesGood
<1> DEFINE c == queue["incremental"] \o added
<1>6. /\ c \in Seq(Sessions) /\ IsInjective(c)
      /\ Ids(c) = Ids(queue["incremental"]) \cup New(w)
  BY <1>4, <1>5, AppendedIs
<1>7. queue' = [queue EXCEPT !["incremental"] = c]
  BY <1>2
<1> HIDE DEF c
<1>8. QueuesGood(queue')
  BY <1>1, <1>3, <1>5, <1>6, <1>7 DEF QueuesGood
<1>9. queue \in [Modes -> Seq(Sessions)] /\ "backfill" \in Modes
  BY <1>1 DEF QueuesGood, Modes
<1> QED  BY <1>1, <1>6, <1>7, <1>8, <1>9

\* What the pass does next: it loads a batch that is queued, or it ends.
LEMMA ListNewSelects ==
  ASSUME Shape, NEW w \in Passes, ListNewEnds(w)
  PROVE  \/ pass' = [pass EXCEPT ![w] = NoPass]
         \/ \E mode \in Modes, ids \in Seq(Sessions) :
              Ids(ids) \subseteq Ids(queue'[mode]) /\ Select(w, mode, ids)
<1>1. QueuesGood(queue') /\ QueuesGood(queue) /\ queue'["backfill"] = queue["backfill"]
  BY ListNewQueues, ShapeFacts
<1>2. PICK first \in Candidates(queue'["incremental"], IncrementalBatch),
           second \in Candidates(queue["backfill"], BackfillBatch) :
        IF ~throttled /\ first # <<>>
        THEN Select(w, "incremental", first) /\ throttled' = TRUE
        ELSE /\ IF second # <<>> THEN Select(w, "backfill", second)
                ELSE pass' = [pass EXCEPT ![w] = NoPass]
             /\ UNCHANGED throttled
  BY DEF ListNewEnds
<1>3. "incremental" \in Modes /\ "backfill" \in Modes
  BY DEF Modes
<1>4. queue'["incremental"] \in Seq(Sessions) /\ queue["backfill"] \in Seq(Sessions)
  BY <1>1, <1>3 DEF QueuesGood
<1>5. first \in Seq(Sessions) /\ Ids(first) \subseteq Ids(queue'["incremental"])
  BY <1>4, CandidatesAre, Constants
<1>6. second \in Seq(Sessions) /\ Ids(second) \subseteq Ids(queue["backfill"])
  BY <1>4, CandidatesAre, Constants
<1>7. CASE ~throttled /\ first # <<>>
  BY <1>2, <1>3, <1>5, <1>7
<1>8. CASE ~(~throttled /\ first # <<>>)
  <2>1. CASE second # <<>>
    BY <1>1, <1>2, <1>3, <1>6, <1>8, <2>1
  <2>2. CASE second = <<>>
    BY <1>2, <1>8, <2>2
  <2> QED  BY <2>1, <2>2
<1> QED  BY <1>7, <1>8

LEMMA ListNewShape ==
  ASSUME Shape, NEW w \in Passes, ListNewEnds(w)
  PROVE  Shape'
<1>1. /\ FlagsOK /\ QueuesGood(queue) /\ ChunksGood(pending) /\ PassesGood(pass)
      /\ CountsGood(timeouts, limited) /\ stops \in 0..MaxEvents
      /\ owed \subseteq Known /\ excused \subseteq Sessions /\ deferred \subseteq Known
      /\ top \in 0..clock /\ topIds \subseteq Known /\ Known \subseteq Sessions
      /\ clock \in Nat
  BY ShapeFacts, Constants
<1>2. /\ UNCHANGED <<source, relay, started, stops, timer, featureDisabled, retries, pending>>
      /\ excused' \subseteq excused /\ tainted' = (tainted \/ w = "old")
      /\ throttled' \in BOOLEAN
  BY <1>1 DEF ListNewEnds, FlagsOK
<1>3. /\ UNCHANGED <<rows, clock, changes>> /\ owed' = owed
      /\ stops' = stops /\ deferred' = deferred /\ pending' = pending
      /\ CountsGood(timeouts', limited')
  BY <1>1, <1>2 DEF source, retries
<1>4. FlagsOK'
  BY <1>1, <1>2 DEF FlagsOK, relay
<1>5. top' \in 0..clock /\ topIds' \subseteq Known
  <2>1. CASE Updated(w) = {}
    BY <1>1, <2>1 DEF ListNewEnds, cursor, Updated
  <2>2. CASE Updated(w) # {}
    <3>1. /\ top' = Latest(Updated(w))
          /\ topIds' = SeenAt(top', Updated(w), <<pass[w].from, pass[w].seen>>)
      BY <2>2 DEF ListNewEnds, Updated
    <3>2. Updated(w) \in SUBSET Known
      BY DEF Updated
    <3>3. top' \in 1..clock
      BY <2>2, <3>1, <3>2, LatestIs
    <3>4. pass[w].seen \subseteq Known
      BY <1>1 DEF PassesGood, Good
    <3>5. topIds' \subseteq Known
      BY <3>1, <3>2, <3>4 DEF SeenAt
    <3> QED  BY <1>1, <3>3, <3>5
  <2> QED  BY <2>1, <2>2
<1>6. PassesGood(pass')
  <2>1. CASE pass' = [pass EXCEPT ![w] = NoPass]
    BY <2>1, NoPassGood, PassSet
  <2>2. ASSUME NEW mode \in Modes, NEW ids \in Seq(Sessions),
               Ids(ids) \subseteq Ids(queue'[mode]), Select(w, mode, ids)
        PROVE  PassesGood(pass')
    <3>1. Ids(ids) \subseteq Known
      BY <2>2, ListNewQueues DEF QueuesGood
    <3> QED  BY <2>2, <3>1, SelectShape
  <2> QED  BY <2>1, <2>2, ListNewSelects
<1>7. QueuesGood(queue')
  BY ListNewQueues
<1> QED  BY <1>1, <1>2, <1>3, <1>4, <1>5, <1>6, <1>7, ShapeKept

(***************************************************************************)
(* A batch is cut to what fits.                                            *)
(***************************************************************************)
LEMMA LoadEffect ==
  ASSUME Shape, NEW w \in Passes, LoadEnds(w)
  PROVE  \E ids \in Seq(Sessions), left \in 0..(MaxChunks - 1) :
           LET b == pass[w]
               s == ids[1]
           IN  /\ Ids(ids) \subseteq Ids(b.ids) /\ s \in Ids(ids) /\ s \in Sessions
               /\ pass' = [pass EXCEPT ![w] =
                    [b EXCEPT !.phase = "handing", !.ids = ids, !.fresh = @ \cap Ids(ids),
                              !.part = IF left > 0 THEN {s} ELSE {}]]
               /\ pending' = IF left = 0 THEN pending
                             ELSE [session |-> s, mode |-> b.mode, left |-> left,
                                   fresh |-> s \in b.fresh]
               /\ tainted' = (tainted \/ (w = "old" /\ left > 0))
<1>1. PICK n \in 1..Len(pass[w].ids), left \in 0..(MaxChunks - 1) :
        LET b == pass[w]
            s == b.ids[1]
            ids == SubSeq(b.ids, 1, n)
        IN /\ pass' = [pass EXCEPT ![w] =
                [b EXCEPT !.phase = "handing", !.ids = ids, !.fresh = @ \cap Ids(ids),
                          !.part = IF left > 0 THEN {s} ELSE {}]]
           /\ pending' = IF left = 0 THEN pending
                         ELSE [session |-> s, mode |-> b.mode, left |-> left,
                               fresh |-> s \in b.fresh]
           /\ tainted' = (tainted \/ (w = "old" /\ left > 0))
  BY DEF LoadEnds
<1> DEFINE ids == SubSeq(pass[w].ids, 1, n)
<1>2. pass[w].ids \in Seq(Sessions)
  BY ShapeFacts DEF PassesGood, PassType
<1>3. n \in Nat /\ n <= Len(pass[w].ids) /\ 1 <= n
  BY <1>2
<1>4. ids \in Seq(Sessions) /\ Ids(ids) \subseteq Ids(pass[w].ids)
  BY <1>2, <1>3, PrefixIs
<1>5. ids[1] = pass[w].ids[1] /\ 1 \in DOMAIN ids /\ ids[1] \in Sessions
  BY <1>2, <1>3
<1>6. ids[1] \in Ids(ids)
  <2> HIDE DEF ids
  <2> QED  BY <1>5 DEF Ids
<1> HIDE DEF ids
<1> QED  BY <1>1, <1>4, <1>5, <1>6 DEF ids

LEMMA LoadShape ==
  ASSUME Shape, NEW w \in Passes, LoadEnds(w)
  PROVE  Shape'
<1>1. /\ FlagsOK /\ QueuesGood(queue) /\ ChunksGood(pending) /\ PassesGood(pass)
      /\ CountsGood(timeouts, limited) /\ stops \in 0..MaxEvents
      /\ owed \subseteq Known /\ excused \subseteq Sessions /\ deferred \subseteq Known
      /\ top \in 0..clock /\ topIds \subseteq Known
  BY ShapeFacts
<1>2. UNCHANGED <<source, excused, relay, service, cursor, queue, retries>>
  BY DEF LoadEnds
<1>3. PICK ids \in Seq(Sessions), left \in 0..(MaxChunks - 1) :
        /\ Ids(ids) \subseteq Ids(pass[w].ids) /\ ids[1] \in Ids(ids) /\ ids[1] \in Sessions
        /\ pass' = [pass EXCEPT ![w] =
             [pass[w] EXCEPT !.phase = "handing", !.ids = ids, !.fresh = @ \cap Ids(ids),
                             !.part = IF left > 0 THEN {ids[1]} ELSE {}]]
        /\ pending' = IF left = 0 THEN pending
                      ELSE [session |-> ids[1], mode |-> pass[w].mode, left |-> left,
                            fresh |-> ids[1] \in pass[w].fresh]
        /\ tainted' = (tainted \/ (w = "old" /\ left > 0))
  BY LoadEffect
<1>4. pass[w] \in PassType /\ Good(pass[w], Known, clock)
  BY <1>1 DEF PassesGood
<1> DEFINE part == IF left > 0 THEN {ids[1]} ELSE {}
           p == [pass[w] EXCEPT !.phase = "handing", !.ids = ids, !.fresh = @ \cap Ids(ids),
                                !.part = part]
<1>5. part \in SUBSET Sessions
  BY <1>3
<1>6. pass' = [pass EXCEPT ![w] = p]
  BY <1>3
<1> HIDE DEF part
<1>7. /\ p \in PassType /\ p.from = pass[w].from /\ p.seen = pass[w].seen /\ p.ids = ids
  BY <1>4, <1>5 DEF PassType, Phases
<1> HIDE DEF p
<1>8. PassesGood(pass')
  <2>1. Good(p, Known, clock)
    BY <1>3, <1>4, <1>7 DEF Good
  <2> QED  BY <1>6, <2>1, PassSet
<1>9. ChunksGood(pending')
  <2>1. CASE left = 0
    BY <1>1, <1>3, <2>1
  <2>2. CASE left # 0
    <3>1. ids[1] \in Known /\ pass[w].mode \in Modes
      BY <1>3, <1>4 DEF Good, PassType
    <3> DEFINE same == ids[1] \in pass[w].fresh
               first == ids[1]
    <3>2. pending' = [session |-> first, mode |-> pass[w].mode, left |-> left,
                      fresh |-> same]
      BY <1>3, <2>2
    <3>3. same \in BOOLEAN /\ first \in Known /\ first \in Sessions
      BY <1>3, <3>1
    <3> HIDE DEF same, first
    <3>4. pending' \in ChunksType
      BY <3>1, <3>2, <3>3 DEF ChunksType
    <3>5. pending'.session = first
      BY <3>2
    <3> QED  BY <3>3, <3>4, <3>5 DEF ChunksGood
  <2> QED  BY <2>1, <2>2
<1>10. FlagsOK'
  BY <1>1, <1>2, <1>3 DEF FlagsOK, relay, service
<1>11. /\ UNCHANGED <<rows, clock, changes>> /\ owed' = owed /\ excused' = excused
       /\ stops' = stops /\ top' = top /\ topIds' = topIds /\ deferred' = deferred
       /\ queue' = queue /\ timeouts' = timeouts /\ limited' = limited
  BY <1>2 DEF source, service, cursor, retries
<1> QED  BY <1>1, <1>8, <1>9, <1>10, <1>11, ShapeKept

(***************************************************************************)
(* The answer to a batch.                                                  *)
(***************************************************************************)
LEMMA ForgottenIs ==
  ASSUME NEW max \in Nat \ {0}, NEW counts \in [Sessions -> 0..(max - 1)], NEW S
  PROVE  Forgotten(counts, S) \in [Sessions -> 0..(max - 1)]
BY DEF Forgotten

\* The sessions that failed too often are counted from 0 again.
LEMMA CountedIs ==
  ASSUME NEW max \in Nat \ {0}, NEW counts \in [Sessions -> 0..(max - 1)]
  PROVE  Counted(counts, Exhausted(counts, max)) \in [Sessions -> 0..(max - 1)]
<1> SUFFICES ASSUME NEW s \in Sessions
             PROVE  (IF s \in Exhausted(counts, max) THEN 0
                     ELSE IF s \in Ids(Batch.ids) THEN counts[s] + 1
                     ELSE counts[s]) \in 0..(max - 1)
  BY DEF Counted
<1>1. counts[s] \in 0..(max - 1)
  OBVIOUS
<1>2. CASE s \in Ids(Batch.ids) /\ s \notin Exhausted(counts, max)
  <2>1. ~(counts[s] + 1 >= max)
    BY <1>2 DEF Exhausted
  <2> QED  BY <1>1, <1>2, <2>1
<1>3. CASE ~(s \in Ids(Batch.ids) /\ s \notin Exhausted(counts, max))
  BY <1>1, <1>3
<1> QED  BY <1>2, <1>3

\* A dequeue adds to no queue, and only what is dequeued leaves one.
LEMMA DequeuedGood ==
  ASSUME Shape, NEW R, queue' \in Dequeued(Batch.mode, R)
  PROVE  /\ QueuesGood(queue')
         /\ \A s \in Sessions : IsQueued(s)' => IsQueued(s)
         /\ \A s \in Sessions : IsQueued(s) /\ s \notin R => IsQueued(s)'
<1> DEFINE mode == Batch.mode
<1>1. mode \in Modes /\ QueuesGood(queue) /\ TypeOK /\ queue' \in Dequeued(mode, R)
  BY ShapeFacts DEF Shape, PassesGood, PassType, Batch, Passes
<1> HIDE DEF mode
<1>2. RestOf(queue', mode, R)
  BY <1>1, DequeuedIs
<1>3. QueuesGood(queue')
  BY <1>1, <1>2 DEF QueuesGood, RestOf
<1> QED  BY <1>1, <1>2, <1>3 DEF IsQueued, RestOf

\* Sessions that are given up leave the queue and are excused.
LEMMA FailedShape ==
  ASSUME Shape, NEW R, Failed(R)
  PROVE  /\ QueuesGood(queue') /\ ChunksGood(pending') /\ excused' \subseteq Sessions
         /\ owed' = owed
<1>1. /\ pending' \in {NoChunks, pending} /\ queue' \in Dequeued(Batch.mode, R)
      /\ excused' \subseteq excused \cup Batch.fresh /\ owed' = owed
  BY DEF Failed
<1>2. Batch.fresh \subseteq Sessions /\ excused \subseteq Sessions /\ ChunksGood(pending)
  BY ShapeFacts DEF PassesGood, PassType, Batch, Passes
<1> QED  BY <1>1, <1>2, DequeuedGood, NoChunksGood

\* Every verdict on a batch keeps the types.
LEMMA HandledShape ==
  ASSUME Shape, NEW verdict \in Verdicts, Handled(verdict),
         relayReady' \in BOOLEAN, socketDisabled' \in BOOLEAN
  PROVE  Shape'
<1>1. /\ FlagsOK /\ QueuesGood(queue) /\ ChunksGood(pending) /\ PassesGood(pass)
      /\ timeouts \in [Sessions -> 0..(MaxTimeouts - 1)]
      /\ limited \in [Sessions -> 0..(MaxRateLimited - 1)]
      /\ stops \in 0..MaxEvents
      /\ owed \subseteq Known /\ excused \subseteq Sessions /\ deferred \subseteq Known
      /\ top \in 0..clock /\ topIds \subseteq Known
      /\ Ids(Batch.ids) \subseteq Known
  BY ShapeFacts DEF CountsGood, PassesGood, Good, Batch, Passes
<1>2. /\ pass' = [pass EXCEPT !["own"] = NoPass]
      /\ UNCHANGED <<rows, clock, changes, tainted, started, stops, throttled, cursor>>
  BY DEF Handled
<1>3. PassesGood(pass')
  BY <1>2, NoPassGood, PassSet DEF Passes
<1>4. /\ QueuesGood(queue') /\ ChunksGood(pending') /\ excused' \subseteq Sessions
      /\ owed' \subseteq owed /\ deferred' \subseteq Known
      /\ timeouts' \in [Sessions -> 0..(MaxTimeouts - 1)]
      /\ limited' \in [Sessions -> 0..(MaxRateLimited - 1)]
      /\ timer' \in BOOLEAN /\ featureDisabled' \in BOOLEAN
  <2>1. CASE Accepted
    <3>1. PICK done : /\ queue' \in Dequeued(Batch.mode, done)
                      /\ timeouts' = Forgotten(timeouts, done)
                      /\ limited' = Forgotten(limited, done)
                      /\ deferred' = deferred \ done
                      /\ owed' = owed \ (Batch.fresh \ Batch.part)
                      /\ UNCHANGED <<excused, pending, timer, featureDisabled>>
      BY <2>1 DEF Accepted
    <3>2. /\ timeouts' \in [Sessions -> 0..(MaxTimeouts - 1)]
          /\ limited' \in [Sessions -> 0..(MaxRateLimited - 1)]
      BY <1>1, <3>1, ForgottenIs, Constants
    <3> QED  BY <1>1, <3>1, <3>2, DequeuedGood DEF FlagsOK
  <2>2. CASE ValidationFailed
    BY <1>1, <2>2, FailedShape DEF ValidationFailed, retries, FlagsOK
  <2>3. CASE FeatureDisabled
    BY <1>1, <2>3, FailedShape DEF FeatureDisabled, retries
  <2>4. CASE AckTimeout
    <3> DEFINE dead == Exhausted(timeouts, MaxTimeouts)
    <3>1. /\ Failed(dead)
          /\ timeouts' = Counted(timeouts, dead)
          /\ limited' = Forgotten(limited, dead)
          /\ deferred' = deferred \ dead
          /\ UNCHANGED <<timer, featureDisabled>>
      BY <2>4 DEF AckTimeout
    <3>2. /\ timeouts' \in [Sessions -> 0..(MaxTimeouts - 1)]
          /\ limited' \in [Sessions -> 0..(MaxRateLimited - 1)]
      BY <1>1, <3>1, ForgottenIs, CountedIs, Constants
    <3> HIDE DEF dead
    <3> QED  BY <1>1, <3>1, <3>2, FailedShape DEF FlagsOK
  <2>5. CASE RateLimited
    <3> DEFINE dead == IF relayReady THEN Exhausted(limited, MaxRateLimited) ELSE {}
    <3>1. /\ Failed(dead)
          /\ limited' = IF relayReady THEN Counted(limited, dead) ELSE limited
          /\ timeouts' = Forgotten(timeouts, dead)
          /\ deferred' = (deferred \cup Ids(Batch.ids)) \ dead
          /\ UNCHANGED <<timer, featureDisabled>>
      BY <2>5 DEF RateLimited
    <3>2. limited' \in [Sessions -> 0..(MaxRateLimited - 1)]
      <4>1. CASE relayReady
        BY <1>1, <3>1, <4>1, CountedIs, Constants
      <4>2. CASE ~relayReady
        BY <1>1, <3>1, <4>2
      <4> QED  BY <4>1, <4>2
    <3>3. timeouts' \in [Sessions -> 0..(MaxTimeouts - 1)]
      BY <1>1, <3>1, ForgottenIs, Constants
    <3> HIDE DEF dead
    <3> QED  BY <1>1, <3>1, <3>2, <3>3, FailedShape DEF FlagsOK
  <2> QED  BY <2>1, <2>2, <2>3, <2>4, <2>5 DEF Handled
<1>5. FlagsOK'
  BY <1>1, <1>2, <1>4 DEF FlagsOK
<1> QED  BY <1>1, <1>2, <1>3, <1>4, <1>5, ShapeKept DEF cursor, CountsGood

(***************************************************************************)
(* Every step keeps the shape.                                             *)
(***************************************************************************)
LEMMA QuietShape ==
  ASSUME Shape, UNCHANGED <<rows, clock, changes, owed, excused, top, topIds, queue,
                            timeouts, limited, deferred, stops>>,
         FlagsOK', ChunksGood(pending'), PassesGood(pass')
  PROVE  Shape'
BY ShapeFacts, ShapeKept

\* start, refresh and what the state of the relay does.
LEMMA ControlShape ==
  ASSUME Shape, Tick \/ Start \/ RelayReady \/ RelayLost \/ Refresh \/ ThrottleEnds
  PROVE  Shape'
<1>1. FlagsOK /\ ChunksGood(pending) /\ PassesGood(pass)
  BY ShapeFacts
<1>2. ASSUME Resume PROVE /\ ChunksGood(pending') /\ PassesGood(pass') /\ timer' \in BOOLEAN
                          /\ UNCHANGED <<featureDisabled, throttled>>
  <2>1. CASE featureDisabled
    BY <1>1, <1>2, <2>1 DEF Resume
  <2>2. CASE ~featureDisabled
    BY <1>1, <1>2, <2>2, BeginShape DEF Resume
  <2> QED  BY <2>1, <2>2
<1>3. ASSUME Pause \/ Dormant
      PROVE  /\ ChunksGood(pending') /\ PassesGood(pass') /\ timer' \in BOOLEAN
             /\ featureDisabled' \in BOOLEAN /\ throttled' \in BOOLEAN
  BY <1>1, <1>3 DEF Pause, Dormant, FlagsOK
<1>4. CASE Tick
  <2>1. ChunksGood(pending') /\ PassesGood(pass')
    BY <1>4, BeginShape DEF Tick
  <2> QED  BY <1>1, <1>4, <2>1, QuietShape
           DEF Tick, source, forgone, relay, service, cursor, retries, FlagsOK
<1>5. CASE Start
  <2>1. Resume \/ Pause
    BY <1>5 DEF Start
  <2>2. FlagsOK' /\ ChunksGood(pending') /\ PassesGood(pass')
    BY <1>1, <1>2, <1>3, <1>5, <2>1 DEF Start, forgone, relay, FlagsOK
  <2> QED  BY <1>5, <2>2, QuietShape DEF Start, source, forgone, cursor, retries
<1>6. CASE RelayReady
  <2>1. Resume \/ Dormant
    BY <1>6 DEF RelayReady
  <2>2. FlagsOK' /\ ChunksGood(pending') /\ PassesGood(pass')
    BY <1>1, <1>2, <1>3, <1>6, <2>1 DEF RelayReady, forgone, FlagsOK
  <2> QED  BY <1>6, <2>2, QuietShape DEF RelayReady, source, forgone, cursor, retries
<1>7. CASE RelayLost
  <2>1. Pause \/ Dormant
    BY <1>7 DEF RelayLost
  <2>2. FlagsOK' /\ ChunksGood(pending') /\ PassesGood(pass')
    BY <1>1, <1>3, <1>7, <2>1 DEF RelayLost, forgone, FlagsOK
  <2> QED  BY <1>7, <2>2, QuietShape DEF RelayLost, source, forgone, cursor, retries
<1>8. CASE Refresh
  <2>1. Resume \/ Pause
    BY <1>8 DEF Refresh
  <2>2. FlagsOK' /\ ChunksGood(pending') /\ PassesGood(pass')
    BY <1>1, <1>2, <1>3, <1>8, <2>1 DEF Refresh, forgone, relay, FlagsOK
  <2> QED  BY <1>8, <2>2, QuietShape DEF Refresh, source, forgone, cursor, retries
<1>9. CASE ThrottleEnds
  BY <1>1, <1>9, QuietShape DEF ThrottleEnds, source, forgone, relay, cursor, retries, FlagsOK
<1> QED  BY <1>4, <1>5, <1>6, <1>7, <1>8, <1>9

LEMMA StopShape == ASSUME Shape, Stop PROVE Shape'
<1>1. /\ FlagsOK /\ PassesGood(pass) /\ stops \in 0..MaxEvents /\ changes \in 0..MaxEvents
      /\ clock \in Nat
  BY ShapeFacts, Constants
<1>2. /\ pass' = [own |-> NoPass, old |-> pass["own"]] /\ pending' = NoChunks
      /\ queue' = [m \in Modes |-> <<>>]
      /\ UNCHANGED <<rows, clock, changes, owed>> /\ excused' = {} /\ stops' = stops + 1
      /\ changes + stops < MaxEvents
      /\ top' = 0 /\ topIds' = {} /\ deferred' = {}
      /\ timeouts' = [s \in Sessions |-> 0] /\ limited' = [s \in Sessions |-> 0]
  BY DEF Stop, source
<1>3. FlagsOK'
  BY <1>1 DEF Stop, relay, FlagsOK
<1>4. QueuesGood(queue')
  <2>1. <<>> \in Seq(Sessions) /\ Ids(<<>>) = {} /\ IsInjective(<<>>)
    BY DEF Ids, IsInjective
  <2> QED  BY <1>2, <2>1 DEF QueuesGood
<1>5. PassesGood(pass')
  <2>1. /\ Good(NoPass, Known, clock) /\ NoPass \in PassType
        /\ Good(pass["own"], Known, clock) /\ pass["own"] \in PassType
    BY <1>1, NoPassGood DEF PassesGood, Passes, Good
  <2>2. /\ pass' \in [Passes -> PassType]
        /\ pass'["own"] = NoPass /\ pass'["old"] = pass["own"]
    BY <1>2, <2>1 DEF Passes
  <2> QED  BY <2>1, <2>2 DEF PassesGood, Passes
<1>6. CountsGood(timeouts', limited')
  BY <1>2, Constants DEF CountsGood
<1>7. stops' \in 0..MaxEvents
  BY <1>1, <1>2, Constants
<1>8. ChunksGood(pending')
  BY <1>2, NoChunksGood
<1>9. top' \in 0..clock /\ topIds' \subseteq Known /\ deferred' \subseteq Known
  BY <1>1, <1>2
<1> QED  BY <1>2, <1>3, <1>4, <1>5, <1>6, <1>7, <1>8, <1>9, ShapeKept

\* A pass that ends, is handed to the relay, or belongs to an old generation.
LEMMA PassShape ==
  ASSUME Shape,
         \/ \E w \in Passes : PassThrows(w) \/ HandsOver(w)
         \/ RefusesOld
         \/ \E verdict \in Verdicts : AnswerOld(verdict)
  PROVE  Shape'
<1>1. /\ FlagsOK /\ QueuesGood(queue) /\ ChunksGood(pending) /\ PassesGood(pass)
      /\ CountsGood(timeouts, limited) /\ stops \in 0..MaxEvents
      /\ excused \subseteq Sessions /\ deferred \subseteq Known
      /\ top \in 0..clock /\ topIds \subseteq Known
  BY ShapeFacts
<1>2. ASSUME NEW w \in Passes, PassThrows(w) PROVE Shape'
  <2>1. PassesGood(pass')
    BY <1>2, NoPassGood, PassSet DEF PassThrows
  <2> QED  BY <1>1, <1>2, <2>1, QuietShape
           DEF PassThrows, source, forgone, relay, service, cursor, retries, FlagsOK
<1>3. ASSUME NEW w \in Passes, HandsOver(w) PROVE Shape'
  <2> DEFINE p == [pass[w] EXCEPT !.phase = "sent"]
  <2>1. pass[w] \in PassType /\ Good(pass[w], Known, clock)
    BY <1>1 DEF PassesGood
  <2>2. pass' = [pass EXCEPT ![w] = p]
    BY <1>3 DEF HandsOver
  <2>3. /\ p \in PassType /\ p.from = pass[w].from /\ p.seen = pass[w].seen
        /\ p.ids = pass[w].ids
    BY <2>1 DEF PassType, Phases
  <2> HIDE DEF p
  <2>4. PassesGood(pass')
    <3>1. Good(p, Known, clock)
      BY <2>1, <2>3 DEF Good
    <3> QED  BY <2>2, <3>1, PassSet
  <2> QED  BY <1>1, <1>3, <2>4, QuietShape
           DEF HandsOver, source, forgone, relay, service, cursor, retries, FlagsOK
<1>4. CASE RefusesOld
  <2>1. PassesGood(pass')
    BY <1>4, NoPassGood, PassSet DEF RefusesOld, Passes
  <2> QED  BY <1>1, <1>4, <2>1, QuietShape
           DEF RefusesOld, source, forgone, relay, service, cursor, retries, FlagsOK
<1>5. ASSUME NEW verdict \in Verdicts, AnswerOld(verdict) PROVE Shape'
  <2>1. PassesGood(pass')
    BY <1>5, NoPassGood, PassSet DEF AnswerOld, Passes
  <2>2. owed' \subseteq owed
    BY <1>5 DEF AnswerOld
  <2>3. FlagsOK'
    BY <1>1, <1>5 DEF AnswerOld, RelaySays, forgone, service, FlagsOK
  <2> QED  BY <1>1, <1>5, <2>1, <2>2, <2>3, ShapeKept
           DEF AnswerOld, forgone, service, cursor, retries
<1> QED  BY <1>2, <1>3, <1>4, <1>5

LEMMA ShapeStep == ASSUME Shape, [Next]_vars PROVE Shape'
<1>1. ASSUME NEW s \in Sessions, Write(s) PROVE Shape'
  <2>1. PICK t \in 1..MaxClock : t >= clock /\ clock' = t /\ Changed(s, t)
    BY <1>1 DEF Write
  <2>2. clock \in Nat /\ t \in Nat
    BY ShapeFacts, Constants
  <2>3. clock' \in 0..MaxClock /\ clock <= clock' /\ t <= clock'
    BY <2>1, <2>2
  <2> QED  BY <2>1, <2>3, ChangedShape
<1>2. ASSUME NEW s \in Sessions, Import(s) PROVE Shape'
  <2>1. PICK t \in 1..clock : clock' = clock /\ Changed(s, t)
    BY <1>2 DEF Import
  <2>2. clock \in 0..MaxClock /\ clock \in Nat
    BY ShapeFacts, Constants
  <2>3. t \in 1..MaxClock /\ t <= clock' /\ clock' \in 0..MaxClock /\ clock <= clock'
    BY <2>1, <2>2, Constants
  <2> QED  BY <2>1, <2>3, ChangedShape
<1>3. ASSUME NEW s \in Sessions, RetryIsDue(s) PROVE Shape'
  BY <1>3, ShapeFacts, ShapeKept
     DEF RetryIsDue, source, forgone, relay, service, cursor, FlagsOK
<1>4. ASSUME NEW verdict \in Verdicts, Answer(verdict) PROVE Shape'
  BY <1>4, HandledShape, ShapeFacts DEF Answer, RelaySays, FlagsOK
<1>5. CASE Refuses
  BY <1>5, HandledShape, ShapeFacts DEF Refuses, relay, FlagsOK, Verdicts
<1>6. CASE UNCHANGED vars
  BY <1>6, ShapeFacts, QuietShape
     DEF vars, source, forgone, relay, service, cursor, retries, FlagsOK
<1> QED  BY <1>1, <1>2, <1>3, <1>4, <1>5, <1>6, ListAllShape, ListNewShape, LoadShape,
            PassShape, ControlShape, StopShape DEF Next, HandOver

(***************************************************************************)
(* Type correctness: every variable of the sync and of the database keeps  *)
(* its type, no session is queued twice in a queue, and none fails as      *)
(* often as would be too many without being given up.                      *)
(***************************************************************************)
THEOREM TypeCorrect == Spec => []TypeOK
<1>1. Init => Shape
  BY InitShape
<1>2. Shape /\ [Next]_vars => Shape'
  BY ShapeStep
<1>3. Shape => TypeOK
  BY DEF Shape
<1> QED  BY <1>1, <1>2, <1>3, PTL DEF Spec

-----------------------------------------------------------------------------
(* No change slips.                                                        *)

\* What the own pass, the cursor, the queues and the chunks say of a session.
LEMMA TrackedSame ==
  ASSUME UNCHANGED <<rows, top, topIds, queue, pending>>, pass'["own"] = pass["own"],
         NEW s \in Sessions
  PROVE  Tracked(s)' <=> Tracked(s)
BY DEF Tracked, Ahead, InBatch, IsQueued

\* A step that leaves cursor, queues, chunks and own pass alone.
LEMMA QuietUntainted ==
  ASSUME Shape, Untainted, UNCHANGED <<rows, top, topIds, queue, pending, excused>>,
         owed' \subseteq owed, pass'["own"] = pass["own"]
  PROVE  Untainted'
<1>1. \A s \in owed' : Tracked(s)' \/ s \in excused'
  <2> TAKE s \in owed'
  <2>1. s \in Sessions /\ (Tracked(s) \/ s \in excused)
    BY ShapeFacts DEF Untainted
  <2> QED  BY <2>1, TrackedSame
<1> QED  BY <1>1 DEF Untainted, QueriesWithoutChunks, QueriesFromCursor, SelectedIsQueued,
                     ChunksFollow

\* A pass that begins queries from the cursor as it is.
LEMMA BeginUntainted ==
  ASSUME Shape, Untainted, Begin, UNCHANGED <<rows, top, topIds, queue, owed, excused>>
  PROVE  Untainted'
<1>1. /\ ChunksGood(pending) /\ PassesGood(pass) /\ "own" \in Passes
      /\ owed \subseteq Sessions /\ 0 \notin Sessions
  BY ShapeFacts, Constants DEF Passes
<1>2. CASE pass["own"].phase # "none"
  BY <1>2, QuietUntainted DEF Begin
<1>3. CASE pass["own"].phase = "none" /\ pending.left > 0
  <2> DEFINE p == [NoPass EXCEPT !.phase = "handing", !.mode = pending.mode,
                           !.ids = <<pending.session>>,
                           !.fresh = IF pending.fresh THEN {pending.session} ELSE {},
                           !.part = IF pending.left = 1 THEN {} ELSE {pending.session}]
  <2>1. pass' = [pass EXCEPT !["own"] = p]
    BY <1>3 DEF Begin
  <2>2. /\ p.phase = "handing" /\ p.ids = <<pending.session>>
        /\ p.fresh = (IF pending.fresh THEN {pending.session} ELSE {})
        /\ p.part = (IF pending.left = 1 THEN {} ELSE {pending.session})
    BY DEF NoPass
  <2> HIDE DEF p
  <2>3. pass'["own"] = p
    BY <1>1, <2>1 DEF PassesGood
  <2>4. Ids(p.ids) = {pending.session}
    BY <2>2 DEF Ids
  <2>5. IF pending.left = 1 THEN pending' = NoChunks
        ELSE /\ pending'.session = pending.session /\ pending'.fresh = pending.fresh
             /\ pending'.left = pending.left - 1
    BY <1>1, <1>3 DEF Begin, ChunksGood, ChunksType
  <2>6. NoChunks.session = 0 /\ NoChunks.left = 0
    BY DEF NoChunks
  <2>7. pending.left \in Nat
    BY <1>1, Constants DEF ChunksGood, ChunksType
  <2>8. QueriesWithoutChunks'
    BY <1>3, <2>2, <2>3, <2>5, <2>6, <2>7 DEF QueriesWithoutChunks
  <2>9. QueriesFromCursor' /\ SelectedIsQueued'
    BY <2>2, <2>3 DEF QueriesFromCursor, SelectedIsQueued
  <2>10. ChunksFollow'
    BY <2>2, <2>3, <2>5 DEF ChunksFollow
  <2>11. \A s \in owed' : Tracked(s)' \/ s \in excused'
    <3> TAKE s \in owed'
    <3>1. s \in Sessions /\ s # 0 /\ (Tracked(s) \/ s \in excused) /\ ~InBatch(s)
      BY <1>1, <1>3 DEF Untainted, InBatch
    <3>2. IsQueued(s)' = IsQueued(s) /\ Ahead(s)' = Ahead(s)
      BY DEF IsQueued, Ahead
    <3>3. InBatch(s)' <=> s = pending.session
      BY <2>2, <2>3, <2>4 DEF InBatch
    <3>4. CASE s = pending.session
      BY <2>2, <2>3, <3>1, <3>2, <3>3, <3>4 DEF Tracked
    <3>5. CASE s # pending.session
      BY <2>5, <2>6, <3>1, <3>2, <3>3, <3>5 DEF Tracked
    <3> QED  BY <3>4, <3>5
  <2> QED  BY <2>8, <2>9, <2>10, <2>11 DEF Untainted
<1>4. CASE pass["own"].phase = "none" /\ ~(pending.left > 0)
  <2> DEFINE p == IF top = 0 THEN [NoPass EXCEPT !.phase = "listAll"]
                  ELSE [NoPass EXCEPT !.phase = "listNew", !.from = top, !.seen = topIds]
  <2>1. pass' = [pass EXCEPT !["own"] = p] /\ pending' = pending
    BY <1>4 DEF Begin
  <2>2. /\ p.phase \in {"listAll", "listNew"}
        /\ p.phase = "listNew" => p.from = top /\ p.seen = topIds
    BY DEF NoPass
  <2> HIDE DEF p
  <2>3. pass'["own"] = p
    BY <1>1, <2>1 DEF PassesGood
  <2>4. pending.left = 0 /\ pending.session = 0
    <3>1. pending.left \in Nat
      BY <1>1, Constants DEF ChunksGood, ChunksType
    <3> QED  BY <1>4, <3>1 DEF Untainted, QueriesWithoutChunks
  <2>5. QueriesWithoutChunks' /\ QueriesFromCursor' /\ SelectedIsQueued' /\ ChunksFollow'
    BY <2>1, <2>2, <2>3, <2>4
       DEF QueriesWithoutChunks, QueriesFromCursor, SelectedIsQueued, ChunksFollow
  <2>6. \A s \in owed' : Tracked(s)' \/ s \in excused'
    <3> TAKE s \in owed'
    <3>1. /\ s \in Sessions /\ (Tracked(s) \/ s \in excused) /\ ~InBatch(s) /\ ~InBatch(s)'
      BY <1>1, <1>4, <2>2, <2>3 DEF Untainted, InBatch
    <3>2. IsQueued(s)' = IsQueued(s) /\ Ahead(s)' = Ahead(s)
      BY DEF IsQueued, Ahead
    <3> QED  BY <2>1, <3>1, <3>2 DEF Tracked
  <2> QED  BY <2>5, <2>6 DEF Untainted
<1> QED  BY <1>2, <1>3, <1>4

\* A change excuses what the service does not keep track of; it leaves what is
\* said of the other sessions as it is.
LEMMA ChangedUntainted ==
  ASSUME Shape, Untainted, NEW s \in Sessions, NEW t \in 1..MaxClock, Changed(s, t)
  PROVE  Untainted'
<1>1. /\ ChunksGood(pending) /\ PassesGood(pass) /\ "own" \in Passes
      /\ owed \subseteq Sessions /\ rows \in [Sessions -> 0..MaxClock]
  BY ShapeFacts, Constants DEF Passes
<1>2. /\ rows' = [rows EXCEPT ![s] = t] /\ owed' = owed \cup {s}
      /\ pass' = [w \in Passes |-> [pass[w] EXCEPT !.fresh = @ \ {s}]]
      /\ pending' = [pending EXCEPT !.fresh = @ /\ pending.session # s]
      /\ top' = top /\ topIds' = topIds /\ queue' = queue
      /\ excused' = IF Tracked(s)' THEN excused \ {s} ELSE excused \cup {s}
  BY DEF Changed, cursor
<1>3. LET p == pass'["own"]
          q == pass["own"]
      IN  /\ p.phase = q.phase /\ p.from = q.from /\ p.seen = q.seen /\ p.mode = q.mode
          /\ p.ids = q.ids /\ p.part = q.part /\ p.fresh = q.fresh \ {s}
  <2>1. pass["own"] \in PassType
    BY <1>1 DEF PassesGood
  <2>2. pass'["own"] = [pass["own"] EXCEPT !.fresh = @ \ {s}]
    BY <1>1, <1>2
  <2> QED  BY <2>1, <2>2 DEF PassType
<1>4. /\ pending'.left = pending.left /\ pending'.session = pending.session
      /\ pending.session # s => (pending'.fresh <=> pending.fresh)
  <2>1. pending \in ChunksType
    BY <1>1 DEF ChunksGood
  <2> QED  BY <1>2, <2>1 DEF ChunksType
<1>5. QueriesWithoutChunks' /\ QueriesFromCursor' /\ SelectedIsQueued'
  BY <1>2, <1>3, <1>4
     DEF Untainted, QueriesWithoutChunks, QueriesFromCursor, SelectedIsQueued
<1>6. ChunksFollow'
  BY <1>3, <1>4 DEF Untainted, ChunksFollow
<1>7. \A u \in owed' : Tracked(u)' \/ u \in excused'
  <2> TAKE u \in owed'
  <2>1. CASE u = s
    BY <1>2, <2>1
  <2>2. CASE u # s
    <3>1. u \in Sessions /\ (Tracked(u) \/ u \in excused)
      BY <1>1, <1>2, <2>2 DEF Untainted
    <3>2. rows'[u] = rows[u]
      BY <1>1, <1>2, <2>2, <3>1
    <3>3. Ahead(u)' <=> Ahead(u)
      BY <1>2, <3>2 DEF Ahead
    <3>4. IsQueued(u)' <=> IsQueued(u)
      BY <1>2 DEF IsQueued
    <3>5. InBatch(u)' <=> InBatch(u)
      BY <1>3 DEF InBatch
    <3>6. Tracked(u) => Tracked(u)'
      BY <1>3, <1>4, <2>2, <3>3, <3>4, <3>5 DEF Tracked
    <3> QED  BY <1>2, <2>2, <3>1, <3>6
  <2> QED  BY <2>1, <2>2
<1> QED  BY <1>5, <1>6, <1>7 DEF Untainted

(***************************************************************************)
(* The first query of a pass queues every row that there is, and the       *)
(* cursor may jump over all of them.                                       *)
(***************************************************************************)
LEMMA ListAllUntainted ==
  ASSUME Shape, Untainted, ListAllEnds("own")
  PROVE  Untainted'
<1>1. /\ PassesGood(pass) /\ "own" \in Passes /\ QueuesGood(queue)
      /\ owed \subseteq Known /\ Known \subseteq Sessions /\ 0 \notin Sessions
  BY ShapeFacts, Constants DEF Passes
<1>2. /\ pass["own"].phase = "listAll" /\ rows' = rows /\ owed' = owed
      /\ pending' = pending /\ excused' = excused \ Known
  BY DEF ListAllEnds, source
<1>3. pending.session = 0
  BY <1>2 DEF Untainted, QueriesWithoutChunks
<1>4. /\ pass'["own"].phase \in {"none", "listNew"}
      /\ pass'["own"].phase = "listNew" => /\ pass'["own"].from = top'
                                           /\ pass'["own"].seen = topIds'
  <2>1. CASE Known = {} /\ top = 0
    <3>1. pass' = [pass EXCEPT !["own"] = NoPass]
      BY <2>1 DEF ListAllEnds
    <3>2. NoPass.phase = "none"
      BY DEF NoPass
    <3> QED  BY <1>1, <3>1, <3>2 DEF PassesGood
  <2>2. CASE ~(Known = {} /\ top = 0)
    <3> DEFINE p == [NoPass EXCEPT !.phase = "listNew", !.from = top', !.seen = topIds']
    <3>1. pass' = [pass EXCEPT !["own"] = p]
      BY <2>2 DEF ListAllEnds
    <3>2. p.phase = "listNew" /\ p.from = top' /\ p.seen = topIds'
      BY DEF NoPass
    <3> HIDE DEF p
    <3> QED  BY <1>1, <3>1, <3>2 DEF PassesGood
  <2> QED  BY <2>1, <2>2
<1>5. QueriesWithoutChunks' /\ QueriesFromCursor' /\ SelectedIsQueued' /\ ChunksFollow'
  BY <1>2, <1>3, <1>4
     DEF Untainted, QueriesWithoutChunks, QueriesFromCursor, SelectedIsQueued, ChunksFollow
<1>6. \A s \in owed' : Tracked(s)' \/ s \in excused'
  <2> TAKE s \in owed'
  <2>1. s \in Known /\ s \in Sessions /\ s # 0
    BY <1>1, <1>2
  <2>2. PICK added \in Listed(Known \ Ids(queue["backfill"])) :
          queue' = [queue EXCEPT !["backfill"] = queue["backfill"] \o added]
    BY <2>1 DEF ListAllEnds
  <2>3. added \in Seq(Sessions) /\ Ids(added) = Known \ Ids(queue["backfill"])
    <3>1. Known \ Ids(queue["backfill"]) \in SUBSET Sessions
      BY <1>1
    <3> QED  BY <3>1, ListedIs DEF Shape
  <2>4. "backfill" \in Modes /\ queue["backfill"] \in Seq(Sessions)
        /\ queue \in [Modes -> Seq(Sessions)]
    BY <1>1 DEF QueuesGood, Modes
  <2> DEFINE c == queue["backfill"] \o added
  <2>5. s \in Ids(c)
    BY <2>1, <2>3, <2>4, AppendedIs
  <2>6. queue' = [queue EXCEPT !["backfill"] = c]
    BY <2>2
  <2> HIDE DEF c
  <2>7. IsQueued(s)'
    BY <2>4, <2>5, <2>6 DEF IsQueued
  <2>8. ~InBatch(s)'
    BY <1>4 DEF InBatch
  <2> QED  BY <1>2, <1>3, <2>1, <2>7, <2>8 DEF Tracked
<1> QED  BY <1>5, <1>6 DEF Untainted

(***************************************************************************)
(* The query for updates queues what is ahead of the cursor before the     *)
(* cursor moves.                                                           *)
(***************************************************************************)
LEMMA ListNewUntainted ==
  ASSUME Shape, Untainted, ListNewEnds("own")
  PROVE  Untainted'
<1>1. /\ PassesGood(pass) /\ "own" \in Passes /\ QueuesGood(queue)
      /\ owed \subseteq Known /\ Known \subseteq Sessions /\ 0 \notin Sessions
      /\ rows \in [Sessions -> 0..MaxClock] /\ top \in Nat
  BY ShapeFacts, Constants DEF Passes
<1>2. /\ pass["own"].phase = "listNew" /\ rows' = rows /\ owed' = owed
      /\ pending' = pending /\ excused' = excused \ New("own")
  BY DEF ListNewEnds, source, New, Updated
<1>3. /\ pending.session = 0 /\ pass["own"].from = top /\ pass["own"].seen = topIds
  BY <1>2 DEF Untainted, QueriesWithoutChunks, QueriesFromCursor
<1>4. /\ queue'["backfill"] = queue["backfill"]
      /\ Ids(queue'["incremental"]) = Ids(queue["incremental"]) \cup New("own")
  BY <1>1, ListNewQueues
<1>5. \/ pass'["own"] = NoPass
      \/ /\ pass'["own"].phase = "load"
         /\ Ids(pass'["own"].ids) \subseteq Ids(queue'[pass'["own"].mode])
         /\ pass'["own"].fresh = Ids(pass'["own"].ids)
  <2>1. CASE pass' = [pass EXCEPT !["own"] = NoPass]
    BY <1>1, <2>1 DEF PassesGood
  <2>2. ASSUME NEW mode \in Modes, NEW ids \in Seq(Sessions),
               Ids(ids) \subseteq Ids(queue'[mode]), Select("own", mode, ids)
        PROVE  /\ pass'["own"].phase = "load"
               /\ Ids(pass'["own"].ids) \subseteq Ids(queue'[pass'["own"].mode])
               /\ pass'["own"].fresh = Ids(pass'["own"].ids)
    <3> DEFINE p == [NoPass EXCEPT !.phase = "load", !.mode = mode, !.ids = ids,
                                   !.fresh = Ids(ids)]
    <3>1. pass' = [pass EXCEPT !["own"] = p]
      BY <2>2 DEF Select
    <3>2. p.phase = "load" /\ p.mode = mode /\ p.ids = ids /\ p.fresh = Ids(ids)
      BY DEF NoPass
    <3> HIDE DEF p
    <3>3. pass'["own"] = p
      BY <1>1, <3>1 DEF PassesGood
    <3> QED  BY <2>2, <3>2, <3>3
  <2> QED  BY <1>1, <2>1, <2>2, ListNewSelects
<1>6. NoPass.phase = "none"
  BY DEF NoPass
<1>7. pass'["own"].phase \in {"none", "load"}
  BY <1>5, <1>6
<1>8. QueriesWithoutChunks' /\ QueriesFromCursor' /\ ChunksFollow'
  BY <1>2, <1>3, <1>7 DEF Untainted, QueriesWithoutChunks, QueriesFromCursor, ChunksFollow
<1>9. SelectedIsQueued'
  BY <1>5, <1>6 DEF SelectedIsQueued
<1>10. \A s \in owed' : Tracked(s)' \/ s \in excused'
  <2> TAKE s \in owed'
  <2>1. s \in Known /\ s \in Sessions /\ s # 0 /\ (Tracked(s) \/ s \in excused)
    BY <1>1, <1>2 DEF Untainted
  <2>2. ~InBatch(s)
    BY <1>2 DEF InBatch
  <2>3. \A m \in Modes : Ids(queue[m]) \subseteq Ids(queue'[m])
    BY <1>4 DEF Modes
  <2>4. IsQueued(s) => IsQueued(s)'
    BY <2>3 DEF IsQueued
  <2>5. s \in New("own") => IsQueued(s)'
    BY <1>4 DEF IsQueued, Modes
  <2>6. Ahead(s) => s \in New("own")
    <3>1. rows[s] \in Nat /\ rows[s] > 0
      <4>1. rows[s] \in 0..MaxClock /\ rows[s] > 0
        BY <1>1, <2>1 DEF Known
      <4> QED  BY <4>1, Constants
    <3> QED  BY <1>1, <1>3, <2>1, <3>1 DEF Ahead, New, Updated
  <2>7. IsQueued(s)' => Tracked(s)'
    <3>1. CASE InBatch(s)'
      BY <1>5, <1>6, <3>1 DEF InBatch, Tracked
    <3>2. CASE ~InBatch(s)'
      BY <1>2, <1>3, <2>1, <3>2 DEF Tracked
    <3> QED  BY <3>1, <3>2
  <2>8. CASE s \in New("own") \/ IsQueued(s)
    BY <2>4, <2>5, <2>7, <2>8
  <2>9. CASE s \notin New("own") /\ ~IsQueued(s)
    <3>1. s \in excused
      BY <1>3, <2>1, <2>2, <2>6, <2>9 DEF Tracked
    <3> QED  BY <1>2, <2>9, <3>1
  <2> QED  BY <2>8, <2>9
<1> QED  BY <1>8, <1>9, <1>10 DEF Untainted

(***************************************************************************)
(* What does not fit is still queued, and the chunks that wait are of the  *)
(* content that the batch begins with.                                     *)
(***************************************************************************)
LEMMA LoadUntainted ==
  ASSUME Shape, Untainted, LoadEnds("own")
  PROVE  Untainted'
<1>1. /\ PassesGood(pass) /\ "own" \in Passes /\ owed \subseteq Sessions
      /\ 0 \notin Sessions
  BY ShapeFacts, Constants DEF Passes
<1>2. /\ pass["own"].phase = "load" /\ rows' = rows /\ owed' = owed /\ excused' = excused
      /\ top' = top /\ topIds' = topIds /\ queue' = queue
  BY DEF LoadEnds, source, cursor
<1>3. PICK ids \in Seq(Sessions), left \in 0..(MaxChunks - 1) :
        /\ Ids(ids) \subseteq Ids(pass["own"].ids) /\ ids[1] \in Ids(ids)
        /\ ids[1] \in Sessions
        /\ pass' = [pass EXCEPT !["own"] =
             [pass["own"] EXCEPT !.phase = "handing", !.ids = ids, !.fresh = @ \cap Ids(ids),
                                 !.part = IF left > 0 THEN {ids[1]} ELSE {}]]
        /\ pending' = IF left = 0 THEN pending
                      ELSE [session |-> ids[1], mode |-> pass["own"].mode, left |-> left,
                            fresh |-> ids[1] \in pass["own"].fresh]
  BY <1>1, LoadEffect
<1> DEFINE part == IF left > 0 THEN {ids[1]} ELSE {}
           p == [pass["own"] EXCEPT !.phase = "handing", !.ids = ids,
                                    !.fresh = @ \cap Ids(ids), !.part = part]
<1>4. /\ p.phase = "handing" /\ p.ids = ids /\ p.fresh = pass["own"].fresh \cap Ids(ids)
      /\ p.part = part
  <2>1. pass["own"] \in PassType
    BY <1>1 DEF PassesGood
  <2> HIDE DEF part
  <2> QED  BY <2>1 DEF PassType
<1>5. pass'["own"] = p
  <2>1. pass' = [pass EXCEPT !["own"] = p]
    BY <1>3
  <2> HIDE DEF p
  <2> QED  BY <1>1, <2>1 DEF PassesGood
<1> HIDE DEF p
<1>6. /\ pending.left = 0 => pending.session = 0
      /\ pending.session = 0
      /\ Ids(pass["own"].ids) \subseteq Ids(queue[pass["own"].mode])
      /\ pass["own"].mode \in Modes
  BY <1>1, <1>2 DEF Untainted, QueriesWithoutChunks, SelectedIsQueued, PassesGood, PassType
<1>7. CASE left = 0
  <2>1. part = {} /\ pending' = pending
    BY <1>3, <1>7
  <2> HIDE DEF part
  <2>2. QueriesWithoutChunks' /\ QueriesFromCursor' /\ SelectedIsQueued' /\ ChunksFollow'
    BY <1>4, <1>5, <1>6, <2>1
       DEF QueriesWithoutChunks, QueriesFromCursor, SelectedIsQueued, ChunksFollow
  <2>3. \A s \in owed' : Tracked(s)' \/ s \in excused'
    <3> TAKE s \in owed'
    <3>1. s \in Sessions /\ s # 0 /\ (Tracked(s) \/ s \in excused)
      BY <1>1, <1>2 DEF Untainted
    <3>2. (Ahead(s)' <=> Ahead(s)) /\ (IsQueued(s)' <=> IsQueued(s))
      BY <1>2 DEF Ahead, IsQueued
    <3>3. InBatch(s)' <=> s \in Ids(ids)
      BY <1>4, <1>5 DEF InBatch
    <3>4. InBatch(s) <=> s \in Ids(pass["own"].ids)
      BY <1>2 DEF InBatch
    <3>5. InBatch(s) => IsQueued(s)
      BY <1>6, <3>4 DEF IsQueued
    <3>6. Tracked(s) => Tracked(s)'
      BY <1>3, <1>4, <1>5, <1>6, <2>1, <3>1, <3>2, <3>3, <3>4, <3>5 DEF Tracked
    <3> QED  BY <1>2, <3>1, <3>6
  <2> QED  BY <2>2, <2>3 DEF Untainted
<1>8. CASE left # 0
  <2>1. part = {ids[1]}
    BY <1>8
  <2> DEFINE same == ids[1] \in pass["own"].fresh
  <2>2. pending' = [session |-> ids[1], mode |-> pass["own"].mode, left |-> left,
                    fresh |-> same]
    BY <1>3, <1>8
  <2> HIDE DEF same
  <2>3. pending'.session = ids[1] /\ pending'.left = left /\ pending'.fresh = same
    BY <2>2
  <2> HIDE DEF part
  <2>4. ids[1] \in p.fresh => pending'.fresh
    BY <1>3, <1>4, <2>3 DEF same
  <2>5. QueriesWithoutChunks' /\ QueriesFromCursor' /\ SelectedIsQueued'
    BY <1>4, <1>5, <1>8, <2>3
       DEF QueriesWithoutChunks, QueriesFromCursor, SelectedIsQueued
  <2>6. ChunksFollow'
    BY <1>4, <1>5, <2>1, <2>3, <2>4 DEF ChunksFollow
  <2>7. \A s \in owed' : Tracked(s)' \/ s \in excused'
    <3> TAKE s \in owed'
    <3>1. s \in Sessions /\ s # 0 /\ (Tracked(s) \/ s \in excused)
      BY <1>1, <1>2 DEF Untainted
    <3>2. (Ahead(s)' <=> Ahead(s)) /\ (IsQueued(s)' <=> IsQueued(s))
      BY <1>2 DEF Ahead, IsQueued
    <3>3. InBatch(s)' <=> s \in Ids(ids)
      BY <1>4, <1>5 DEF InBatch
    <3>4. InBatch(s) <=> s \in Ids(pass["own"].ids)
      BY <1>2 DEF InBatch
    <3>5. InBatch(s) => IsQueued(s)
      BY <1>6, <3>4 DEF IsQueued
    <3>6. CASE s \in Ids(ids)
      BY <1>2, <1>3, <1>4, <1>5, <3>1, <3>2, <3>3, <3>4, <3>6 DEF Tracked
    <3>7. CASE s \notin Ids(ids)
      <4>1. pending'.session # s
        BY <1>3, <2>3, <3>7
      <4> QED  BY <1>2, <1>6, <3>1, <3>2, <3>3, <3>4, <3>5, <3>7, <4>1 DEF Tracked
    <3> QED  BY <3>6, <3>7
  <2> QED  BY <2>5, <2>6, <2>7 DEF Untainted
<1> QED  BY <1>7, <1>8

\* A query that throws leaves the sessions it selected in their queue.
LEMMA ThrowsUntainted ==
  ASSUME Shape, Untainted, PassThrows("own")
  PROVE  Untainted'
<1>1. /\ PassesGood(pass) /\ "own" \in Passes /\ owed \subseteq Sessions
      /\ 0 \notin Sessions
  BY ShapeFacts, Constants DEF Passes
<1>2. /\ pass["own"].phase \in {"listAll", "listNew", "load"}
      /\ pass' = [pass EXCEPT !["own"] = NoPass]
      /\ rows' = rows /\ owed' = owed /\ excused' = excused
      /\ top' = top /\ topIds' = topIds /\ queue' = queue /\ pending' = pending
  BY DEF PassThrows, source, cursor, forgone
<1>3. pass'["own"] = NoPass /\ NoPass.phase = "none"
  BY <1>1, <1>2 DEF PassesGood, NoPass
<1>4. pending.session = 0
  BY <1>2 DEF Untainted, QueriesWithoutChunks
<1>5. QueriesWithoutChunks' /\ QueriesFromCursor' /\ SelectedIsQueued' /\ ChunksFollow'
  BY <1>2, <1>3, <1>4
     DEF QueriesWithoutChunks, QueriesFromCursor, SelectedIsQueued, ChunksFollow
<1>6. \A s \in owed' : Tracked(s)' \/ s \in excused'
  <2> TAKE s \in owed'
  <2>1. s \in Sessions /\ s # 0 /\ (Tracked(s) \/ s \in excused)
    BY <1>1, <1>2 DEF Untainted
  <2>2. (Ahead(s)' <=> Ahead(s)) /\ (IsQueued(s)' <=> IsQueued(s)) /\ ~InBatch(s)'
    BY <1>2, <1>3 DEF Ahead, IsQueued, InBatch
  <2>3. InBatch(s) => IsQueued(s)
    <3>1. pass["own"].mode \in Modes
      BY <1>1 DEF PassesGood, PassType
    <3> QED  BY <1>2, <3>1 DEF Untainted, SelectedIsQueued, InBatch, IsQueued
  <2> QED  BY <1>2, <1>4, <2>1, <2>2, <2>3 DEF Tracked
<1> QED  BY <1>5, <1>6 DEF Untainted

(***************************************************************************)
(* A batch that failed: its sessions are queued still, or excused.         *)
(***************************************************************************)
LEMMA FailedUntainted ==
  ASSUME Shape, Untainted, NEW R, R \subseteq Ids(Batch.ids), Failed(R),
         Batch.phase \in {"handing", "sent"},
         pass' = [pass EXCEPT !["own"] = NoPass], UNCHANGED <<rows, cursor>>
  PROVE  Untainted'
<1>1. /\ PassesGood(pass) /\ "own" \in Passes /\ owed \subseteq Sessions
      /\ 0 \notin Sessions /\ Batch = pass["own"]
  BY ShapeFacts, Constants DEF Passes, Batch
<1>2. /\ pending' = IF pending.session \in Ids(Batch.ids) THEN NoChunks ELSE pending
      /\ queue' \in Dequeued(Batch.mode, R)
      /\ excused' = excused \cup {s \in Batch.fresh : ~IsQueued(s)'}
      /\ owed' = owed /\ top' = top /\ topIds' = topIds
  BY DEF Failed, cursor
<1>3. pass'["own"] = NoPass /\ NoPass.phase = "none"
  BY <1>1 DEF PassesGood, NoPass
<1>4. NoChunks.session = 0 /\ NoChunks.left = 0
  BY DEF NoChunks
<1>5. QueriesWithoutChunks' /\ QueriesFromCursor' /\ SelectedIsQueued' /\ ChunksFollow'
  BY <1>2, <1>3, <1>4
     DEF Untainted, QueriesWithoutChunks, QueriesFromCursor, SelectedIsQueued, ChunksFollow
<1>6. \A s \in owed' : Tracked(s)' \/ s \in excused'
  <2> TAKE s \in owed'
  <2>1. s \in Sessions /\ s # 0 /\ (Tracked(s) \/ s \in excused)
    BY <1>1, <1>2 DEF Untainted
  <2>2. (Ahead(s)' <=> Ahead(s)) /\ ~InBatch(s)'
    BY <1>2, <1>3 DEF Ahead, InBatch
  <2>3. InBatch(s) <=> s \in Ids(Batch.ids)
    BY <1>1 DEF InBatch
  <2>4. IsQueued(s) /\ s \notin R => IsQueued(s)'
    BY <1>2, <2>1, DequeuedGood
  <2>5. CASE s \in Ids(Batch.ids)
    <3>1. pending'.session # s
      BY <1>2, <1>4, <2>1, <2>5
    <3> QED  BY <1>1, <1>2, <2>1, <2>2, <2>3, <2>5, <3>1 DEF Tracked
  <2>6. CASE s \notin Ids(Batch.ids)
    <3>1. CASE pending.session = s
      BY <1>2, <2>1, <2>2, <2>3, <2>6, <3>1 DEF Tracked
    <3>2. CASE pending.session # s
      BY <1>2, <1>4, <2>1, <2>2, <2>3, <2>4, <2>6, <3>2 DEF Tracked
    <3> QED  BY <3>1, <3>2
  <2> QED  BY <2>5, <2>6
<1> QED  BY <1>5, <1>6 DEF Untainted

(***************************************************************************)
(* A batch that was accepted: the relay has what it completes, and of a    *)
(* session that goes on the chunks wait.                                   *)
(***************************************************************************)
LEMMA AcceptedUntainted ==
  ASSUME Shape, Untainted, Accepted, Batch.phase \in {"handing", "sent"},
         pass' = [pass EXCEPT !["own"] = NoPass], UNCHANGED <<rows, cursor>>
  PROVE  Untainted'
<1>1. /\ PassesGood(pass) /\ "own" \in Passes /\ owed \subseteq Sessions
      /\ 0 \notin Sessions /\ Batch = pass["own"]
  BY ShapeFacts, Constants DEF Passes, Batch
<1>2. PICK done \in {{}, Ids(Batch.ids)} :
        /\ queue' \in Dequeued(Batch.mode, done)
        /\ owed' = owed \ (Batch.fresh \ Batch.part)
        /\ excused' = excused /\ pending' = pending /\ top' = top /\ topIds' = topIds
  BY DEF Accepted, cursor
<1>3. pass'["own"] = NoPass /\ NoPass.phase = "none"
  BY <1>1 DEF PassesGood, NoPass
<1>4. QueriesWithoutChunks' /\ QueriesFromCursor' /\ SelectedIsQueued' /\ ChunksFollow'
  BY <1>2, <1>3
     DEF Untainted, QueriesWithoutChunks, QueriesFromCursor, SelectedIsQueued, ChunksFollow
<1>5. \A s \in owed' : Tracked(s)' \/ s \in excused'
  <2> TAKE s \in owed'
  <2>1. /\ s \in Sessions /\ s # 0 /\ (Tracked(s) \/ s \in excused)
        /\ s \in Batch.fresh => s \in Batch.part
    BY <1>1, <1>2 DEF Untainted
  <2>2. (Ahead(s)' <=> Ahead(s)) /\ ~InBatch(s)'
    BY <1>2, <1>3 DEF Ahead, InBatch
  <2>3. InBatch(s) <=> s \in Ids(Batch.ids)
    BY <1>1 DEF InBatch
  <2>4. IsQueued(s) /\ s \notin done => IsQueued(s)'
    BY <1>2, <2>1, DequeuedGood
  <2>5. s \in Batch.fresh => pending.session = s /\ pending.fresh
    BY <1>1, <2>1 DEF Untainted, ChunksFollow
  <2>6. CASE s \in Ids(Batch.ids)
    BY <1>1, <1>2, <2>1, <2>2, <2>3, <2>5, <2>6 DEF Tracked
  <2>7. CASE s \notin Ids(Batch.ids)
    BY <1>2, <2>1, <2>2, <2>3, <2>4, <2>7 DEF Tracked
  <2> QED  BY <2>6, <2>7
<1> QED  BY <1>4, <1>5 DEF Untainted

\* Every verdict leaves what was not delivered in a queue, in the chunks or
\* excused.
LEMMA HandledUntainted ==
  ASSUME Shape, Untainted, NEW verdict \in Verdicts, Handled(verdict),
         Batch.phase \in {"handing", "sent"}
  PROVE  Untainted'
<1>1. pass' = [pass EXCEPT !["own"] = NoPass] /\ UNCHANGED <<rows, cursor>>
  BY DEF Handled
<1>2. CASE Accepted
  BY <1>1, <1>2, AcceptedUntainted
<1>3. CASE ValidationFailed
  BY <1>1, <1>3, FailedUntainted DEF ValidationFailed
<1>4. CASE FeatureDisabled
  BY <1>1, <1>4, FailedUntainted DEF FeatureDisabled
<1>5. CASE AckTimeout
  BY <1>1, <1>5, FailedUntainted DEF AckTimeout, Exhausted
<1>6. CASE RateLimited
  <2> DEFINE dead == IF relayReady THEN Exhausted(limited, MaxRateLimited) ELSE {}
  <2>1. Failed(dead) /\ dead \subseteq Ids(Batch.ids)
    BY <1>6 DEF RateLimited, Exhausted
  <2> HIDE DEF dead
  <2> QED  BY <1>1, <2>1, FailedUntainted
<1> QED  BY <1>2, <1>3, <1>4, <1>5, <1>6 DEF Handled

\* After a stop everything is ahead of the cursor.
LEMMA StopUntainted ==
  ASSUME Shape, Stop
  PROVE  Untainted'
<1>1. /\ top' = 0 /\ pending' = NoChunks /\ pass' = [own |-> NoPass, old |-> pass["own"]]
  BY DEF Stop
<1>2. pass'["own"] = NoPass /\ NoPass.phase = "none"
      /\ NoChunks.left = 0 /\ NoChunks.session = 0
  BY <1>1 DEF NoPass, NoChunks
<1>3. \A s \in owed' : Tracked(s)'
  BY <1>1 DEF Tracked, Ahead
<1> QED  BY <1>1, <1>2, <1>3
         DEF Untainted, QueriesWithoutChunks, QueriesFromCursor, SelectedIsQueued, ChunksFollow

\* start, refresh, the relay's state and time.
LEMMA ControlUntainted ==
  ASSUME Shape, Untainted,
         \/ Tick \/ Start \/ RelayReady \/ RelayLost \/ Refresh \/ ThrottleEnds
         \/ \E s \in Sessions : RetryIsDue(s)
         \/ UNCHANGED vars
  PROVE  Untainted'
<1>1. UNCHANGED <<rows, top, topIds, queue, owed, excused>>
  BY DEF Tick, Start, RelayReady, RelayLost, Refresh, ThrottleEnds, RetryIsDue, vars,
         source, forgone, cursor
<1>2. Begin \/ UNCHANGED <<pending, pass>>
  BY DEF Tick, Start, RelayReady, RelayLost, Refresh, ThrottleEnds, RetryIsDue, vars,
         Resume, Pause, Dormant
<1>3. CASE Begin
  BY <1>1, <1>3, BeginUntainted
<1>4. CASE UNCHANGED <<pending, pass>>
  BY <1>1, <1>4, QuietUntainted
<1> QED  BY <1>2, <1>3, <1>4

\* A pass of before the last stop that does not taint the state.
LEMMA OldUntainted ==
  ASSUME Shape, Untainted, ~tainted',
         \/ ListAllEnds("old") \/ ListNewEnds("old") \/ LoadEnds("old")
         \/ PassThrows("old") \/ HandsOver("old") \/ RefusesOld
         \/ \E verdict \in Verdicts : AnswerOld(verdict)
  PROVE  Untainted'
<1>1. PassesGood(pass) /\ "own" \in Passes /\ "old" \in Passes
  BY ShapeFacts DEF Passes
<1>2. ~ListAllEnds("old") /\ ~ListNewEnds("old")
  BY DEF ListAllEnds, ListNewEnds
<1>3. CASE LoadEnds("old")
  <2>1. UNCHANGED <<rows, top, topIds, queue, owed, excused>>
    BY <1>3 DEF LoadEnds, source, cursor
  <2>2. pending' = pending /\ pass'["own"] = pass["own"]
    <3>1. PICK ids \in Seq(Sessions), left \in 0..(MaxChunks - 1) :
          \E p :
            /\ pass' = [pass EXCEPT !["old"] = p]
            /\ pending' = IF left = 0 THEN pending
                          ELSE [session |-> ids[1], mode |-> pass["old"].mode, left |-> left,
                                fresh |-> ids[1] \in pass["old"].fresh]
            /\ tainted' = (tainted \/ ("old" = "old" /\ left > 0))
      BY <1>1, <1>3, LoadEffect
    <3>2. left = 0
      <4>1. ~(left > 0)
        BY <3>1
      <4>2. left \in Nat
        BY Constants
      <4> QED  BY <4>1, <4>2
    <3> QED  BY <1>1, <3>1, <3>2 DEF PassesGood
  <2> QED  BY <2>1, <2>2, QuietUntainted
<1>4. CASE PassThrows("old") \/ HandsOver("old") \/ RefusesOld
  <2>1. UNCHANGED <<rows, top, topIds, queue, owed, excused, pending>>
    BY <1>4 DEF PassThrows, HandsOver, RefusesOld, source, forgone, cursor
  <2>2. pass'["own"] = pass["own"]
    BY <1>1, <1>4 DEF PassThrows, HandsOver, RefusesOld, PassesGood
  <2> QED  BY <2>1, <2>2, QuietUntainted
<1>5. ASSUME NEW verdict \in Verdicts, AnswerOld(verdict) PROVE Untainted'
  <2>1. /\ UNCHANGED <<rows, top, topIds, queue, excused, pending>> /\ owed' \subseteq owed
    BY <1>5 DEF AnswerOld, forgone, cursor
  <2>2. pass'["own"] = pass["own"]
    BY <1>1, <1>5 DEF AnswerOld, PassesGood
  <2> QED  BY <2>1, <2>2, QuietUntainted
<1> QED  BY <1>2, <1>3, <1>4, <1>5

\* A batch that is handed over is the batch that was loaded.
LEMMA HandsOverUntainted ==
  ASSUME Shape, Untainted, HandsOver("own")
  PROVE  Untainted'
<1>1. PassesGood(pass) /\ "own" \in Passes /\ owed \subseteq Sessions
  BY ShapeFacts DEF Passes
<1>2. /\ pass["own"].phase = "handing"
      /\ UNCHANGED <<rows, top, topIds, queue, owed, excused, pending>>
      /\ pass' = [pass EXCEPT !["own"].phase = "sent"]
  BY DEF HandsOver, source, forgone, cursor
<1>3. /\ pass'["own"].phase = "sent" /\ pass'["own"].ids = pass["own"].ids
      /\ pass'["own"].fresh = pass["own"].fresh /\ pass'["own"].part = pass["own"].part
  <2>1. pass["own"] \in PassType /\ pass \in [Passes -> PassType]
    BY <1>1 DEF PassesGood
  <2>2. pass'["own"] = [pass["own"] EXCEPT !.phase = "sent"]
    BY <1>1, <1>2, <2>1
  <2> QED  BY <2>1, <2>2 DEF PassType
<1>4. QueriesWithoutChunks' /\ QueriesFromCursor' /\ SelectedIsQueued' /\ ChunksFollow'
  BY <1>2, <1>3
     DEF Untainted, QueriesWithoutChunks, QueriesFromCursor, SelectedIsQueued, ChunksFollow
<1>5. \A s \in owed' : Tracked(s)' \/ s \in excused'
  <2> TAKE s \in owed'
  <2>1. s \in Sessions /\ (Tracked(s) \/ s \in excused)
    BY <1>1, <1>2 DEF Untainted
  <2>2. (Ahead(s)' <=> Ahead(s)) /\ (IsQueued(s)' <=> IsQueued(s)) /\ (InBatch(s)' <=> InBatch(s))
    BY <1>2, <1>3 DEF Ahead, IsQueued, InBatch
  <2> QED  BY <1>2, <1>3, <2>1, <2>2 DEF Tracked
<1> QED  BY <1>4, <1>5 DEF Untainted

\* Only a stop takes back that the state is tainted.
LEMMA TaintStays ==
  ASSUME Shape, [Next]_vars, ~tainted', ~Stop
  PROVE  ~tainted
<1>1. ASSUME NEW w \in Passes, LoadEnds(w) PROVE ~tainted
  BY <1>1 DEF LoadEnds
<1> QED  BY <1>1 DEF Next, HandOver, Write, Import, Changed, RetryIsDue, Tick, ListAllEnds,
            ListNewEnds, PassThrows, HandsOver, Refuses, RefusesOld, Answer, AnswerOld,
            Handled, Start, RelayReady, RelayLost, Refresh, ThrottleEnds, forgone, vars

\* Until a pass of before a stop has written, every step keeps track of what
\* is owed.
LEMMA UntaintedStep ==
  ASSUME Shape, ~tainted => Untainted, [Next]_vars, ~tainted'
  PROVE  Untainted'
<1>1. CASE Stop
  BY <1>1, StopUntainted
<1>2. CASE ~Stop
  <2>1. Untainted
    BY <1>2, TaintStays
  <2>2. ASSUME NEW s \in Sessions, Write(s) PROVE Untainted'
    BY <2>1, <2>2, ChangedUntainted DEF Write
  <2>3. ASSUME NEW s \in Sessions, Import(s) PROVE Untainted'
    <3>1. PICK t \in 1..clock : Changed(s, t)
      BY <2>3 DEF Import
    <3>2. t \in 1..MaxClock
      BY ShapeFacts, Constants
    <3> QED  BY <2>1, <3>1, <3>2, ChangedUntainted
  <2>4. ASSUME NEW w \in Passes,
               ListAllEnds(w) \/ ListNewEnds(w) \/ LoadEnds(w) \/ PassThrows(w) \/ HandsOver(w)
        PROVE  Untainted'
    <3>1. CASE w = "own"
      BY <2>1, <2>4, <3>1, ListAllUntainted, ListNewUntainted, LoadUntainted,
         ThrowsUntainted, HandsOverUntainted
    <3>2. CASE w = "old"
      BY <2>1, <2>4, <3>2, OldUntainted
    <3> QED  BY <3>1, <3>2 DEF Passes
  <2>5. ASSUME NEW verdict \in Verdicts, Answer(verdict) PROVE Untainted'
    BY <2>1, <2>5, HandledUntainted DEF Answer
  <2>6. CASE Refuses
    BY <2>1, <2>6, HandledUntainted DEF Refuses, Verdicts
  <2>7. CASE RefusesOld \/ \E verdict \in Verdicts : AnswerOld(verdict)
    BY <2>1, <2>7, OldUntainted
  <2> QED  BY <1>2, <2>1, <2>2, <2>3, <2>4, <2>5, <2>6, <2>7, ControlUntainted
           DEF Next, HandOver
<1> QED  BY <1>1, <1>2

LEMMA UntaintedInit == ASSUME Init PROVE Untainted
BY DEF Init, Untainted, QueriesWithoutChunks, QueriesFromCursor, SelectedIsQueued,
       ChunksFollow, NoPass, NoChunks, Passes

(***************************************************************************)
(* The inductive invariant of the sync.                                    *)
(***************************************************************************)
THEOREM SyncInvariant == Spec => []SyncInv
<1>1. SyncInv <=> Shape /\ (~tainted => Untainted)
  BY DEF SyncInv, Shape
<1>2. Init => SyncInv
  BY <1>1, InitShape, UntaintedInit
<1>3. SyncInv /\ [Next]_vars => SyncInv'
  <2> SUFFICES ASSUME Shape, ~tainted => Untainted, [Next]_vars PROVE SyncInv'
    BY <1>1
  <2>1. Shape'
    BY ShapeStep
  <2>2. ~tainted' => Untainted'
    BY UntaintedStep
  <2> QED  BY <2>1, <2>2 DEF SyncInv, Shape
<1> QED  BY <1>2, <1>3, PTL DEF Spec

(***************************************************************************)
(* No change slips between the cursor and the queues, however a pass, a    *)
(* change of the database, an answer and a stop interleave: what the relay *)
(* lacks is tracked or excused, unless a pass of before the last stop has  *)
(* written since.                                                          *)
(***************************************************************************)
THEOREM NothingSlips == Spec => []NoChangeSlips
<1>1. SyncInv => NoChangeSlips
  BY DEF SyncInv, Untainted, NoChangeSlips
<1> QED  BY <1>1, SyncInvariant, PTL

=============================================================================
