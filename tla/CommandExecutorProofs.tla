----------------------- MODULE CommandExecutorProofs -----------------------
(***************************************************************************)
(* Proofs about the command executor, for any commands, envelopes, limits  *)
(* and stream lines.                                                       *)
(*   Without an assumption on the streams: type correctness, exclusion by  *)
(* lock key, no restart after dispose(), no stranded command, no event     *)
(* lost.                                                                   *)
(*   With the hypothesis StreamsEndInTime, which keeps a redelivered       *)
(* command from meeting the execution of its former incarnation: queue,    *)
(* tracking map, in-flight map and executions agree, the executions stay   *)
(* within the limit, the terminal event is the last, and the executor      *)
(* implements the service it promises (CommandService).                    *)
(***************************************************************************)
EXTENDS CommandExecutor, FiniteSetTheorems, WellFoundedInduction, TLAPS

-----------------------------------------------------------------------------
(* The lock key.                                                           *)

(***************************************************************************)
(* The chain of ?? ends at the first field of the body that holds a string,*)
(* so a scoped path is a path or blank, never a missing field.             *)
(***************************************************************************)
LEMMA ScopedPathType ==
  ASSUME NEW c \in Commands
  PROVE  ScopedPath(c) \in Paths \cup {Blank}
<1>1. CASE GivenFields(c) = {}
  BY <1>1 DEF ScopedPath
<1>2. CASE GivenFields(c) # {}
  <2>1. GivenFields(c) \subseteq {1, 2, 3, 4, 5}
    BY DEF GivenFields, ScopeField
  <2>2. \E i \in GivenFields(c) : \A j \in GivenFields(c) : i <= j
    <3>1. CASE 1 \in GivenFields(c)
      BY <2>1, <3>1
    <3>2. CASE 1 \notin GivenFields(c) /\ 2 \in GivenFields(c)
      BY <2>1, <3>2
    <3>3. CASE {1, 2} \cap GivenFields(c) = {} /\ 3 \in GivenFields(c)
      BY <2>1, <3>3
    <3>4. CASE {1, 2, 3} \cap GivenFields(c) = {} /\ 4 \in GivenFields(c)
      BY <2>1, <3>4
    <3>5. CASE {1, 2, 3, 4} \cap GivenFields(c) = {} /\ 5 \in GivenFields(c)
      BY <2>1, <3>5
    <3> QED  BY <1>2, <2>1, <3>1, <3>2, <3>3, <3>4, <3>5
  <2> DEFINE first == CHOOSE i \in GivenFields(c) : \A j \in GivenFields(c) : i <= j
  <2>3. first \in GivenFields(c)
    BY <2>2
  <2>4. ScopedPath(c) = Envelope[c].scope[first]
    BY <1>2 DEF ScopedPath
  <2> HIDE DEF first
  <2>5. first \in ScopeField /\ Envelope[c].scope[first] # Absent
    BY <2>3 DEF GivenFields
  <2>6. Envelope[c].scope \in [ScopeField -> Paths \cup {Absent, Blank}]
    BY EnvelopeAssumption DEF EnvelopeType
  <2> QED  BY <2>4, <2>5, <2>6
<1> QED  BY <1>1, <1>2

(***************************************************************************)
(* A command has a lock key or none.                                       *)
(***************************************************************************)
LEMMA DeriveLockKeyType ==
  ASSUME NEW c \in Commands
  PROVE  DeriveLockKey(c) \in LockKeys \cup {NoLock}
<1>1. Envelope[c].lockKey \in Names \cup {Absent, Blank} /\ Envelope[c].operationId \in Operations
  BY EnvelopeAssumption DEF EnvelopeType
<1>2. ScopedPath(c) \in Paths \cup {Blank}
  BY ScopedPathType
<1> QED  BY <1>1, <1>2 DEF DeriveLockKey, LockKeys

-----------------------------------------------------------------------------
(* Tracked commands.                                                       *)

(***************************************************************************)
(* Recording an event and concluding keep a tracked command one, and touch *)
(* neither its incarnation.                                                *)
(***************************************************************************)
LEMMA EmitType ==
  ASSUME NEW t \in TrackedType, NEW line \in LineType
  PROVE  Emit(t, line) \in TrackedType
<1> DEFINE e == [sequence |-> t.last + 1, type |-> line.type,
                 terminal |-> line.terminal, cancelled |-> line.cancelled]
<1>1. e \in Event
  BY DEF TrackedType, LineType, Event
<1>2. t.last + 1 \in Nat /\ t.events \cup {e} \in SUBSET Event
  BY <1>1 DEF TrackedType
<1> HIDE DEF e
<1>3. [t EXCEPT !.last = @ + 1, !.events = @ \cup {e}] \in TrackedType
  BY <1>2 DEF TrackedType
<1> QED  BY <1>3 DEF Emit, e

\* Concluding an entry keeps it one.
LEMMA MarkTerminalType ==
  ASSUME NEW t \in TrackedType, NEW outcome \in Outcomes
  PROVE  MarkTerminal(t, outcome) \in TrackedType
BY DEF MarkTerminal, TrackedType, States

\* Emitting the terminal event and concluding keeps an entry one.
LEMMA ConcludeType ==
  ASSUME NEW t \in TrackedType, NEW line \in LineType
  PROVE  Conclude(t, line) \in TrackedType
<1>1. ResolveTerminalState(line) \in Outcomes
  BY DEF ResolveTerminalState, Outcomes
<1> QED  BY <1>1, EmitType, MarkTerminalType DEF Conclude

\* The events the executor itself emits are stream lines.
LEMMA LineTypes ==
  {StatusRunning, Result, Done, DoneCancelled, ErrorTerminal} \subseteq LineType
BY DEF StatusRunning, Result, Done, DoneCancelled, ErrorTerminal, Line, LineType,
       EventTypes

\* An entry whose execution starts remains an entry.
LEMMA StartedType ==
  ASSUME NEW t \in TrackedType
  PROVE  Started(t) \in TrackedType
<1>1. [t EXCEPT !.state = "running"] \in TrackedType
  BY DEF TrackedType, States
<1> QED  BY <1>1, EmitType, LineTypes DEF Started

\* Entries of commands that are not tracked or just queued have their type.
LEMMA UntrackedType ==
  ASSUME NEW n \in Nat
  PROVE  Untracked(n) \in TrackedType /\ Queued(n) \in TrackedType
BY DEF Untracked, Queued, TrackedType, States, Outcomes

\* An execution that starts has its type.
LEMMA NewRunType ==
  ASSUME NEW c \in Commands, NEW n \in Nat
  PROVE  NewRun(c, n) \in RunType
<1>1. Envelope[c].timed \in BOOLEAN
  BY EnvelopeAssumption DEF EnvelopeType
<1> QED  BY <1>1 DEF NewRun, RunType, Phases

-----------------------------------------------------------------------------
(* The scheduler.                                                          *)

(***************************************************************************)
(* What splicing the positions P out of the queue leaves is a queue.       *)
(***************************************************************************)
LEMMA WithoutType ==
  ASSUME NEW q \in Seq(Commands), NEW P, NEW rest \in Without(q, P)
  PROVE  rest \in Seq(Commands)
<1> DEFINE S == DOMAIN q \ P
<1>1. DOMAIN q = 1..Len(q) /\ Len(q) \in Nat
  OBVIOUS
<1>2. IsFiniteSet(1..Len(q))
  BY <1>1, FS_Interval
<1>3. Cardinality(S) \in Nat
  BY <1>1, <1>2, FS_Subset, FS_CardinalityType
<1>4. PICK f \in Enumerations(S) : rest = [i \in DOMAIN f |-> q[f[i]]]
  BY DEF Without
<1>5. PICK k \in 0..Cardinality(S) : f \in [1..k -> S]
  BY <1>4 DEF Enumerations
<1>6. k \in Nat /\ \A i \in 1..k : q[f[i]] \in Commands
  BY <1>1, <1>3, <1>5
<1>7. rest = [i \in 1..k |-> q[f[i]]]
  BY <1>4, <1>5
<1> HIDE DEF S
<1> QED  BY <1>6, <1>7

\* An empty queue has nothing to splice out.
LEMMA WithoutEmpty ==
  ASSUME NEW P, NEW rest \in Without(<<>>, P)
  PROVE  rest = <<>>
<1>1. DOMAIN <<>> \ P = {}
  OBVIOUS
<1>2. Cardinality(DOMAIN <<>> \ P) = 0
  BY <1>1, FS_EmptySet
<1>3. PICK f \in Enumerations(DOMAIN <<>> \ P) : rest = [i \in DOMAIN f |-> <<>>[f[i]]]
  BY DEF Without
<1>4. PICK k \in 0..0 : f \in [1..k -> DOMAIN <<>> \ P]
  BY <1>2, <1>3 DEF Enumerations
<1>5. DOMAIN f = {}
  BY <1>4
<1>6. rest = [i \in {} |-> <<>>[f[i]]]
  BY <1>3, <1>5
<1> QED  BY <1>6

\* Statistics of a typed queue and in-flight map are natural numbers.
LEMMA StatsHaveType ==
  ASSUME NEW q \in Seq(Commands), NEW flying
  PROVE  Stats(q, flying) \in StatsType
<1>1. IsFiniteSet(InFlightIds(flying)) /\ Cardinality(InFlightIds(flying)) \in Nat
  BY ExecutorAssumption, FS_Subset, FS_CardinalityType DEF InFlightIds
<1> QED  BY <1>1 DEF Stats, StatsType

(***************************************************************************)
(* schedule() called with well-typed values leaves well-typed values.      *)
(***************************************************************************)
LEMMA ScheduleType ==
  ASSUME NEW link, NEW q \in Seq(Commands), NEW trk \in [Commands -> TrackedType],
         NEW rs \in SUBSET RunType, NEW flying \in [Commands -> Nat],
         NEW owners \in [LockKeys -> Commands \cup {Nobody}],
         lastEmittedStats \in StatsType,
         Schedule(link, q, trk, rs, flying, owners)
  PROVE  /\ queue' \in Seq(Commands)
         /\ tracked' \in [Commands -> TrackedType]
         /\ inFlight' \in [Commands -> Nat]
         /\ lockOwners' \in [LockKeys -> Commands \cup {Nobody}]
         /\ runs' \subseteq RunType
         /\ lastEmittedStats' \in StatsType
<1>1. CASE ~link
  BY <1>1 DEF Schedule
<1>2. CASE link
  <2>1. PICK P \in SUBSET (DOMAIN q) :
          LET started == {q[i] : i \in P}
          IN  /\ queue' \in Without(q, P)
              /\ tracked' = [c \in Commands |->
                               IF c \in started THEN Started(trk[c]) ELSE trk[c]]
              /\ runs' = rs \cup {NewRun(c, trk[c].incarnation) : c \in started}
              /\ inFlight' = [c \in Commands |->
                               IF c \in started THEN trk[c].incarnation
                                                ELSE flying[c]]
              /\ lockOwners' = [k \in LockKeys |->
                                 IF \E c \in started : DeriveLockKey(c) = k
                                 THEN CHOOSE c \in started : DeriveLockKey(c) = k
                                 ELSE owners[k]]
              /\ lastEmittedStats' = Stats(queue', inFlight')
    BY <1>2 DEF Schedule
  <2> DEFINE started == {q[i] : i \in P}
  <2>2. started \subseteq Commands
    OBVIOUS
  <2>3. \A c \in Commands : trk[c].incarnation \in Nat
    BY DEF TrackedType
  <2>4. queue' \in Seq(Commands)
    BY <2>1, WithoutType
  <2>5. tracked' \in [Commands -> TrackedType]
    BY <2>1, StartedType
  <2>6. inFlight' \in [Commands -> Nat]
    BY <2>1, <2>3
  <2>7. lockOwners' \in [LockKeys -> Commands \cup {Nobody}]
    <3> SUFFICES ASSUME NEW k \in LockKeys, \E c \in started : DeriveLockKey(c) = k
                 PROVE  (CHOOSE c \in started : DeriveLockKey(c) = k) \in started
      BY <2>1, <2>2
    <3> QED  OBVIOUS
  <2>8. runs' \subseteq RunType
    BY <2>1, <2>2, <2>3, NewRunType
  <2>9. lastEmittedStats' \in StatsType
    BY <2>1, <2>4, StatsHaveType
  <2> QED  BY <2>4, <2>5, <2>6, <2>7, <2>8, <2>9
<1> QED  BY <1>1, <1>2

-----------------------------------------------------------------------------
(* Type correctness.                                                       *)

\* The finally of an execution keeps the types.
LEMMA FinishType ==
  ASSUME TypeOK, NEW r \in runs, NEW trk \in [Commands -> TrackedType],
         Finish(r, trk)
  PROVE  TypeOK'
<1> DEFINE flying == [inFlight EXCEPT ![r.command] = 0]
           owners == [k \in LockKeys |-> IF k = DeriveLockKey(r.command) THEN Nobody
                                         ELSE lockOwners[k]]
<1>1. flying \in [Commands -> Nat] /\ owners \in [LockKeys -> Commands \cup {Nobody}]
  BY DEF TypeOK
<1>2. runs \ {r} \in SUBSET RunType /\ queue \in Seq(Commands) /\ lastEmittedStats \in StatsType
  BY DEF TypeOK
<1>3. Schedule(connected, queue, trk, runs \ {r}, flying, owners)
  BY DEF Finish
<1>4. connected' \in BOOLEAN /\ disposed' \in BOOLEAN
  BY DEF Finish, TypeOK
<1> HIDE DEF flying, owners
<1> QED  BY <1>1, <1>2, <1>3, <1>4, ScheduleType DEF TypeOK

\* The catch block of an execution, with its finally, keeps the types.
LEMMA FailType ==
  ASSUME TypeOK, NEW r \in runs, Fail(r)
  PROVE  TypeOK'
<1> DEFINE c == r.command
           entry == IF disposed THEN MarkTerminal(tracked[c], "failed")
                                ELSE Conclude(tracked[c], FailureLine(r))
<1>1. c \in Commands /\ tracked[c] \in TrackedType
  BY DEF TypeOK, RunType
<1>2. FailureLine(r) \in LineType
  BY LineTypes DEF FailureLine
<1>3. entry \in TrackedType
  BY <1>1, <1>2, MarkTerminalType, ConcludeType DEF Outcomes
<1>4. [tracked EXCEPT ![c] = entry] \in [Commands -> TrackedType]
  BY <1>1, <1>3 DEF TypeOK
<1>5. Finish(r, [tracked EXCEPT ![c] = entry])
  BY DEF Fail
<1> HIDE DEF entry
<1> QED  BY <1>4, <1>5, FinishType

\* An execution that changes within its type keeps the types.
LEMMA SetRunType ==
  ASSUME TypeOK, NEW r \in runs, NEW changed \in RunType, SetRun(r, changed),
         tracked' \in [Commands -> TrackedType]
  PROVE  TypeOK'
BY DEF SetRun, TypeOK

\* The changes an execution undergoes keep it an execution.
LEMMA RunChangeType ==
  ASSUME NEW r \in RunType, NEW phase \in Phases, NEW terminal \in BOOLEAN
  PROVE  /\ [r EXCEPT !.phase = phase] \in RunType
         /\ [r EXCEPT !.emittedTerminal = terminal] \in RunType
         /\ [r EXCEPT !.timer = FALSE, !.timedOut = TRUE] \in RunType
         /\ [r EXCEPT !.cancelRequested = TRUE] \in RunType
         /\ [r EXCEPT !.timer = FALSE, !.shutdown = TRUE] \in RunType
BY DEF RunType

(***************************************************************************)
(* An await that settles, a line of a stream or the timer keeps the types. *)
(***************************************************************************)
LEMMA ExecutionType ==
  ASSUME TypeOK, NEW r \in runs,
         Settles(r) \/ TimeoutFires(r) \/ \E line \in Lines : StreamLine(r, line)
  PROVE  TypeOK'
<1> DEFINE c == r.command
<1>1. r \in RunType /\ c \in Commands /\ tracked[c] \in TrackedType
  BY DEF TypeOK, RunType
<1>2. ASSUME NEW entry \in TrackedType
      PROVE  [tracked EXCEPT ![c] = entry] \in [Commands -> TrackedType]
  BY <1>1 DEF TypeOK
<1>3. tracked \in [Commands -> TrackedType]
  BY DEF TypeOK
<1>4. CASE PrepareResolves(r)
  <2>1. CASE Aborted(r)
    BY <1>4, <2>1, FailType DEF PrepareResolves
  <2>2. CASE ~Aborted(r)
    <3>1. [r EXCEPT !.phase = "fetching"] \in RunType
      BY <1>1, RunChangeType DEF Phases
    <3> QED  BY <1>3, <1>4, <2>2, <3>1, SetRunType DEF PrepareResolves
  <2> QED  BY <2>1, <2>2
<1>5. CASE PrepareRejects(r) \/ FetchRejects(r) \/ ErrorBodyRead(r) \/ StreamBreaks(r)
  BY <1>5, FailType DEF PrepareRejects, FetchRejects, ErrorBodyRead, StreamBreaks
<1>6. ASSUME NEW kind \in {"body", "errorBody", "streaming"}, ResponseArrives(r, kind)
      PROVE  TypeOK'
  <2>1. [r EXCEPT !.phase = kind] \in RunType
    BY <1>1, RunChangeType DEF Phases
  <2> QED  BY <1>3, <1>6, <2>1, SetRunType DEF ResponseArrives
<1>7. CASE EmptyStream(r)
  <2> DEFINE entry == IF tracked[c].incarnation = r.incarnation /\ tracked[c].outcome = "none"
                      THEN Conclude(tracked[c], Done) ELSE tracked[c]
  <2>1. entry \in TrackedType
    BY <1>1, ConcludeType, LineTypes
  <2>2. Finish(r, [tracked EXCEPT ![c] = entry])
    BY <1>7 DEF EmptyStream
  <2> HIDE DEF entry, c
  <2> QED  BY <1>2, <2>1, <2>2, FinishType
<1>8. CASE BodyRead(r)
  <2> DEFINE entry == Conclude(Emit(tracked[c], Result), Done)
  <2>1. entry \in TrackedType
    BY <1>1, EmitType, ConcludeType, LineTypes
  <2>2. Finish(r, [tracked EXCEPT ![c] = entry])
    BY <1>8 DEF BodyRead
  <2> HIDE DEF entry, c
  <2> QED  BY <1>2, <2>1, <2>2, FinishType
<1>9. CASE StreamEnds(r)
  <2> DEFINE entry == Conclude(tracked[c], Done)
  <2>1. entry \in TrackedType
    BY <1>1, ConcludeType, LineTypes
  <2>2. Finish(r, tracked) \/ Finish(r, [tracked EXCEPT ![c] = entry])
    BY <1>9 DEF StreamEnds
  <2> HIDE DEF entry, c
  <2> QED  BY <1>2, <1>3, <2>1, <2>2, FinishType
<1>10. CASE TimeoutFires(r)
  <2>1. [r EXCEPT !.timer = FALSE, !.timedOut = TRUE] \in RunType
    BY <1>1, RunChangeType DEF Phases
  <2> QED  BY <1>3, <1>10, <2>1, SetRunType DEF TimeoutFires
<1>11. ASSUME NEW line \in Lines, StreamLine(r, line)
       PROVE  TypeOK'
  <2> DEFINE entry == IF IsTerminalEvent(line) THEN Conclude(tracked[c], line)
                                               ELSE Emit(tracked[c], line)
  <2>1. line \in LineType
    BY ExecutorAssumption
  <2>2. entry \in TrackedType
    BY <1>1, <2>1, EmitType, ConcludeType
  <2>3. tracked' = [tracked EXCEPT ![c] = entry]
    BY <1>11 DEF StreamLine
  <2>4. (r.emittedTerminal \/ IsTerminalEvent(line)) \in BOOLEAN
    OBVIOUS
  <2>5. [r EXCEPT !.emittedTerminal = r.emittedTerminal \/ IsTerminalEvent(line)] \in RunType
    BY <1>1, <2>4, RunChangeType DEF Phases
  <2> HIDE DEF entry, c
  <2>6. tracked' \in [Commands -> TrackedType]
    BY <1>2, <2>2, <2>3
  <2> QED  BY <1>11, <2>5, <2>6, SetRunType DEF StreamLine
<1> QED  BY <1>4, <1>5, <1>6, <1>7, <1>8, <1>9, <1>10, <1>11 DEF Settles

(***************************************************************************)
(* A call from the socket or the application keeps the types.              *)
(***************************************************************************)
LEMMA EnqueueType ==
  ASSUME TypeOK, NEW c \in Commands, NEW verified, Enqueue(c, verified)
  PROVE  TypeOK'
<1>1. PICK S \in Prunable :
        LET trk == Pruned(S)
            n   == trk[c].incarnation + 1
        IN  \/ /\ tracked' = trk
               /\ UNCHANGED <<queue, runs, inFlight, lockOwners, lastEmittedStats>>
            \/ Schedule(connected, Append(queue, c),
                        [trk EXCEPT ![c] = Queued(n)], runs, inFlight, lockOwners)
  BY DEF Enqueue
<1> DEFINE trk == Pruned(S)
           n   == trk[c].incarnation + 1
<1>2. \A d \in Commands : tracked[d] \in TrackedType /\ tracked[d].incarnation \in Nat
  BY DEF TypeOK, TrackedType
<1>3. trk \in [Commands -> TrackedType] /\ n \in Nat
  <2>1. \A d \in Commands : Untracked(tracked[d].incarnation) \in TrackedType
    BY <1>2, UntrackedType
  <2>2. trk \in [Commands -> TrackedType]
    BY <1>2, <2>1 DEF Pruned
  <2>3. trk[c] \in TrackedType
    BY <2>2
  <2>4. trk[c].incarnation \in Nat
    BY <2>3 DEF TrackedType
  <2> QED  BY <2>2, <2>4
<1>4. UNCHANGED <<connected, disposed>>
  BY DEF Enqueue
<1>5. CASE tracked' = trk /\ UNCHANGED <<queue, runs, inFlight, lockOwners, lastEmittedStats>>
  <2> HIDE DEF trk
  <2> QED  BY <1>3, <1>4, <1>5 DEF TypeOK
<1>6. CASE Schedule(connected, Append(queue, c), [trk EXCEPT ![c] = Queued(n)], runs,
                    inFlight, lockOwners)
  <2>1. [trk EXCEPT ![c] = Queued(n)] \in [Commands -> TrackedType]
    BY <1>3, UntrackedType
  <2>2. Append(queue, c) \in Seq(Commands)
    BY DEF TypeOK
  <2>3. /\ runs \in SUBSET RunType /\ inFlight \in [Commands -> Nat]
        /\ lockOwners \in [LockKeys -> Commands \cup {Nobody}]
        /\ lastEmittedStats \in StatsType /\ connected \in BOOLEAN /\ disposed \in BOOLEAN
    BY DEF TypeOK
  <2> HIDE DEF trk, n
  <2>4. /\ queue' \in Seq(Commands) /\ tracked' \in [Commands -> TrackedType]
        /\ inFlight' \in [Commands -> Nat]
        /\ lockOwners' \in [LockKeys -> Commands \cup {Nobody}]
        /\ runs' \subseteq RunType /\ lastEmittedStats' \in StatsType
    BY <1>6, <2>1, <2>2, <2>3, ScheduleType
  <2> QED  BY <1>4, <2>3, <2>4 DEF TypeOK
<1> QED  BY <1>1, <1>5, <1>6

\* Every call from the socket or the application keeps the types.
LEMMA CallType ==
  ASSUME TypeOK,
         \/ \E value \in BOOLEAN : SetConnected(value)
         \/ \E c \in Commands, verified \in BOOLEAN : Enqueue(c, verified)
         \/ \E c \in Commands : CancelQueued(c) \/ CancelRunning(c)
         \/ \E c \in Commands, sequence \in AckSequences : Acknowledge(c, sequence)
         \/ Dispose
  PROVE  TypeOK'
<1>1. ASSUME NEW value \in BOOLEAN, SetConnected(value)
      PROVE  TypeOK'
  <2>1. CASE value
    <3>1. Schedule(TRUE, queue, tracked, runs, inFlight, lockOwners)
      BY <1>1, <2>1 DEF SetConnected
    <3>2. connected' \in BOOLEAN /\ disposed' \in BOOLEAN
      BY <1>1 DEF SetConnected, TypeOK
    <3> QED  BY <3>1, <3>2, ScheduleType DEF TypeOK
  <2>2. CASE ~value
    BY <1>1, <2>2 DEF SetConnected, TypeOK
  <2> QED  BY <2>1, <2>2
<1>2. ASSUME NEW c \in Commands, CancelQueued(c)
      PROVE  TypeOK'
  <2>1. queue' \in Seq(Commands)
    BY <1>2, WithoutType DEF CancelQueued, TypeOK
  <2>2. Conclude(tracked[c], DoneCancelled) \in TrackedType
    BY ConcludeType, LineTypes DEF TypeOK
  <2>3. tracked' \in [Commands -> TrackedType]
    BY <1>2, <2>2 DEF CancelQueued, TypeOK
  <2>4. lastEmittedStats' \in StatsType
    BY <1>2, <2>1, StatsHaveType DEF CancelQueued
  <2> QED  BY <1>2, <2>1, <2>3, <2>4 DEF CancelQueued, TypeOK
<1>3. ASSUME NEW c \in Commands, CancelRunning(c)
      PROVE  TypeOK'
  <2>1. PICK r \in runs : runs' = (runs \ {r}) \cup {[r EXCEPT !.cancelRequested = TRUE]}
    BY <1>3 DEF CancelRunning
  <2>2. [r EXCEPT !.cancelRequested = TRUE] \in RunType
    BY RunChangeType DEF TypeOK, Phases
  <2> QED  BY <1>3, <2>1, <2>2 DEF CancelRunning, TypeOK
<1>4. ASSUME NEW c \in Commands, NEW sequence \in AckSequences, Acknowledge(c, sequence)
      PROVE  TypeOK'
  <2> DEFINE acked == IF sequence > tracked[c].acked THEN sequence ELSE tracked[c].acked
             events == IF tracked[c].state = "terminal" THEN tracked[c].events
                       ELSE {e \in tracked[c].events : e.sequence > acked}
  <2>1. tracked[c] \in TrackedType
    BY DEF TypeOK
  <2>2. acked \in Nat /\ events \in SUBSET Event
    BY <2>1, ExecutorAssumption DEF TrackedType
  <2>3. tracked' = [tracked EXCEPT ![c].acked = acked, ![c].events = events]
    BY <1>4 DEF Acknowledge
  <2> HIDE DEF acked, events
  <2>4. [tracked[c] EXCEPT !.acked = acked, !.events = events] \in TrackedType
    BY <2>1, <2>2 DEF TrackedType
  <2>5. tracked' = [tracked EXCEPT ![c] = [tracked[c] EXCEPT !.acked = acked, !.events = events]]
    BY <2>3 DEF TypeOK
  <2>6. tracked' \in [Commands -> TrackedType]
    BY <2>4, <2>5 DEF TypeOK
  <2> QED  BY <1>4, <2>6 DEF Acknowledge, TypeOK
<1>5. CASE Dispose
  <2>1. runs' \subseteq RunType
    BY <1>5, RunChangeType DEF Dispose, TypeOK, Phases
  <2>2. tracked' \in [Commands -> TrackedType]
    <3>1. \A c \in Commands : tracked[c].incarnation \in Nat
      BY DEF TypeOK, TrackedType
    <3> QED  BY <1>5, <3>1, UntrackedType DEF Dispose
  <2>3. /\ queue' = <<>> /\ inFlight' = [c \in Commands |-> 0]
        /\ lockOwners' = [k \in LockKeys |-> Nobody]
        /\ UNCHANGED <<connected, lastEmittedStats>> /\ disposed' = TRUE
    BY <1>5 DEF Dispose
  <2>4. inFlight' \in [Commands -> Nat] /\ lockOwners' \in [LockKeys -> Commands \cup {Nobody}]
    BY <2>3
  <2> QED  BY <2>1, <2>2, <2>3, <2>4 DEF TypeOK
<1>6. ASSUME NEW c \in Commands, NEW verified \in BOOLEAN, Enqueue(c, verified)
      PROVE  TypeOK'
  BY <1>6, EnqueueType
<1> QED  BY <1>1, <1>2, <1>3, <1>4, <1>5, <1>6

\* The executor is created with values of their types.
LEMMA InitType == Init => TypeOK
<1> SUFFICES ASSUME Init PROVE TypeOK
  OBVIOUS
<1>1. /\ queue = <<>> /\ inFlight = [c \in Commands |-> 0]
      /\ lockOwners = [k \in LockKeys |-> Nobody]
      /\ runs = {} /\ connected = FALSE /\ disposed = FALSE /\ lastEmittedStats = NoStats
  BY DEF Init
<1>2. tracked \in [Commands -> TrackedType]
  BY UntrackedType DEF Init
<1>3. inFlight \in [Commands -> Nat] /\ lockOwners \in [LockKeys -> Commands \cup {Nobody}]
  BY <1>1
<1>4. lastEmittedStats \in StatsType
  BY <1>1 DEF StatsType
<1>5. queue \in Seq(Commands) /\ runs \subseteq RunType
  BY <1>1
<1> QED  BY <1>1, <1>2, <1>3, <1>4, <1>5 DEF TypeOK

\* Every step keeps the types.
LEMMA NextType == TypeOK /\ [Next]_vars => TypeOK'
<1> SUFFICES ASSUME TypeOK, [Next]_vars PROVE TypeOK'
  OBVIOUS
<1>1. CASE UNCHANGED vars
  BY <1>1 DEF vars, TypeOK
<1>2. CASE Next
  BY <1>2, CallType, ExecutionType DEF Next
<1> QED  BY <1>1, <1>2

(***************************************************************************)
(* Every variable has its type in every behaviour, for any set of commands *)
(* and any envelopes the relay may send.                                   *)
(***************************************************************************)
THEOREM TypeCorrect == Spec => []TypeOK
BY InitType, NextType, PTL DEF Spec

-----------------------------------------------------------------------------
(* Lock exclusion.  It is not inductive: that schedule() takes a lock only *)
(* when it is free means something only if a lock in use is never free,    *)
(* which is LocksHeldByRuns.  dispose() drops the locks under executions   *)
(* that go on, so past it exclusion rests on the queue being empty.        *)

\* LockExclusion and LocksHeldByRuns, of values not yet assigned.
Exclusive(rs) ==
  \A r, s \in rs :
    /\ DeriveLockKey(r.command) = DeriveLockKey(s.command)
    /\ DeriveLockKey(r.command) # NoLock
    => r = s

Held(rs, owners) ==
  \A k \in LockKeys, c \in Commands :
    owners[k] = c <=> DeriveLockKey(c) = k /\ \E r \in rs : r.command = c

\* A disposed executor holds no command it could still start.
NothingQueuedAfterDispose == disposed => queue = <<>>

LockInv == TypeOK /\ LockExclusion /\ LocksHeldByRuns /\ NothingQueuedAfterDispose

(***************************************************************************)
(* The commands one pass of schedule() starts have distinct locks, all of  *)
(* them free before.                                                       *)
(***************************************************************************)
LEMMA StartedLocks ==
  ASSUME NEW q \in Seq(Commands), NEW P \in SUBSET (DOMAIN q), NEW flying,
         NEW owners, IsSchedule(P, q, flying, owners)
  PROVE  /\ \A i \in P : LockIsFree(q[i], owners)
         /\ \A i, j \in P : DeriveLockKey(q[i]) = DeriveLockKey(q[j])
                           /\ DeriveLockKey(q[i]) # NoLock => q[i] = q[j]
<1>1. \A i \in P : CanStart(i, P, q, flying, owners)
  BY DEF IsSchedule
<1>2. \A i, j \in P : i < j => \/ DeriveLockKey(q[i]) = NoLock
                              \/ DeriveLockKey(q[i]) # DeriveLockKey(q[j])
  <2> SUFFICES ASSUME NEW i \in P, NEW j \in P, i < j
               PROVE  \/ DeriveLockKey(q[i]) = NoLock
                      \/ DeriveLockKey(q[i]) # DeriveLockKey(q[j])
    OBVIOUS
  <2>1. q[i] \in {q[h] : h \in {k \in P : k < j}}
    OBVIOUS
  <2> QED  BY <1>1, <2>1 DEF CanStart
<1>3. \A i, j \in P : i < j \/ j < i \/ i = j
  OBVIOUS
<1>4. \A i \in P : LockIsFree(q[i], owners)
  BY <1>1 DEF CanStart
<1> QED  BY <1>2, <1>3, <1>4

(***************************************************************************)
(* schedule() keeps locks exclusive and held by the executions that run.   *)
(***************************************************************************)
LEMMA ScheduleKeepsLocks ==
  ASSUME NEW link, NEW q \in Seq(Commands), NEW trk \in [Commands -> TrackedType],
         NEW rs \in SUBSET RunType, NEW flying,
         NEW owners \in [LockKeys -> Commands \cup {Nobody}],
         Schedule(link, q, trk, rs, flying, owners),
         Exclusive(rs), Held(rs, owners)
  PROVE  Exclusive(runs') /\ Held(runs', lockOwners')
<1>1. CASE ~link
  BY <1>1 DEF Schedule
<1>2. CASE link
  <2>1. PICK P \in SUBSET (DOMAIN q) :
          LET started == {q[i] : i \in P}
          IN  /\ IsSchedule(P, q, flying, owners)
              /\ runs' = rs \cup {NewRun(c, trk[c].incarnation) : c \in started}
              /\ lockOwners' = [k \in LockKeys |->
                                 IF \E c \in started : DeriveLockKey(c) = k
                                 THEN CHOOSE c \in started : DeriveLockKey(c) = k
                                 ELSE owners[k]]
    BY <1>2 DEF Schedule
  <2> DEFINE started == {q[i] : i \in P}
             fresh == {NewRun(c, trk[c].incarnation) : c \in started}
  <2>2. started \subseteq Commands
    OBVIOUS
  <2>3. \A c \in started : DeriveLockKey(c) # NoLock => owners[DeriveLockKey(c)] = Nobody
    BY <2>1, StartedLocks DEF LockIsFree
  <2>4. \A c, d \in started : DeriveLockKey(c) = DeriveLockKey(d) /\ DeriveLockKey(c) # NoLock
                             => c = d
    BY <2>1, StartedLocks
  <2>5. runs' = rs \cup fresh
    BY <2>1
  <2>6. \A r \in fresh : r.command \in started /\ r = NewRun(r.command, trk[r.command].incarnation)
    BY DEF NewRun
  <2>7. \A c \in started : \E r \in fresh : r.command = c
    <3> SUFFICES ASSUME NEW c \in started PROVE \E r \in fresh : r.command = c
      OBVIOUS
    <3> WITNESS NewRun(c, trk[c].incarnation) \in fresh
    <3> QED  BY DEF NewRun
  <2>8. \A s \in rs : s.command \in Commands
    BY DEF RunType
  <2>9. \A k \in LockKeys :
          /\ (\E c \in started : DeriveLockKey(c) = k) =>
               lockOwners'[k] \in started /\ DeriveLockKey(lockOwners'[k]) = k
          /\ ~(\E c \in started : DeriveLockKey(c) = k) => lockOwners'[k] = owners[k]
    BY <2>1
  <2> HIDE DEF started, fresh
  <2>10. \A s \in rs, c \in started : DeriveLockKey(s.command) = DeriveLockKey(c)
                                     => DeriveLockKey(c) = NoLock
    <3> SUFFICES ASSUME NEW s \in rs, NEW c \in started,
                        DeriveLockKey(s.command) = DeriveLockKey(c),
                        DeriveLockKey(c) # NoLock
                 PROVE  FALSE
      OBVIOUS
    <3>1. DeriveLockKey(c) \in LockKeys
      BY <2>2, DeriveLockKeyType
    <3>2. owners[DeriveLockKey(c)] = s.command
      BY <2>8, <3>1 DEF Held
    <3> QED  BY <2>3, <2>8, <3>2, ExecutorAssumption
  <2>11. Exclusive(runs')
    <3> SUFFICES ASSUME NEW r \in rs \cup fresh, NEW s \in rs \cup fresh,
                        DeriveLockKey(r.command) = DeriveLockKey(s.command),
                        DeriveLockKey(r.command) # NoLock
                 PROVE  r = s
      BY <2>5 DEF Exclusive
    <3>1. CASE r \in rs /\ s \in rs
      BY <3>1 DEF Exclusive
    <3>2. CASE r \in fresh /\ s \in fresh
      BY <2>4, <2>6, <3>2
    <3>3. CASE r \in rs /\ s \in fresh
      BY <2>6, <2>10, <3>3
    <3>4. CASE r \in fresh /\ s \in rs
      BY <2>6, <2>10, <3>4
    <3> QED  BY <3>1, <3>2, <3>3, <3>4
  <2>12. Held(runs', lockOwners')
    <3> SUFFICES ASSUME NEW k \in LockKeys, NEW c \in Commands
                 PROVE  lockOwners'[k] = c <=>
                          DeriveLockKey(c) = k /\ \E r \in rs \cup fresh : r.command = c
      BY <2>5 DEF Held
    <3>1. k # NoLock
      BY EnvelopeAssumption
    <3>2. CASE \E d \in started : DeriveLockKey(d) = k
      <4>1. PICK d \in started : DeriveLockKey(d) = k
        BY <3>2
      <4>2. lockOwners'[k] = d
        BY <2>4, <2>9, <3>1, <4>1
      <4>3. \A r \in rs \cup fresh : DeriveLockKey(r.command) = k => r.command = d
        BY <2>4, <2>6, <2>10, <3>1, <4>1
      <4> QED  BY <2>7, <4>1, <4>2, <4>3
    <3>3. CASE ~\E d \in started : DeriveLockKey(d) = k
      <4>1. lockOwners'[k] = owners[k]
        BY <2>9, <3>3
      <4>2. \A r \in fresh : DeriveLockKey(r.command) # k
        BY <2>6, <3>3
      <4> QED  BY <4>1, <4>2 DEF Held
    <3> QED  BY <3>2, <3>3
  <2> QED  BY <2>11, <2>12
<1> QED  BY <1>1, <1>2

(***************************************************************************)
(* With nothing queued, schedule() starts nothing and queues nothing.      *)
(***************************************************************************)
LEMMA ScheduleNothing ==
  ASSUME NEW link, NEW trk, NEW rs, NEW flying, NEW owners,
         Schedule(link, <<>>, trk, rs, flying, owners)
  PROVE  runs' = rs /\ queue' = <<>>
<1>1. CASE ~link
  BY <1>1 DEF Schedule
<1>2. CASE link
  <2>1. PICK P \in SUBSET (DOMAIN <<>>) :
          /\ queue' \in Without(<<>>, P)
          /\ runs' = rs \cup {NewRun(c, trk[c].incarnation) : c \in {<<>>[i] : i \in P}}
    BY <1>2 DEF Schedule
  <2>2. P = {}
    OBVIOUS
  <2>3. runs' = rs
    BY <2>1, <2>2
  <2> QED  BY <2>1, <2>3, WithoutEmpty
<1> QED  BY <1>1, <1>2

\* The state in terms of the two invariants on values.
LEMMA LocksOfState ==
  /\ LockExclusion <=> Exclusive(runs)
  /\ LocksHeldByRuns <=> (disposed \/ Held(runs, lockOwners))
BY DEF LockExclusion, Exclusive, LocksHeldByRuns, Held

(***************************************************************************)
(* An execution that reaches its finally gives up its own lock and no      *)
(* other: exclusion is what makes the unconditional delete right.          *)
(***************************************************************************)
LEMMA FinishKeepsLocks ==
  ASSUME LockInv, NEW r \in runs, NEW trk \in [Commands -> TrackedType], Finish(r, trk)
  PROVE  LockExclusion' /\ LocksHeldByRuns' /\ NothingQueuedAfterDispose'
<1> DEFINE flying == [inFlight EXCEPT ![r.command] = 0]
           owners == [k \in LockKeys |-> IF k = DeriveLockKey(r.command) THEN Nobody
                                         ELSE lockOwners[k]]
<1>1. Schedule(connected, queue, trk, runs \ {r}, flying, owners) /\ disposed' = disposed
  BY DEF Finish
<1>2. Exclusive(runs \ {r})
  BY DEF LockInv, LockExclusion, Exclusive
<1>3. CASE disposed
  <2>1. queue = <<>>
    BY <1>3 DEF LockInv, NothingQueuedAfterDispose
  <2> HIDE DEF flying, owners
  <2>2. runs' = runs \ {r} /\ queue' = <<>>
    BY <1>1, <2>1, ScheduleNothing
  <2> QED  BY <1>1, <1>2, <1>3, <2>2 DEF LockExclusion, Exclusive, LocksHeldByRuns,
                                         NothingQueuedAfterDispose
<1>4. CASE ~disposed
  <2>1. Held(runs, lockOwners) /\ Exclusive(runs)
    BY <1>4, LocksOfState DEF LockInv
  <2>2. owners \in [LockKeys -> Commands \cup {Nobody}] /\ runs \ {r} \in SUBSET RunType
        /\ queue \in Seq(Commands)
    BY DEF LockInv, TypeOK
  <2>3. r.command \in Commands /\ Nobody \notin Commands
    BY ExecutorAssumption DEF LockInv, TypeOK, RunType
  <2>4. Held(runs \ {r}, owners)
    <3> SUFFICES ASSUME NEW k \in LockKeys, NEW c \in Commands
                 PROVE  owners[k] = c <=>
                          DeriveLockKey(c) = k /\ \E s \in runs \ {r} : s.command = c
      BY DEF Held
    <3>1. k # NoLock
      BY EnvelopeAssumption
    <3>2. CASE k = DeriveLockKey(r.command)
      <4>1. owners[k] = Nobody
        BY <3>2
      <4>2. \A s \in runs : DeriveLockKey(s.command) = k => s = r
        BY <2>1, <3>1, <3>2 DEF Exclusive
      <4> QED  BY <2>3, <4>1, <4>2
    <3>3. CASE k # DeriveLockKey(r.command)
      BY <2>1, <3>3 DEF Held
    <3> QED  BY <3>2, <3>3
  <2> HIDE DEF flying, owners
  <2>5. Exclusive(runs') /\ Held(runs', lockOwners')
    BY <1>1, <1>2, <2>2, <2>4, ScheduleKeepsLocks
  <2> QED  BY <1>1, <1>4, <2>5 DEF LockExclusion, Exclusive, LocksHeldByRuns, Held,
                                   NothingQueuedAfterDispose
<1> QED  BY <1>3, <1>4

\* An execution that changes but keeps its command keeps its lock.
LEMMA SetRunKeepsLocks ==
  ASSUME LockInv, NEW r \in runs, NEW changed, changed.command = r.command,
         runs' = (runs \ {r}) \cup {changed},
         UNCHANGED <<queue, lockOwners, disposed>>
  PROVE  LockExclusion' /\ LocksHeldByRuns' /\ NothingQueuedAfterDispose'
<1>1. LockExclusion'
  BY DEF LockInv, LockExclusion
<1>2. \A c : (\E s \in runs' : s.command = c) <=> (\E s \in runs : s.command = c)
  OBVIOUS
<1>3. LocksHeldByRuns'
  BY <1>2 DEF LockInv, LocksHeldByRuns
<1>4. NothingQueuedAfterDispose'
  BY DEF LockInv, NothingQueuedAfterDispose
<1> QED  BY <1>1, <1>3, <1>4

\* An execution that goes on or ends keeps the locks right.
LEMMA ExecutionKeepsLocks ==
  ASSUME LockInv, NEW r \in runs,
         Settles(r) \/ TimeoutFires(r) \/ \E line \in Lines : StreamLine(r, line)
  PROVE  LockExclusion' /\ LocksHeldByRuns' /\ NothingQueuedAfterDispose'
<1>1. ASSUME NEW trk, Finish(r, trk), trk \in [Commands -> TrackedType]
      PROVE  LockExclusion' /\ LocksHeldByRuns' /\ NothingQueuedAfterDispose'
  BY <1>1, FinishKeepsLocks
<1>2. ASSUME NEW changed, SetRun(r, changed), changed.command = r.command
      PROVE  LockExclusion' /\ LocksHeldByRuns' /\ NothingQueuedAfterDispose'
  BY <1>2, SetRunKeepsLocks DEF SetRun
<1>3. r \in RunType /\ r.command \in Commands /\ tracked[r.command] \in TrackedType
      /\ tracked \in [Commands -> TrackedType]
  BY DEF LockInv, TypeOK, RunType
<1>4. \A entry \in TrackedType : [tracked EXCEPT ![r.command] = entry] \in [Commands -> TrackedType]
  BY <1>3
<1>5. CASE Fail(r)
  <2> DEFINE entry == IF disposed THEN MarkTerminal(tracked[r.command], "failed")
                                  ELSE Conclude(tracked[r.command], FailureLine(r))
  <2>1. FailureLine(r) \in LineType
    BY LineTypes DEF FailureLine
  <2>2. entry \in TrackedType
    BY <1>3, <2>1, MarkTerminalType, ConcludeType DEF Outcomes
  <2>3. Finish(r, [tracked EXCEPT ![r.command] = entry])
    BY <1>5 DEF Fail
  <2> HIDE DEF entry
  <2> QED  BY <1>1, <1>4, <2>2, <2>3
<1>6. CASE PrepareResolves(r)
  BY <1>2, <1>3, <1>5, <1>6 DEF PrepareResolves, RunType
<1>7. CASE PrepareRejects(r) \/ FetchRejects(r) \/ ErrorBodyRead(r) \/ StreamBreaks(r)
  BY <1>5, <1>7 DEF PrepareRejects, FetchRejects, ErrorBodyRead, StreamBreaks
<1>8. ASSUME NEW kind \in {"body", "errorBody", "streaming"}, ResponseArrives(r, kind)
      PROVE  LockExclusion' /\ LocksHeldByRuns' /\ NothingQueuedAfterDispose'
  BY <1>2, <1>3, <1>8 DEF ResponseArrives, RunType
<1>9. CASE EmptyStream(r)
  <2> DEFINE entry == IF tracked[r.command].incarnation = r.incarnation
                         /\ tracked[r.command].outcome = "none"
                      THEN Conclude(tracked[r.command], Done) ELSE tracked[r.command]
  <2>1. entry \in TrackedType
    BY <1>3, ConcludeType, LineTypes
  <2>2. Finish(r, [tracked EXCEPT ![r.command] = entry])
    BY <1>9 DEF EmptyStream
  <2> HIDE DEF entry
  <2> QED  BY <1>1, <1>4, <2>1, <2>2
<1>10. CASE BodyRead(r)
  <2> DEFINE entry == Conclude(Emit(tracked[r.command], Result), Done)
  <2>1. entry \in TrackedType
    BY <1>3, EmitType, ConcludeType, LineTypes
  <2>2. Finish(r, [tracked EXCEPT ![r.command] = entry])
    BY <1>10 DEF BodyRead
  <2> HIDE DEF entry
  <2> QED  BY <1>1, <1>4, <2>1, <2>2
<1>11. CASE StreamEnds(r)
  <2> DEFINE entry == Conclude(tracked[r.command], Done)
  <2>1. entry \in TrackedType
    BY <1>3, ConcludeType, LineTypes
  <2>2. Finish(r, tracked) \/ Finish(r, [tracked EXCEPT ![r.command] = entry])
    BY <1>11 DEF StreamEnds
  <2> HIDE DEF entry
  <2> QED  BY <1>1, <1>3, <1>4, <2>1, <2>2
<1>12. CASE TimeoutFires(r)
  BY <1>2, <1>3, <1>12 DEF TimeoutFires, RunType
<1>13. ASSUME NEW line \in Lines, StreamLine(r, line)
       PROVE  LockExclusion' /\ LocksHeldByRuns' /\ NothingQueuedAfterDispose'
  BY <1>2, <1>3, <1>13 DEF StreamLine, RunType
<1> QED  BY <1>6, <1>7, <1>8, <1>9, <1>10, <1>11, <1>12, <1>13 DEF Settles

\* A call from the socket or the application keeps the locks right.
LEMMA CallKeepsLocks ==
  ASSUME LockInv,
         \/ \E value \in BOOLEAN : SetConnected(value)
         \/ \E c \in Commands, verified \in BOOLEAN : Enqueue(c, verified)
         \/ \E c \in Commands : CancelQueued(c) \/ CancelRunning(c)
         \/ \E c \in Commands, sequence \in AckSequences : Acknowledge(c, sequence)
         \/ Dispose
  PROVE  LockExclusion' /\ LocksHeldByRuns' /\ NothingQueuedAfterDispose'
<1> DEFINE Goal == LockExclusion' /\ LocksHeldByRuns' /\ NothingQueuedAfterDispose'
<1>1. /\ runs \in SUBSET RunType /\ queue \in Seq(Commands)
      /\ lockOwners \in [LockKeys -> Commands \cup {Nobody}]
      /\ tracked \in [Commands -> TrackedType]
      /\ \A d \in Commands : tracked[d].incarnation \in Nat
  BY DEF LockInv, TypeOK, TrackedType
<1>2. ASSUME NEW link, NEW q \in Seq(Commands), NEW trk \in [Commands -> TrackedType],
             Schedule(link, q, trk, runs, inFlight, lockOwners), ~disposed, ~disposed'
      PROVE  Goal
  <2>1. Exclusive(runs) /\ Held(runs, lockOwners)
    BY <1>2, LocksOfState DEF LockInv
  <2>2. Exclusive(runs') /\ Held(runs', lockOwners')
    BY <1>1, <1>2, <2>1, ScheduleKeepsLocks
  <2> QED  BY <1>2, <2>2 DEF LockExclusion, Exclusive, LocksHeldByRuns, Held,
                             NothingQueuedAfterDispose
<1>3. ASSUME UNCHANGED <<runs, lockOwners, disposed>>, disposed => queue' = <<>>
      PROVE  Goal
  BY <1>3 DEF LockInv, LockExclusion, LocksHeldByRuns, NothingQueuedAfterDispose
<1>4. ASSUME NEW value \in BOOLEAN, SetConnected(value)
      PROVE  Goal
  <2>1. CASE ~value
    BY <1>3, <1>4, <2>1 DEF SetConnected, LockInv, NothingQueuedAfterDispose
  <2>2. CASE value /\ ~disposed
    BY <1>1, <1>2, <1>4, <2>2 DEF SetConnected
  <2>3. CASE value /\ disposed
    <3>1. Schedule(TRUE, <<>>, tracked, runs, inFlight, lockOwners) /\ disposed' = disposed
      BY <1>4, <2>3 DEF SetConnected, LockInv, NothingQueuedAfterDispose
    <3>2. runs' = runs /\ queue' = <<>>
      BY <3>1, ScheduleNothing
    <3> QED  BY <2>3, <3>1, <3>2 DEF LockInv, LockExclusion, LocksHeldByRuns,
                                     NothingQueuedAfterDispose
  <2> QED  BY <2>1, <2>2, <2>3
<1>5. ASSUME NEW c \in Commands, NEW verified \in BOOLEAN, Enqueue(c, verified)
      PROVE  Goal
  <2>1. PICK S \in Prunable :
          LET trk == Pruned(S)
              n   == trk[c].incarnation + 1
          IN  \/ UNCHANGED <<queue, runs, lockOwners>>
              \/ Schedule(connected, Append(queue, c),
                          [trk EXCEPT ![c] = Queued(n)], runs, inFlight, lockOwners)
    BY <1>5 DEF Enqueue
  <2> DEFINE trk == Pruned(S)
             n   == trk[c].incarnation + 1
  <2>2. ~disposed /\ ~disposed' /\ disposed' = disposed
    BY <1>5 DEF Enqueue
  <2>3. \A d \in Commands : Untracked(tracked[d].incarnation) \in TrackedType
    BY <1>1, UntrackedType
  <2>4. trk \in [Commands -> TrackedType]
    BY <1>1, <2>3 DEF Pruned
  <2>5. trk[c] \in TrackedType
    BY <2>4
  <2>6. n \in Nat
    BY <2>5 DEF TrackedType
  <2>7. [trk EXCEPT ![c] = Queued(n)] \in [Commands -> TrackedType]
    BY <2>4, <2>6, UntrackedType
  <2>8. Append(queue, c) \in Seq(Commands)
    BY <1>1
  <2>9. CASE UNCHANGED <<queue, runs, lockOwners>>
    BY <1>3, <2>2, <2>9
  <2>10. CASE Schedule(connected, Append(queue, c), [trk EXCEPT ![c] = Queued(n)], runs,
                       inFlight, lockOwners)
    <3> HIDE DEF trk, n
    <3> QED  BY <1>2, <2>2, <2>7, <2>8, <2>10
  <2> QED  BY <2>1, <2>9, <2>10
<1>6. ASSUME NEW c \in Commands, CancelQueued(c)
      PROVE  Goal
  BY <1>3, <1>6 DEF CancelQueued
<1>7. ASSUME NEW c \in Commands, CancelRunning(c)
      PROVE  Goal
  <2>1. PICK r \in runs : runs' = (runs \ {r}) \cup {[r EXCEPT !.cancelRequested = TRUE]}
    BY <1>7 DEF CancelRunning
  <2>2. [r EXCEPT !.cancelRequested = TRUE].command = r.command
    BY <1>1 DEF RunType
  <2>3. UNCHANGED <<queue, lockOwners, disposed>>
    BY <1>7 DEF CancelRunning
  <2> QED  BY <2>1, <2>2, <2>3, SetRunKeepsLocks
<1>8. ASSUME NEW c \in Commands, NEW sequence \in AckSequences, Acknowledge(c, sequence)
      PROVE  Goal
  BY <1>3, <1>8 DEF Acknowledge, LockInv, NothingQueuedAfterDispose
<1>9. CASE Dispose
  <2> DEFINE After(r) == IF IsCurrent(r) THEN [r EXCEPT !.timer = FALSE, !.shutdown = TRUE]
                                         ELSE r
  <2>1. runs' = {After(r) : r \in runs} /\ disposed' = TRUE /\ queue' = <<>>
    BY <1>9 DEF Dispose
  <2>2. \A r \in runs : After(r).command = r.command
    BY <1>1 DEF RunType
  <2>3. LockExclusion'
    <3> SUFFICES ASSUME NEW x \in runs', NEW y \in runs',
                        DeriveLockKey(x.command) = DeriveLockKey(y.command),
                        DeriveLockKey(x.command) # NoLock
                 PROVE  x = y
      BY DEF LockExclusion
    <3>1. PICK r \in runs : x = After(r)
      BY <2>1
    <3>2. PICK s \in runs : y = After(s)
      BY <2>1
    <3>3. x.command = r.command /\ y.command = s.command
      BY <2>2, <3>1, <3>2
    <3>4. r = s
      BY <3>3 DEF LockInv, LockExclusion
    <3> QED  BY <3>1, <3>2, <3>4
  <2> QED  BY <2>1, <2>3 DEF LocksHeldByRuns, NothingQueuedAfterDispose
<1> QED  BY <1>4, <1>5, <1>6, <1>7, <1>8, <1>9

\* No lock is held before anything runs.
LEMMA LocksAtStart == Init => LockInv
<1> SUFFICES ASSUME Init, TypeOK PROVE LockInv
  BY InitType
<1>1. runs = {} /\ queue = <<>> /\ lockOwners = [k \in LockKeys |-> Nobody]
  BY DEF Init
<1>2. Nobody \notin Commands
  BY ExecutorAssumption
<1> QED  BY <1>1, <1>2 DEF LockInv, LockExclusion, LocksHeldByRuns, NothingQueuedAfterDispose

\* Every step keeps locks exclusive and held by their executions.
LEMMA LocksNext == LockInv /\ [Next]_vars => LockInv'
<1> SUFFICES ASSUME LockInv, [Next]_vars PROVE LockInv'
  OBVIOUS
<1>1. TypeOK'
  BY NextType DEF LockInv
<1>2. CASE UNCHANGED vars
  BY <1>1, <1>2 DEF vars, LockInv, LockExclusion, LocksHeldByRuns, NothingQueuedAfterDispose
<1>3. CASE Next
  BY <1>1, <1>3, CallKeepsLocks, ExecutionKeepsLocks DEF Next, LockInv
<1> QED  BY <1>2, <1>3

(***************************************************************************)
(* The strengthened invariant holds in every behaviour: locks are exclusive*)
(* and held exactly by the executions of their owner until dispose().      *)
(***************************************************************************)
THEOREM LocksInvariant == Spec => []LockInv
BY LocksAtStart, LocksNext, PTL DEF Spec

(***************************************************************************)
(* Two executions whose commands have the same lock key never overlap,     *)
(* also while a disposed executor waits for those it aborted.              *)
(***************************************************************************)
THEOREM LocksExclude == Spec => []LockExclusion
BY LocksInvariant, PTL DEF LockInv

(***************************************************************************)
(* Until dispose() no lock leaks and none is released under its execution. *)
(***************************************************************************)
THEOREM LocksAreHeld == Spec => []LocksHeldByRuns
BY LocksInvariant, PTL DEF LockInv

\* An await that settles, a timer or a line ends the execution or changes it.
LEMMA ExecutionEndsOrChanges ==
  ASSUME NEW r \in runs, r \in RunType,
         Settles(r) \/ TimeoutFires(r) \/ \E line \in Lines : StreamLine(r, line)
  PROVE  \/ \E trk : Finish(r, trk)
         \/ \E changed : /\ SetRun(r, changed)
                         /\ changed.command = r.command
                         /\ changed.incarnation = r.incarnation
<1> DEFINE Goal == \/ \E trk : Finish(r, trk)
                   \/ \E changed : /\ SetRun(r, changed)
                                   /\ changed.command = r.command
                                   /\ changed.incarnation = r.incarnation
<1>1. ASSUME NEW trk, Finish(r, trk)
      PROVE  Goal
  BY <1>1
<1>2. ASSUME NEW changed, SetRun(r, changed), changed.command = r.command,
             changed.incarnation = r.incarnation
      PROVE  Goal
  BY <1>2
<1> SUFFICES Goal
  OBVIOUS
<1> HIDE DEF Goal
<1>3. CASE Fail(r)
  BY <1>1, <1>3 DEF Fail
<1>4. CASE PrepareResolves(r)
  <2>1. CASE ~Aborted(r)
    <3>1. SetRun(r, [r EXCEPT !.phase = "fetching"])
      BY <1>4, <2>1 DEF PrepareResolves
    <3> QED  BY <1>2, <3>1 DEF RunType
  <2> QED  BY <1>3, <1>4, <2>1 DEF PrepareResolves
<1>5. CASE PrepareRejects(r) \/ FetchRejects(r) \/ ErrorBodyRead(r) \/ StreamBreaks(r)
  BY <1>3, <1>5 DEF PrepareRejects, FetchRejects, ErrorBodyRead, StreamBreaks
<1>6. ASSUME NEW kind \in {"body", "errorBody", "streaming"}, ResponseArrives(r, kind)
      PROVE  Goal
  <2>1. SetRun(r, [r EXCEPT !.phase = kind])
    BY <1>6 DEF ResponseArrives
  <2> QED  BY <1>2, <2>1 DEF RunType
<1>7. CASE EmptyStream(r)
  BY <1>1, <1>7 DEF EmptyStream
<1>8. CASE BodyRead(r)
  BY <1>1, <1>8 DEF BodyRead
<1>9. CASE StreamEnds(r)
  BY <1>1, <1>9 DEF StreamEnds
<1>10. CASE TimeoutFires(r)
  <2>1. SetRun(r, [r EXCEPT !.timer = FALSE, !.timedOut = TRUE])
    BY <1>10 DEF TimeoutFires
  <2>2. /\ [r EXCEPT !.timer = FALSE, !.timedOut = TRUE].command = r.command
        /\ [r EXCEPT !.timer = FALSE, !.timedOut = TRUE].incarnation = r.incarnation
    BY DEF RunType
  <2> QED  BY <1>2, <2>1, <2>2
<1>11. ASSUME NEW line \in Lines, StreamLine(r, line)
       PROVE  Goal
  <2>1. SetRun(r, [r EXCEPT !.emittedTerminal = @ \/ IsTerminalEvent(line)])
    BY <1>11 DEF StreamLine
  <2> QED  BY <1>2, <2>1 DEF RunType
<1>12. CASE Settles(r)
  <2>1. CASE \E kind \in {"body", "errorBody", "streaming"} : ResponseArrives(r, kind)
    BY <1>6, <2>1
  <2> QED  BY <1>4, <1>5, <1>7, <1>8, <1>9, <1>12, <2>1 DEF Settles
<1>13. CASE \E line \in Lines : StreamLine(r, line)
  BY <1>11, <1>13
<1> QED  BY <1>10, <1>12, <1>13

(***************************************************************************)
(* A step of a disposed executor: schedule() finds an empty queue, so the  *)
(* executions after the step are among those before it.                    *)
(***************************************************************************)
LEMMA DisposedStep ==
  ASSUME LockInv, Next, disposed
  PROVE  \A r \in runs' : \E s \in runs :
           r.command = s.command /\ r.incarnation = s.incarnation
<1>1. queue = <<>> /\ runs \subseteq RunType
  BY DEF LockInv, NothingQueuedAfterDispose, TypeOK
<1>2. CASE runs' \subseteq runs
  BY <1>2
<1>3. ASSUME NEW value \in BOOLEAN, SetConnected(value)
      PROVE  runs' = runs
  <2>1. CASE value
    <3>1. Schedule(TRUE, <<>>, tracked, runs, inFlight, lockOwners)
      BY <1>1, <1>3, <2>1 DEF SetConnected
    <3> QED  BY <3>1, ScheduleNothing
  <2>2. CASE ~value
    BY <1>3, <2>2 DEF SetConnected
  <2> QED  BY <2>1, <2>2
<1>4. ASSUME NEW c \in Commands, NEW sequence \in AckSequences, Acknowledge(c, sequence)
      PROVE  runs' = runs
  BY <1>4 DEF Acknowledge
<1>5. ASSUME NEW r \in runs,
             Settles(r) \/ TimeoutFires(r) \/ \E line \in Lines : StreamLine(r, line)
      PROVE  \A x \in runs' : \E s \in runs :
               x.command = s.command /\ x.incarnation = s.incarnation
  <2>1. ASSUME NEW trk, Finish(r, trk)
        PROVE  runs' \subseteq runs
    <3> DEFINE flying == [inFlight EXCEPT ![r.command] = 0]
               owners == [k \in LockKeys |-> IF k = DeriveLockKey(r.command) THEN Nobody
                                             ELSE lockOwners[k]]
    <3>1. Schedule(connected, <<>>, trk, runs \ {r}, flying, owners)
      BY <1>1, <2>1 DEF Finish
    <3> HIDE DEF flying, owners
    <3>2. runs' = runs \ {r}
      BY <3>1, ScheduleNothing
    <3> QED  BY <3>2
  <2>2. ASSUME NEW changed, SetRun(r, changed), changed.command = r.command,
               changed.incarnation = r.incarnation
        PROVE  \A x \in runs' : \E s \in runs :
                 x.command = s.command /\ x.incarnation = s.incarnation
    BY <2>2 DEF SetRun
  <2> QED  BY <1>1, <1>2, <1>5, <2>1, <2>2, ExecutionEndsOrChanges
<1>6. ~Dispose /\ \A c \in Commands : /\ ~CancelQueued(c) /\ ~CancelRunning(c)
                                     /\ \A verified \in BOOLEAN : ~Enqueue(c, verified)
  BY DEF Dispose, CancelQueued, CancelRunning, Enqueue
<1> QED  BY <1>2, <1>3, <1>4, <1>5, <1>6 DEF Next

(***************************************************************************)
(* The executions dispose() aborted start nothing when they finish.        *)
(***************************************************************************)
THEOREM NothingRestarts == Spec => NothingStartsAfterDispose
<1>1. LockInv /\ [Next]_vars =>
        [disposed => \A r \in runs' : \E s \in runs :
                       r.command = s.command /\ r.incarnation = s.incarnation]_vars
  BY DisposedStep
<1> QED  BY <1>1, LocksInvariant, PTL DEF Spec, NothingStartsAfterDispose

-----------------------------------------------------------------------------
(* Agreement of queue, tracking map, in-flight map and executions, which   *)
(* the limit and the refinement rest on.                                   *)

(***************************************************************************)
(* A tracked command by itself: it has an outcome iff it is terminal, has  *)
(* no event before it starts, and its buffer holds what is not             *)
(* acknowledged, with the terminal event last.                             *)
(***************************************************************************)
EntryInv(t) ==
  /\ t.state # "untracked" => t.incarnation > 0
  /\ t.state = "terminal" <=> t.outcome # "none"
  /\ t.state = "queued" => t.last = 0
  /\ \A e \in t.events : e.sequence \in 1..t.last
  /\ \A n \in (t.acked + 1)..t.last : \E e \in t.events : e.sequence = n
  /\ t.state = "terminal" => \E e \in t.events : IsTerminalEvent(e) /\ e.sequence = t.last
  /\ \A e \in t.events : IsTerminalEvent(e) => t.state = "terminal" /\ e.sequence = t.last

Entries(trk) == \A c \in Commands : EntryInv(trk[c])

\* QueueMatchesTracked, of values not yet assigned.
QueueAgrees(q, trk) ==
  /\ \A i, j \in DOMAIN q : q[i] = q[j] => i = j
  /\ \A c \in Commands : trk[c].state = "queued" <=> \E i \in DOMAIN q : q[i] = c

\* No two executions are of one command.
Apart(rs) == \A r, s \in rs : r.command = s.command => r = s

(***************************************************************************)
(* Each execution is that of the entry tracked and in flight, and each     *)
(* entry that runs or is in flight has one.                                *)
(***************************************************************************)
RunsAgree(trk, rs, flying) ==
  /\ \A r \in rs :
       /\ trk[r.command].state \in {"running", "terminal"}
       /\ trk[r.command].incarnation = r.incarnation
       /\ flying[r.command] = r.incarnation
       /\ r.emittedTerminal => trk[r.command].state = "terminal"
  /\ \A c \in Commands :
       trk[c].state = "running" \/ flying[c] # 0 => \E r \in rs : r.command = c

Linked(q, trk, rs, flying) ==
  QueueAgrees(q, trk) /\ RunsAgree(trk, rs, flying) /\ Apart(rs)

Busy(rs) == {r.command : r \in rs}

ServiceInv ==
  /\ LockInv
  /\ Entries(tracked)
  /\ Apart(runs)
  /\ Cardinality(Busy(runs)) <= Limit
  /\ ~disposed => Linked(queue, tracked, runs, inFlight)
  /\ disposed => \A c \in Commands : tracked[c].state = "untracked" /\ inFlight[c] = 0

-----------------------------------------------------------------------------
(* Entries.                                                                *)

\* An event that is not terminal, or finds the entry closed, keeps the entry.
LEMMA EmitEntry ==
  ASSUME NEW t \in TrackedType, EntryInv(t), NEW line \in LineType,
         ~IsTerminalEvent(line), t.state # "queued"
  PROVE  EntryInv(Emit(t, line))
<1> DEFINE e == [sequence |-> t.last + 1, type |-> line.type,
                 terminal |-> line.terminal, cancelled |-> line.cancelled]
           u == [t EXCEPT !.last = @ + 1, !.events = @ \cup {e}]
<1>1. CASE ~Open(t)
  BY <1>1 DEF Emit
<1>2. CASE Open(t)
  <2>1. Emit(t, line) = u
    BY <1>2 DEF Emit
  <2>2. /\ u.state = t.state /\ u.outcome = t.outcome /\ u.incarnation = t.incarnation
        /\ u.acked = t.acked /\ u.last = t.last + 1 /\ u.events = t.events \cup {e}
    BY DEF TrackedType
  <2>3. t.state = "running" /\ t.last \in Nat /\ t.acked \in Nat /\ t.events \subseteq Event
    BY <1>2 DEF Open, TrackedType, States
  <2>4. e.sequence = t.last + 1 /\ ~IsTerminalEvent(e)
    BY DEF IsTerminalEvent
  <2>5. \A d \in t.events : ~IsTerminalEvent(d)
    BY <2>3 DEF EntryInv
  <2> HIDE DEF e, u
  <2>6. \A d \in u.events : d.sequence \in 1..u.last
    BY <2>2, <2>3, <2>4 DEF EntryInv, Event
  <2>7. \A n \in (u.acked + 1)..u.last : \E d \in u.events : d.sequence = n
    <3> SUFFICES ASSUME NEW n \in (u.acked + 1)..u.last
                 PROVE  \E d \in u.events : d.sequence = n
      OBVIOUS
    <3>1. CASE n = t.last + 1
      BY <2>2, <2>4, <3>1
    <3>2. CASE n # t.last + 1
      <4>1. n \in (t.acked + 1)..t.last
        BY <2>2, <2>3, <3>2
      <4> QED  BY <2>2, <4>1 DEF EntryInv
    <3> QED  BY <3>1, <3>2
  <2>8. \A d \in u.events : ~IsTerminalEvent(d)
    BY <2>2, <2>4, <2>5
  <2> QED  BY <2>1, <2>2, <2>3, <2>6, <2>7, <2>8 DEF EntryInv
<1> QED  BY <1>1, <1>2

(***************************************************************************)
(* A terminal event closes an open entry and is its last event.            *)
(***************************************************************************)
LEMMA ConcludeEntry ==
  ASSUME NEW t \in TrackedType, EntryInv(t), NEW line \in LineType, IsTerminalEvent(line)
  PROVE  /\ EntryInv(Conclude(t, line))
         /\ Conclude(t, line).incarnation = t.incarnation
         /\ ~Open(t) => Conclude(t, line) = t
         /\ Open(t) => /\ Conclude(t, line).state = "terminal"
                       /\ Conclude(t, line).outcome = ResolveTerminalState(line)
                       /\ Conclude(t, line).last = t.last + 1
<1> DEFINE e == [sequence |-> t.last + 1, type |-> line.type,
                 terminal |-> line.terminal, cancelled |-> line.cancelled]
           u == [t EXCEPT !.state = "terminal", !.outcome = ResolveTerminalState(line),
                          !.last = @ + 1, !.events = @ \cup {e}]
<1>1. CASE ~Open(t)
  BY <1>1 DEF Conclude, Emit, MarkTerminal
<1>2. CASE Open(t)
  <2>1. Conclude(t, line) = u
    BY <1>2 DEF Conclude, Emit, MarkTerminal, Open, TrackedType
  <2>2. /\ u.state = "terminal" /\ u.outcome = ResolveTerminalState(line)
        /\ u.incarnation = t.incarnation
        /\ u.acked = t.acked /\ u.last = t.last + 1 /\ u.events = t.events \cup {e}
    BY DEF TrackedType
  <2>3. /\ t.state \in {"queued", "running"} /\ t.last \in Nat /\ t.acked \in Nat
        /\ t.events \subseteq Event
    BY <1>2 DEF Open, TrackedType, States
  <2>4. e.sequence = t.last + 1 /\ IsTerminalEvent(e)
    BY DEF IsTerminalEvent
  <2>5. \A d \in t.events : ~IsTerminalEvent(d)
    BY <2>3 DEF EntryInv
  <2>6. ResolveTerminalState(line) # "none"
    BY DEF ResolveTerminalState
  <2> HIDE DEF e, u
  <2>7. \A d \in u.events : d.sequence \in 1..u.last
    BY <2>2, <2>3, <2>4 DEF EntryInv, Event
  <2>8. \A n \in (u.acked + 1)..u.last : \E d \in u.events : d.sequence = n
    <3> SUFFICES ASSUME NEW n \in (u.acked + 1)..u.last
                 PROVE  \E d \in u.events : d.sequence = n
      OBVIOUS
    <3>1. CASE n = t.last + 1
      BY <2>2, <2>4, <3>1
    <3>2. CASE n # t.last + 1
      <4>1. n \in (t.acked + 1)..t.last
        BY <2>2, <2>3, <3>2
      <4> QED  BY <2>2, <4>1 DEF EntryInv
    <3> QED  BY <3>1, <3>2
  <2>9. \A d \in u.events : IsTerminalEvent(d) => d.sequence = u.last
    BY <2>2, <2>4, <2>5
  <2>10. \E d \in u.events : IsTerminalEvent(d) /\ d.sequence = u.last
    BY <2>2, <2>4
  <2>11. EntryInv(u)
    BY <2>2, <2>3, <2>6, <2>7, <2>8, <2>9, <2>10 DEF EntryInv
  <2> QED  BY <1>2, <2>1, <2>2, <2>11
<1> QED  BY <1>1, <1>2

\* What execute() makes of a queued entry: it runs, with its first event.
LEMMA StartedEntry ==
  ASSUME NEW t \in TrackedType, EntryInv(t), t.state = "queued"
  PROVE  /\ EntryInv(Started(t))
         /\ Started(t).state = "running"
         /\ Started(t).outcome = "none"
         /\ Started(t).incarnation = t.incarnation
         /\ Started(t).last = t.last + 1
<1> DEFINE u == [t EXCEPT !.state = "running"]
<1>1. /\ u \in TrackedType /\ u.state = "running" /\ u.outcome = t.outcome
      /\ u.incarnation = t.incarnation /\ u.last = t.last /\ u.acked = t.acked
      /\ u.events = t.events
    BY DEF TrackedType, States
<1>2. t.outcome = "none"
  BY DEF EntryInv
<1>3. EntryInv(u)
  BY <1>1 DEF EntryInv
<1> HIDE DEF u
<1>4. StatusRunning \in LineType /\ ~IsTerminalEvent(StatusRunning)
  BY LineTypes DEF StatusRunning, Line, IsTerminalEvent
<1>5. EntryInv(Emit(u, StatusRunning))
  BY <1>1, <1>3, <1>4, EmitEntry
<1>6. /\ Emit(u, StatusRunning).state = "running" /\ Emit(u, StatusRunning).outcome = u.outcome
      /\ Emit(u, StatusRunning).incarnation = u.incarnation
      /\ Emit(u, StatusRunning).last = u.last + 1
  BY <1>1 DEF Emit, Open, TrackedType
<1> QED  BY <1>1, <1>2, <1>5, <1>6 DEF Started, u

\* An entry without events is right.
LEMMA FreshEntry ==
  ASSUME NEW n \in Nat
  PROVE  /\ EntryInv(Untracked(n)) /\ Untracked(n).state = "untracked"
         /\ Untracked(n).incarnation = n
         /\ Queued(n + 1).state = "queued" /\ Queued(n + 1).incarnation = n + 1
         /\ EntryInv(Queued(n + 1))
BY DEF EntryInv, Untracked, Queued

\* The lines that end a command are terminal, and a plain result is not.
LEMMA TerminalLines ==
  /\ \A line \in {Done, DoneCancelled, ErrorTerminal} :
       line \in LineType /\ IsTerminalEvent(line)
  /\ Result \in LineType /\ ~IsTerminalEvent(Result)
BY LineTypes DEF Result, Done, DoneCancelled, ErrorTerminal, Line, IsTerminalEvent

\* An acknowledgement drops only what it acknowledges.
LEMMA AcknowledgedEntry ==
  ASSUME NEW t \in TrackedType, EntryInv(t), NEW acked \in Nat, t.acked <= acked
  PROVE  LET u == [t EXCEPT !.acked = acked,
                            !.events = IF t.state = "terminal" THEN @
                                       ELSE {e \in @ : e.sequence > acked}]
         IN  EntryInv(u) /\ u.state = t.state /\ u.incarnation = t.incarnation
             /\ u.last = t.last /\ u.outcome = t.outcome
<1> DEFINE kept == IF t.state = "terminal" THEN t.events
                   ELSE {e \in t.events : e.sequence > acked}
           u == [t EXCEPT !.acked = acked, !.events = kept]
<1>1. /\ u.state = t.state /\ u.outcome = t.outcome /\ u.incarnation = t.incarnation
      /\ u.acked = acked /\ u.last = t.last /\ u.events = kept
  BY DEF TrackedType
<1>2. kept \subseteq t.events /\ t.last \in Nat /\ t.acked \in Nat
  BY DEF TrackedType
<1>3. \A n \in (acked + 1)..t.last : \E e \in kept : e.sequence = n
  <2> SUFFICES ASSUME NEW n \in (acked + 1)..t.last
               PROVE  \E e \in kept : e.sequence = n
    OBVIOUS
  <2>1. n \in (t.acked + 1)..t.last /\ n > acked
    BY <1>2
  <2>2. PICK e \in t.events : e.sequence = n
    BY <2>1 DEF EntryInv
  <2> QED  BY <2>1, <2>2
<1>4. t.state = "terminal" => kept = t.events
  OBVIOUS
<1> HIDE DEF kept, u
<1>5. EntryInv(u)
  BY <1>1, <1>2, <1>3, <1>4 DEF EntryInv
<1> QED  BY <1>1, <1>5 DEF u, kept

-----------------------------------------------------------------------------
(* The scheduler.                                                          *)

(***************************************************************************)
(* What is spliced out of the queue is gone and the rest stays, each       *)
(* command as often as before.                                             *)
(***************************************************************************)
LEMMA WithoutKeeps ==
  ASSUME NEW q \in Seq(Commands), NEW P, NEW rest \in Without(q, P)
  PROVE  /\ (\A i, j \in DOMAIN q : q[i] = q[j] => i = j)
              => \A i, j \in DOMAIN rest : rest[i] = rest[j] => i = j
         /\ \A i \in DOMAIN rest : \E j \in DOMAIN q \ P : rest[i] = q[j]
         /\ \A j \in DOMAIN q \ P : \E i \in DOMAIN rest : rest[i] = q[j]
<1> DEFINE S == DOMAIN q \ P
<1>1. DOMAIN q = 1..Len(q) /\ Len(q) \in Nat
  OBVIOUS
<1>2. IsFiniteSet(1..Len(q))
  BY <1>1, FS_Interval
<1>3. Cardinality(S) \in Nat
  BY <1>1, <1>2, FS_Subset, FS_CardinalityType
<1>4. PICK f \in Enumerations(S) : rest = [i \in DOMAIN f |-> q[f[i]]]
  BY DEF Without
<1>5. PICK k \in 0..Cardinality(S) : f \in [1..k -> S]
  BY <1>4 DEF Enumerations
<1>6. /\ \A s \in S : \E i \in 1..k : f[i] = s
      /\ \A i, j \in 1..k : i < j => f[i] < f[j]
  BY <1>4, <1>5 DEF Enumerations
<1>7. DOMAIN rest = 1..k /\ k \in Nat /\ \A i \in 1..k : rest[i] = q[f[i]] /\ f[i] \in S
  BY <1>3, <1>4, <1>5
<1>8. \A i, j \in 1..k : f[i] = f[j] => i = j
  <2> SUFFICES ASSUME NEW i \in 1..k, NEW j \in 1..k, i < j, f[i] = f[j]
               PROVE  FALSE
    BY <1>7
  <2>1. f[i] < f[j] /\ f[i] \in Nat
    BY <1>1, <1>6, <1>7
  <2> QED  BY <2>1
<1> HIDE DEF S
<1>9. ASSUME \A i, j \in DOMAIN q : q[i] = q[j] => i = j
      PROVE  \A i, j \in DOMAIN rest : rest[i] = rest[j] => i = j
  BY <1>7, <1>8, <1>9 DEF S
<1>10. \A j \in S : \E i \in DOMAIN rest : rest[i] = q[j]
  BY <1>6, <1>7
<1> QED  BY <1>7, <1>9, <1>10 DEF S

(***************************************************************************)
(* schedule() keeps queue, tracking map, in-flight map and executions in   *)
(* agreement: what it takes from the queue it starts, and nothing else.    *)
(***************************************************************************)
LEMMA ScheduleKeepsLinks ==
  ASSUME NEW link, NEW q \in Seq(Commands), NEW trk \in [Commands -> TrackedType],
         NEW rs \in SUBSET RunType, NEW flying \in [Commands -> Nat], NEW owners,
         Schedule(link, q, trk, rs, flying, owners),
         Entries(trk), Linked(q, trk, rs, flying)
  PROVE  /\ Entries(tracked') /\ Linked(queue', tracked', runs', inFlight')
         /\ \A c \in Commands : \/ tracked'[c] = trk[c]
                                \/ trk[c].state = "queued" /\ tracked'[c] = Started(trk[c])
<1>1. CASE ~link
  BY <1>1 DEF Schedule
<1>2. CASE link
  <2>1. PICK P \in SUBSET (DOMAIN q) :
          LET started == {q[i] : i \in P}
          IN  /\ queue' \in Without(q, P)
              /\ tracked' = [c \in Commands |->
                               IF c \in started THEN Started(trk[c]) ELSE trk[c]]
              /\ runs' = rs \cup {NewRun(c, trk[c].incarnation) : c \in started}
              /\ inFlight' = [c \in Commands |->
                               IF c \in started THEN trk[c].incarnation
                                                ELSE flying[c]]
    BY <1>2 DEF Schedule
  <2> DEFINE started == {q[i] : i \in P}
             fresh == {NewRun(c, trk[c].incarnation) : c \in started}
  <2>2. started \subseteq Commands
    OBVIOUS
  <2>3. \A c \in started : trk[c].state = "queued"
    <3> SUFFICES ASSUME NEW i \in P PROVE trk[q[i]].state = "queued"
      OBVIOUS
    <3>1. i \in DOMAIN q /\ q[i] \in Commands
      OBVIOUS
    <3> QED  BY <3>1 DEF Linked, QueueAgrees
  <2>4. \A c \in started : \A r \in rs : r.command # c
    BY <2>3 DEF Linked, RunsAgree
  <2>5. \A r \in fresh : /\ r.command \in started
                         /\ r.incarnation = trk[r.command].incarnation
                         /\ r = NewRun(r.command, trk[r.command].incarnation)
                         /\ ~r.emittedTerminal
    BY DEF NewRun
  <2>6. \A c \in started : \E r \in fresh : r.command = c
    <3> SUFFICES ASSUME NEW c \in started PROVE \E r \in fresh : r.command = c
      OBVIOUS
    <3> WITNESS NewRun(c, trk[c].incarnation) \in fresh
    <3> QED  BY DEF NewRun
  <2>7. /\ \A i, j \in DOMAIN queue' : queue'[i] = queue'[j] => i = j
        /\ \A i \in DOMAIN queue' : \E j \in DOMAIN q \ P : queue'[i] = q[j]
        /\ \A j \in DOMAIN q \ P : \E i \in DOMAIN queue' : queue'[i] = q[j]
    BY <2>1, WithoutKeeps DEF Linked, QueueAgrees
  <2>8. \A c \in started : /\ EntryInv(Started(trk[c])) /\ Started(trk[c]).state = "running"
                           /\ Started(trk[c]).incarnation = trk[c].incarnation
    BY <2>2, <2>3, StartedEntry DEF Entries
  <2>9. /\ runs' = rs \cup fresh
        /\ \A c \in Commands :
             /\ tracked'[c] = IF c \in started THEN Started(trk[c]) ELSE trk[c]
             /\ inFlight'[c] = IF c \in started THEN trk[c].incarnation ELSE flying[c]
    BY <2>1
  <2>10. \A j \in DOMAIN q \ P : q[j] \notin started /\ q[j] \in Commands
    BY DEF Linked, QueueAgrees
  <2>11. \A i \in P : q[i] \in started
    OBVIOUS
  <2>12. \A r \in rs : r.command \in Commands
    BY DEF RunType
  <2> HIDE DEF started, fresh
  <2>13. Entries(tracked')
    BY <2>8, <2>9 DEF Entries
  <2>14. QueueAgrees(queue', tracked')
    <3> SUFFICES ASSUME NEW c \in Commands
                 PROVE  tracked'[c].state = "queued" <=> \E i \in DOMAIN queue' : queue'[i] = c
      BY <2>7 DEF QueueAgrees
    <3>1. CASE c \in started
      <4>1. tracked'[c].state = "running"
        BY <2>8, <2>9, <3>1
      <4> QED  BY <2>7, <2>10, <3>1, <4>1
    <3>2. CASE c \notin started
      <4>1. tracked'[c] = trk[c]
        BY <2>9, <3>2
      <4>2. trk[c].state = "queued" <=> \E j \in DOMAIN q : q[j] = c
        BY DEF Linked, QueueAgrees
      <4>3. (\E j \in DOMAIN q : q[j] = c) <=> (\E j \in DOMAIN q \ P : q[j] = c)
        BY <2>11, <3>2
      <4> QED  BY <2>7, <4>1, <4>2, <4>3
    <3> QED  BY <3>1, <3>2
  <2>15. RunsAgree(tracked', runs', inFlight')
    <3>1. ASSUME NEW r \in runs'
          PROVE  /\ tracked'[r.command].state \in {"running", "terminal"}
                 /\ tracked'[r.command].incarnation = r.incarnation
                 /\ inFlight'[r.command] = r.incarnation
                 /\ r.emittedTerminal => tracked'[r.command].state = "terminal"
      <4>1. CASE r \in rs
        <5>1. r.command \notin started /\ r.command \in Commands
          BY <2>4, <2>12, <4>1
        <5> QED  BY <2>9, <4>1, <5>1 DEF Linked, RunsAgree
      <4>2. CASE r \in fresh
        BY <2>2, <2>5, <2>8, <2>9, <4>2
      <4> QED  BY <2>9, <4>1, <4>2
    <3>2. ASSUME NEW c \in Commands, tracked'[c].state = "running" \/ inFlight'[c] # 0
          PROVE  \E r \in runs' : r.command = c
      <4>1. CASE c \in started
        BY <2>6, <2>9, <4>1
      <4>2. CASE c \notin started
        BY <2>9, <3>2, <4>2 DEF Linked, RunsAgree
      <4> QED  BY <4>1, <4>2
    <3> QED  BY <3>1, <3>2 DEF RunsAgree
  <2>16. Apart(runs')
    <3> SUFFICES ASSUME NEW r \in rs \cup fresh, NEW s \in rs \cup fresh,
                        r.command = s.command
                 PROVE  r = s
      BY <2>9 DEF Apart
    <3>1. CASE r \in rs /\ s \in rs
      BY <3>1 DEF Linked, Apart
    <3>2. CASE r \in fresh /\ s \in fresh
      BY <2>5, <3>2
    <3>3. CASE r \in rs /\ s \in fresh
      BY <2>4, <2>5, <3>3
    <3>4. CASE r \in fresh /\ s \in rs
      BY <2>4, <2>5, <3>4
    <3> QED  BY <3>1, <3>2, <3>3, <3>4
  <2>17. \A c \in Commands : \/ tracked'[c] = trk[c]
                             \/ trk[c].state = "queued" /\ tracked'[c] = Started(trk[c])
    BY <2>3, <2>9
  <2> QED  BY <2>13, <2>14, <2>15, <2>16, <2>17 DEF Linked
<1> QED  BY <1>1, <1>2

(***************************************************************************)
(* A pass of schedule() that picks any position picks a last one.          *)
(***************************************************************************)
LEMMA LastPosition ==
  ASSUME NEW n \in Nat, NEW P \in SUBSET (1..n), P # {}
  PROVE  \E m \in P : \A i \in P : i <= m
<1> DEFINE Above(i) == {k \in P : k > i}
           T == {Above(i) : i \in P}
<1>1. IsFiniteSet(P)
  <2>1. IsFiniteSet(1..n)
    BY FS_Interval
  <2> QED  BY <2>1, FS_Subset
<1>2. T \subseteq FiniteSubsetsOf(P)
  <2> SUFFICES ASSUME NEW i \in P PROVE Above(i) \in FiniteSubsetsOf(P)
    OBVIOUS
  <2>1. Above(i) \in SUBSET P
    OBVIOUS
  <2> HIDE DEF Above
  <2> QED  BY <1>1, <2>1, FS_Subset DEF FiniteSubsetsOf
<1>3. T # {}
  OBVIOUS
<1>4. PICK A \in T : \A B \in T : <<B, A>> \notin StrictSubsetOrdering(P)
  <2>1. IsWellFoundedOn(StrictSubsetOrdering(P), FiniteSubsetsOf(P))
    BY FS_StrictSubsetOrderingWellFounded
  <2> HIDE DEF T
  <2> QED  BY <1>2, <1>3, <2>1, WFMin
<1>5. PICK m \in P : A = Above(m)
  BY <1>4
<1>6. ASSUME NEW k \in Above(m)
      PROVE  FALSE
  <2>1. k \in P /\ k \in Nat /\ m \in Nat /\ k > m
    OBVIOUS
  <2>2. Above(k) \subseteq A /\ k \in A /\ k \notin Above(k)
    <3>1. \A j \in P : j > k => j > m
      BY <2>1
    <3>2. ~(k > k)
      BY <2>1
    <3> QED  BY <1>5, <2>1, <3>1, <3>2
  <2>3. Above(k) \in T
    BY <2>1
  <2>4. Above(k) \in SUBSET P /\ A \in SUBSET P
    BY <1>5
  <2> HIDE DEF Above, T
  <2>5. <<Above(k), A>> \in StrictSubsetOrdering(P)
    BY <2>2, <2>4 DEF StrictSubsetOrdering
  <2> QED  BY <1>4, <2>3, <2>5
<1>7. \A i \in P : i \in Nat
  OBVIOUS
<1> QED  BY <1>6, <1>7

\* A limit is a positive number, and the commands in flight are finitely many.
LEMMA LimitType ==
  /\ Limit \in Nat \ {0}
  /\ \A flying : /\ IsFiniteSet(InFlightIds(flying))
                 /\ Cardinality(InFlightIds(flying)) \in Nat
<1>1. Limit \in Nat \ {0}
  BY ExecutorAssumption DEF Limit
<1>2. \A flying : InFlightIds(flying) \in SUBSET Commands
  BY DEF InFlightIds
<1> QED  BY <1>1, <1>2, ExecutorAssumption, FS_Subset, FS_CardinalityType

(***************************************************************************)
(* schedule() fills the limit and never passes it: the last command it     *)
(* picks still found room for one.                                         *)
(***************************************************************************)
LEMMA PickedWithinLimit ==
  ASSUME NEW q \in Seq(Commands), NEW P \in SUBSET (DOMAIN q),
         NEW flying, NEW owners, IsSchedule(P, q, flying, owners),
         Cardinality(InFlightIds(flying)) <= Limit
  PROVE  Cardinality(InFlightIds(flying) \cup {q[i] : i \in P}) <= Limit
<1> DEFINE busy == InFlightIds(flying)
<1>1. CASE P = {}
  <2>1. busy \cup {q[i] : i \in P} = busy
    BY <1>1
  <2> QED  BY <2>1
<1>2. CASE P # {}
  <2>1. DOMAIN q = 1..Len(q) /\ Len(q) \in Nat
    OBVIOUS
  <2>2. PICK m \in P : \A i \in P : i <= m
    BY <1>2, <2>1, LastPosition
  <2> DEFINE before == {q[j] : j \in {k \in P : k < m}}
             S == busy \cup before
  <2>3. Cardinality(S) < Limit
    BY DEF IsSchedule, CanStart
  <2>4. \A i \in P : i = m \/ i < m
    BY <2>1, <2>2
  <2>5. busy \cup {q[i] : i \in P} = S \cup {q[m]}
    BY <2>4
  <2>6. S \in SUBSET Commands
    BY DEF InFlightIds
  <2>7. IsFiniteSet(S)
    BY <2>6, ExecutorAssumption, FS_Subset
  <2> HIDE DEF S, busy
  <2>8. /\ Cardinality(S) \in Nat
        /\ Cardinality(S \cup {q[m]}) = IF q[m] \in S THEN Cardinality(S) ELSE Cardinality(S) + 1
    BY <2>7, FS_AddElement, FS_CardinalityType
  <2>9. Cardinality(S \cup {q[m]}) <= Limit
    BY <2>3, <2>8, LimitType
  <2> QED  BY <2>5, <2>9 DEF busy
<1> QED  BY <1>1, <1>2

\* So the in-flight map schedule() leaves is within the limit.
LEMMA ScheduleWithinLimit ==
  ASSUME NEW link, NEW q \in Seq(Commands), NEW trk \in [Commands -> TrackedType],
         NEW rs, NEW flying \in [Commands -> Nat], NEW owners,
         Schedule(link, q, trk, rs, flying, owners),
         Cardinality(InFlightIds(flying)) <= Limit
  PROVE  Cardinality(InFlightIds(inFlight')) <= Limit
<1>1. CASE ~link
  BY <1>1 DEF Schedule
<1>2. CASE link
  <2>1. PICK P \in SUBSET (DOMAIN q) :
          LET started == {q[i] : i \in P}
          IN  /\ IsSchedule(P, q, flying, owners)
              /\ inFlight' = [c \in Commands |->
                               IF c \in started THEN trk[c].incarnation
                                                ELSE flying[c]]
    BY <1>2 DEF Schedule
  <2> DEFINE busy == InFlightIds(flying) \cup {q[i] : i \in P}
  <2>2. Cardinality(busy) <= Limit
    BY <2>1, PickedWithinLimit
  <2>3. InFlightIds(inFlight') \in SUBSET busy
    BY <2>1 DEF InFlightIds
  <2>4. busy \in SUBSET Commands
    BY DEF InFlightIds
  <2>5. IsFiniteSet(busy) /\ Cardinality(busy) \in Nat
    BY <2>4, ExecutorAssumption, FS_Subset, FS_CardinalityType
  <2> HIDE DEF busy
  <2>6. Cardinality(InFlightIds(inFlight')) <= Cardinality(busy)
    BY <2>3, <2>5, FS_Subset
  <2> QED  BY <2>2, <2>5, <2>6, LimitType
<1> QED  BY <1>1, <1>2

(***************************************************************************)
(* What keeps a queued command waiting in one state: the limit or its lock.*)
(***************************************************************************)
Blocked(c, flying, owners) ==
  Cardinality(InFlightIds(flying)) >= Limit \/ ~LockIsFree(c, owners)

\* A position passed over first is one whose command is blocked.
LEMMA BlockedPosition ==
  ASSUME NEW q, NEW i, NEW flying, NEW owners
  PROVE  CanStart(i, {}, q, flying, owners) <=> ~Blocked(q[i], flying, owners)
<1>1. {q[j] : j \in {k \in {} : k < i}} = {}
  OBVIOUS
<1>2. InFlightIds(flying) \cup {} = InFlightIds(flying)
  OBVIOUS
<1> QED  BY <1>1, <1>2, LimitType DEF CanStart, Blocked

(***************************************************************************)
(* What schedule() leaves in the queue cannot start: the limit is reached  *)
(* or the lock is taken, by then or by one of the commands it started.     *)
(***************************************************************************)
LEMMA ScheduleStrandsNone ==
  ASSUME NEW link, NEW q \in Seq(Commands), NEW trk \in [Commands -> TrackedType],
         NEW rs, NEW flying \in [Commands -> Nat],
         NEW owners \in [LockKeys -> Commands \cup {Nobody}],
         Schedule(link, q, trk, rs, flying, owners),
         \A i \in DOMAIN q : trk[q[i]].incarnation > 0
  PROVE  /\ \A i \in DOMAIN queue' : \E j \in DOMAIN q : queue'[i] = q[j]
         /\ \A c \in Commands : tracked'[c].incarnation = trk[c].incarnation
         /\ link => \A i \in DOMAIN queue' : Blocked(queue'[i], inFlight', lockOwners')
<1>1. CASE ~link
  BY <1>1 DEF Schedule
<1>2. CASE link
  <2>1. PICK P \in SUBSET (DOMAIN q) :
          LET started == {q[i] : i \in P}
          IN  /\ IsSchedule(P, q, flying, owners)
              /\ queue' \in Without(q, P)
              /\ tracked' = [c \in Commands |->
                               IF c \in started THEN Started(trk[c]) ELSE trk[c]]
              /\ inFlight' = [c \in Commands |->
                               IF c \in started THEN trk[c].incarnation
                                                ELSE flying[c]]
              /\ lockOwners' = [k \in LockKeys |->
                                 IF \E c \in started : DeriveLockKey(c) = k
                                 THEN CHOOSE c \in started : DeriveLockKey(c) = k
                                 ELSE owners[k]]
    BY <1>2 DEF Schedule
  <2> DEFINE started == {q[i] : i \in P}
  <2>2. started \subseteq Commands /\ \A c \in started : trk[c].incarnation > 0
    OBVIOUS
  <2>3. \A i \in DOMAIN queue' : \E j \in DOMAIN q \ P : queue'[i] = q[j]
    BY <2>1, WithoutKeeps
  <2>4. ASSUME NEW c \in Commands
        PROVE  tracked'[c].incarnation = trk[c].incarnation
    <3>1. \A t \in TrackedType : Started(t).incarnation = t.incarnation
      BY DEF Started, Emit, TrackedType
    <3> QED  BY <2>1, <3>1
  <2>5. ASSUME NEW c \in Commands, ~LockIsFree(c, owners)
        PROVE  ~LockIsFree(c, lockOwners')
    <3>1. DeriveLockKey(c) \in LockKeys /\ owners[DeriveLockKey(c)] # Nobody
      BY <2>5, DeriveLockKeyType DEF LockIsFree
    <3>2. lockOwners'[DeriveLockKey(c)] # Nobody
      BY <2>1, <2>2, <3>1, ExecutorAssumption
    <3> QED  BY <2>5, <3>2 DEF LockIsFree
  <2>6. ASSUME NEW c \in Commands, NEW d \in started,
               DeriveLockKey(d) # NoLock, DeriveLockKey(d) = DeriveLockKey(c)
        PROVE  ~LockIsFree(c, lockOwners')
    <3>1. DeriveLockKey(c) \in LockKeys
      BY <2>6, DeriveLockKeyType
    <3>2. lockOwners'[DeriveLockKey(c)] # Nobody
      BY <2>1, <2>2, <2>6, <3>1, ExecutorAssumption
    <3> QED  BY <2>6, <3>2 DEF LockIsFree
  <2>7. ASSUME NEW j \in DOMAIN q \ P
        PROVE  Blocked(q[j], inFlight', lockOwners')
    <3> DEFINE before == {q[i] : i \in {k \in P : k < j}}
    <3>1. q[j] \in Commands /\ before \subseteq started
      OBVIOUS
    <3>2. ~CanStart(j, P, q, flying, owners)
      BY <2>1 DEF IsSchedule
    <3>3. \/ ~(Cardinality(InFlightIds(flying) \cup before) < Limit)
          \/ ~LockIsFree(q[j], owners)
          \/ \E d \in before : DeriveLockKey(d) # NoLock /\ DeriveLockKey(d) = DeriveLockKey(q[j])
      BY <3>2 DEF CanStart
    <3>4. CASE ~(Cardinality(InFlightIds(flying) \cup before) < Limit)
      <4> DEFINE S == InFlightIds(flying) \cup before
      <4>1. S \in SUBSET InFlightIds(inFlight')
        BY <2>1, <2>2, <3>1 DEF InFlightIds
      <4> HIDE DEF before
      <4>2. Cardinality(S) <= Cardinality(InFlightIds(inFlight')) /\ Cardinality(S) \in Nat
        BY <4>1, LimitType, FS_Subset, FS_CardinalityType
      <4> HIDE DEF S
      <4> QED  BY <3>4, <4>2, LimitType DEF Blocked, S
    <3>5. CASE ~LockIsFree(q[j], owners)
      BY <2>5, <3>1, <3>5 DEF Blocked
    <3>6. ASSUME NEW d \in before, DeriveLockKey(d) # NoLock, DeriveLockKey(d) = DeriveLockKey(q[j])
          PROVE  Blocked(q[j], inFlight', lockOwners')
      BY <2>6, <3>1, <3>6 DEF Blocked
    <3> QED  BY <3>3, <3>4, <3>5, <3>6
  <2>8. \A i \in DOMAIN queue' : Blocked(queue'[i], inFlight', lockOwners')
    BY <2>3, <2>7
  <2> QED  BY <2>3, <2>4, <2>8
<1> QED  BY <1>1, <1>2

-----------------------------------------------------------------------------
(* Executions.                                                             *)

\* What one step of an execution may make of the entry of its command.
Emits(t, u) ==
  /\ t.state = "running" /\ u.state = "running"
  /\ u.outcome = t.outcome /\ u.last = t.last + 1

Ends(t, u) ==
  /\ t.state = "running" /\ u.state = "terminal"
  /\ u.outcome \in {"done", "failed", "cancelled"}
  /\ u.last \in {t.last + 1, t.last + 2}

Advances(t, u) ==
  EntryInv(u) /\ u.incarnation = t.incarnation /\ (u = t \/ Emits(t, u) \/ Ends(t, u))

\* A terminal line concludes a running entry and leaves any other alone.
LEMMA ConcludeAdvances ==
  ASSUME NEW t \in TrackedType, EntryInv(t), NEW line \in LineType, IsTerminalEvent(line),
         t.state # "queued"
  PROVE  /\ Conclude(t, line) \in TrackedType
         /\ Advances(t, Conclude(t, line))
         /\ t.state = "running" => Conclude(t, line).last = t.last + 1
         /\ t.state \in {"running", "terminal"} => Conclude(t, line).state = "terminal"
         /\ t.state = "untracked" => Conclude(t, line) = t
<1>1. Conclude(t, line) \in TrackedType
  BY ConcludeType
<1>2. CASE ~Open(t)
  <2>1. Conclude(t, line) = t
    BY <1>2, ConcludeEntry
  <2>2. t.state # "running"
    BY <1>2 DEF Open
  <2> QED  BY <1>1, <2>1, <2>2 DEF Advances
<1>3. CASE Open(t)
  <2>1. t.state = "running"
    BY <1>3 DEF Open, TrackedType, States
  <2>2. ResolveTerminalState(line) \in {"done", "failed", "cancelled"}
    BY DEF ResolveTerminalState
  <2>3. /\ EntryInv(Conclude(t, line)) /\ Conclude(t, line).incarnation = t.incarnation
        /\ Conclude(t, line).state = "terminal"
        /\ Conclude(t, line).outcome = ResolveTerminalState(line)
        /\ Conclude(t, line).last = t.last + 1
    BY <1>3, ConcludeEntry
  <2> QED  BY <1>1, <2>1, <2>2, <2>3 DEF Advances, Ends
<1> QED  BY <1>2, <1>3

\* A result followed by the terminal event, as a body that was read gives.
LEMMA ResultAdvances ==
  ASSUME NEW t \in TrackedType, EntryInv(t), t.state # "queued"
  PROVE  /\ Emit(t, Result) \in TrackedType
         /\ EntryInv(Emit(t, Result))
         /\ Emit(t, Result).state = t.state
         /\ Conclude(Emit(t, Result), Done) \in TrackedType
         /\ Advances(t, Conclude(Emit(t, Result), Done))
         /\ t.state \in {"running", "terminal"} =>
              Conclude(Emit(t, Result), Done).state = "terminal"
         /\ t.state = "untracked" => Conclude(Emit(t, Result), Done) = t
<1> DEFINE u == Emit(t, Result)
           v == Conclude(u, Done)
<1>1. u \in TrackedType /\ EntryInv(u)
  BY TerminalLines, EmitType, EmitEntry
<1>2. u = t \/ (Open(t) /\ u.last = t.last + 1)
  BY DEF Emit, TrackedType
<1>3. u.state = t.state /\ u.incarnation = t.incarnation
  BY DEF Emit, TrackedType
<1>4. t.last \in Nat /\ (Open(t) => t.state = "running")
  BY DEF TrackedType, States, Open
<1> HIDE DEF u
<1>5. /\ v \in TrackedType /\ Advances(u, v)
      /\ u.state = "running" => v.last = u.last + 1
      /\ u.state \in {"running", "terminal"} => v.state = "terminal"
      /\ u.state = "untracked" => v = u
  BY <1>1, <1>3, TerminalLines, ConcludeAdvances
<1>6. u = t => Advances(t, v)
  BY <1>5
<1>7. ASSUME u # t
      PROVE  Advances(t, v)
  <2>1. t.state = "running" /\ u.last = t.last + 1 /\ v.state = "terminal"
    BY <1>2, <1>3, <1>4, <1>5, <1>7
  <2>2. EntryInv(v) /\ v.incarnation = t.incarnation /\ Ends(u, v)
    BY <1>3, <1>5, <2>1 DEF Advances, Emits
  <2>3. v.last = t.last + 2 /\ v.outcome \in {"done", "failed", "cancelled"}
    BY <1>3, <1>4, <1>5, <2>1, <2>2 DEF Ends
  <2> QED  BY <2>1, <2>2, <2>3 DEF Advances, Ends
<1>8. t.state = "untracked" => u = t
  BY <1>2, <1>4
<1> QED  BY <1>1, <1>3, <1>5, <1>6, <1>7, <1>8 DEF u

(***************************************************************************)
(* An execution ends with its entry concluded, or goes on: by itself, with *)
(* a further event, or past the terminal line of its stream.  After        *)
(* dispose() there is no entry, and nothing it does creates one.           *)
(***************************************************************************)
RunEnds(r, entry) ==
  /\ Finish(r, [tracked EXCEPT ![r.command] = entry])
  /\ disposed => entry = tracked[r.command]
  /\ ~disposed => entry.state = "terminal"

RunGoesOn(r, changed, entry) ==
  /\ SetRun(r, changed)
  /\ changed.command = r.command /\ changed.incarnation = r.incarnation
  /\ tracked' = [tracked EXCEPT ![r.command] = entry]
  /\ disposed => entry = tracked[r.command]
  /\ ~disposed /\ changed.emittedTerminal => entry.state = "terminal"

\* Every step of an execution advances its entry; the execution ends or goes
\* on.
LEMMA ExecutionSteps ==
  ASSUME ServiceInv, NEW r \in runs,
         Settles(r) \/ TimeoutFires(r) \/ \E line \in Lines : StreamLine(r, line)
  PROVE  \E entry \in TrackedType :
           /\ Advances(tracked[r.command], entry)
           /\ RunEnds(r, entry) \/ \E changed \in RunType : RunGoesOn(r, changed, entry)
<1> DEFINE t == tracked[r.command]
           Goal == \E entry \in TrackedType :
                     /\ Advances(t, entry)
                     /\ \/ RunEnds(r, entry)
                        \/ \E changed \in RunType : RunGoesOn(r, changed, entry)
<1> SUFFICES Goal
  OBVIOUS
<1>1. /\ r \in RunType /\ r.command \in Commands /\ t \in TrackedType
      /\ tracked \in [Commands -> TrackedType] /\ EntryInv(t)
  BY DEF ServiceInv, LockInv, TypeOK, RunType, Entries
<1>2. disposed => t.state = "untracked"
  BY <1>1 DEF ServiceInv
<1>3. ~disposed => t.state \in {"running", "terminal"} /\ t.incarnation = r.incarnation
                   /\ (r.emittedTerminal => t.state = "terminal")
  BY DEF ServiceInv, Linked, RunsAgree
<1>4. t.state # "queued" /\ Advances(t, t) /\ tracked = [tracked EXCEPT ![r.command] = t]
  BY <1>1, <1>2, <1>3 DEF Advances
<1> HIDE DEF t, Goal
<1>5. ASSUME NEW entry \in TrackedType, Advances(t, entry),
             Finish(r, [tracked EXCEPT ![r.command] = entry]),
             t.state = "untracked" => entry = t,
             t.state \in {"running", "terminal"} => entry.state = "terminal"
      PROVE  Goal
  BY <1>2, <1>3, <1>5 DEF RunEnds, Goal, t
<1>6. ASSUME NEW entry \in TrackedType, Advances(t, entry), NEW changed \in RunType,
             SetRun(r, changed), changed.command = r.command,
             changed.incarnation = r.incarnation,
             tracked' = [tracked EXCEPT ![r.command] = entry],
             t.state = "untracked" => entry = t,
             t.state \in {"running", "terminal"} /\ changed.emittedTerminal
               => entry.state = "terminal"
      PROVE  Goal
  BY <1>2, <1>3, <1>6 DEF RunGoesOn, Goal, t
<1>7. ASSUME NEW changed \in RunType, SetRun(r, changed), tracked' = tracked,
             changed.command = r.command, changed.incarnation = r.incarnation,
             changed.emittedTerminal = r.emittedTerminal
      PROVE  Goal
  <2>1. t.state \in {"running", "terminal"} /\ changed.emittedTerminal => t.state = "terminal"
    BY <1>2, <1>3, <1>7
  <2> QED  BY <1>1, <1>4, <1>6, <1>7, <2>1
<1>8. \A phase \in Phases :
        LET u == [r EXCEPT !.phase = phase]
        IN  /\ u \in RunType /\ u.command = r.command /\ u.incarnation = r.incarnation
            /\ u.emittedTerminal = r.emittedTerminal
  BY <1>1 DEF RunType
<1>9. CASE Fail(r)
  <2> DEFINE entry == IF disposed THEN MarkTerminal(t, "failed")
                                  ELSE Conclude(t, FailureLine(r))
  <2>1. Finish(r, [tracked EXCEPT ![r.command] = entry])
    BY <1>9 DEF Fail, t
  <2>2. CASE disposed
    <3>1. entry = t
      BY <1>2, <2>2 DEF MarkTerminal, Open
    <3> QED  BY <1>1, <1>2, <1>4, <1>5, <2>1, <2>2, <3>1
  <2>3. CASE ~disposed
    <3>1. FailureLine(r) \in LineType /\ IsTerminalEvent(FailureLine(r))
      BY TerminalLines DEF FailureLine
    <3>2. entry = Conclude(t, FailureLine(r))
      BY <2>3
    <3> HIDE DEF entry
    <3>3. /\ entry \in TrackedType /\ Advances(t, entry)
          /\ t.state \in {"running", "terminal"} => entry.state = "terminal"
          /\ t.state = "untracked" => entry = t
      BY <1>1, <1>4, <3>1, <3>2, ConcludeAdvances
    <3> QED  BY <1>5, <2>1, <3>3
  <2> QED  BY <2>2, <2>3
<1>10. CASE PrepareResolves(r) /\ ~Aborted(r)
  <2>1. SetRun(r, [r EXCEPT !.phase = "fetching"]) /\ tracked' = tracked
    BY <1>10 DEF PrepareResolves
  <2> QED  BY <1>7, <1>8, <2>1 DEF Phases
<1>11. CASE PrepareResolves(r) /\ Aborted(r)
  BY <1>9, <1>11 DEF PrepareResolves
<1>12. CASE PrepareRejects(r) \/ FetchRejects(r) \/ ErrorBodyRead(r) \/ StreamBreaks(r)
  BY <1>9, <1>12 DEF PrepareRejects, FetchRejects, ErrorBodyRead, StreamBreaks
<1>13. ASSUME NEW kind \in {"body", "errorBody", "streaming"}, ResponseArrives(r, kind)
       PROVE  Goal
  <2>1. SetRun(r, [r EXCEPT !.phase = kind]) /\ tracked' = tracked
    BY <1>13 DEF ResponseArrives
  <2> QED  BY <1>7, <1>8, <2>1 DEF Phases
<1>14. CASE EmptyStream(r)
  <2> DEFINE entry == IF t.incarnation = r.incarnation /\ t.outcome = "none"
                      THEN Conclude(t, Done) ELSE t
  <2>1. Finish(r, [tracked EXCEPT ![r.command] = entry])
    BY <1>14 DEF EmptyStream, t
  <2>2. /\ Conclude(t, Done) \in TrackedType /\ Advances(t, Conclude(t, Done))
        /\ t.state \in {"running", "terminal"} => Conclude(t, Done).state = "terminal"
        /\ t.state = "untracked" => Conclude(t, Done) = t
    BY <1>1, <1>4, TerminalLines, ConcludeAdvances
  <2>3. t.state \in {"running", "terminal"} /\ ~(t.incarnation = r.incarnation /\ t.outcome = "none")
          => t.state = "terminal"
    BY <1>1, <1>2, <1>3 DEF EntryInv
  <2>4. /\ entry \in TrackedType /\ Advances(t, entry)
        /\ t.state \in {"running", "terminal"} => entry.state = "terminal"
        /\ t.state = "untracked" => entry = t
    BY <1>1, <1>4, <2>2, <2>3
  <2> HIDE DEF entry
  <2> QED  BY <1>5, <2>1, <2>4
<1>15. CASE BodyRead(r)
  <2> DEFINE entry == Conclude(Emit(t, Result), Done)
  <2>1. Finish(r, [tracked EXCEPT ![r.command] = entry])
    BY <1>15 DEF BodyRead, t
  <2>2. /\ entry \in TrackedType /\ Advances(t, entry)
        /\ t.state \in {"running", "terminal"} => entry.state = "terminal"
        /\ t.state = "untracked" => entry = t
    BY <1>1, <1>4, ResultAdvances
  <2> HIDE DEF entry
  <2> QED  BY <1>5, <2>1, <2>2
<1>16. CASE StreamEnds(r) /\ r.emittedTerminal
  <2>1. Finish(r, [tracked EXCEPT ![r.command] = t])
    BY <1>4, <1>16 DEF StreamEnds
  <2>2. t.state \in {"running", "terminal"} => t.state = "terminal"
    BY <1>2, <1>3, <1>16
  <2> QED  BY <1>1, <1>4, <1>5, <2>1, <2>2
<1>17. CASE StreamEnds(r) /\ ~r.emittedTerminal
  <2>1. Finish(r, [tracked EXCEPT ![r.command] = Conclude(t, Done)])
    BY <1>17 DEF StreamEnds, t
  <2>2. /\ Conclude(t, Done) \in TrackedType /\ Advances(t, Conclude(t, Done))
        /\ t.state \in {"running", "terminal"} => Conclude(t, Done).state = "terminal"
        /\ t.state = "untracked" => Conclude(t, Done) = t
    BY <1>1, <1>4, TerminalLines, ConcludeAdvances
  <2> QED  BY <1>5, <2>1, <2>2
<1>18. CASE TimeoutFires(r)
  <2> DEFINE u == [r EXCEPT !.timer = FALSE, !.timedOut = TRUE]
  <2>1. SetRun(r, u) /\ tracked' = tracked
    BY <1>18 DEF TimeoutFires
  <2>2. /\ u \in RunType /\ u.command = r.command /\ u.incarnation = r.incarnation
        /\ u.emittedTerminal = r.emittedTerminal
    BY <1>1 DEF RunType
  <2> HIDE DEF u
  <2> QED  BY <1>7, <2>1, <2>2
<1>19. ASSUME NEW line \in Lines, StreamLine(r, line)
       PROVE  Goal
  <2> DEFINE u == [r EXCEPT !.emittedTerminal = @ \/ IsTerminalEvent(line)]
  <2>1. SetRun(r, u) /\ line \in LineType
    BY <1>19, ExecutorAssumption DEF StreamLine
  <2>2. IsTerminalEvent(line) \in BOOLEAN /\ r.emittedTerminal \in BOOLEAN
    BY <1>1 DEF IsTerminalEvent, RunType
  <2>3. /\ u \in RunType /\ u.command = r.command /\ u.incarnation = r.incarnation
        /\ u.emittedTerminal = (r.emittedTerminal \/ IsTerminalEvent(line))
    BY <1>1, <2>2 DEF RunType
  <2> HIDE DEF u
  <2>4. CASE IsTerminalEvent(line)
    <3>1. tracked' = [tracked EXCEPT ![r.command] = Conclude(t, line)]
      BY <1>19, <2>4 DEF StreamLine, t
    <3>2. /\ Conclude(t, line) \in TrackedType /\ Advances(t, Conclude(t, line))
          /\ t.state \in {"running", "terminal"} => Conclude(t, line).state = "terminal"
          /\ t.state = "untracked" => Conclude(t, line) = t
      BY <1>1, <1>4, <2>1, <2>4, ConcludeAdvances
    <3> QED  BY <1>6, <2>1, <2>3, <3>1, <3>2
  <2>5. CASE ~IsTerminalEvent(line)
    <3>1. tracked' = [tracked EXCEPT ![r.command] = Emit(t, line)]
      BY <1>19, <2>5 DEF StreamLine, t
    <3>2. EntryInv(Emit(t, line)) /\ Emit(t, line) \in TrackedType
      BY <1>1, <1>4, <2>1, <2>5, EmitEntry, EmitType
    <3>3. Emit(t, line) = t \/ Emits(t, Emit(t, line))
      BY <1>1, <1>4 DEF Emit, Emits, TrackedType, States, Open
    <3>4. Emit(t, line).state = t.state /\ Emit(t, line).incarnation = t.incarnation
      BY <1>1 DEF Emit, TrackedType
    <3>5. Advances(t, Emit(t, line)) /\ (t.state = "untracked" => Emit(t, line) = t)
      BY <3>2, <3>3, <3>4 DEF Advances, Emits
    <3>6. t.state \in {"running", "terminal"} /\ u.emittedTerminal => Emit(t, line).state = "terminal"
      BY <1>2, <1>3, <2>3, <2>5, <3>4
    <3> QED  BY <1>6, <2>1, <2>3, <3>1, <3>2, <3>5, <3>6
  <2> QED  BY <2>4, <2>5
<1> QED  BY <1>10, <1>11, <1>12, <1>13, <1>14, <1>15, <1>16, <1>17, <1>18, <1>19 DEF Settles

\* While entries and executions agree, the in-flight map counts the executions.
LEMMA BusyInFlight ==
  ASSUME NEW trk, NEW rs \in SUBSET RunType, NEW flying \in [Commands -> Nat],
         Entries(trk), RunsAgree(trk, rs, flying)
  PROVE  Busy(rs) = InFlightIds(flying)
<1>1. ASSUME NEW c \in Busy(rs)
      PROVE  c \in InFlightIds(flying)
  <2>1. PICK r \in rs : r.command = c
    BY DEF Busy
  <2>2. c \in Commands
    BY <2>1 DEF RunType
  <2>3. trk[c].incarnation > 0 /\ flying[c] = trk[c].incarnation
    BY <2>1, <2>2 DEF RunsAgree, Entries, EntryInv
  <2> QED  BY <2>2, <2>3 DEF InFlightIds
<1>2. ASSUME NEW c \in InFlightIds(flying)
      PROVE  c \in Busy(rs)
  BY <1>2 DEF InFlightIds, RunsAgree, Busy
<1> QED  BY <1>1, <1>2

\* With an empty queue schedule() changes neither entries nor in-flight map.
LEMMA ScheduleIdle ==
  ASSUME NEW link, NEW trk, NEW rs, NEW flying, NEW owners,
         Schedule(link, <<>>, trk, rs, flying, owners)
  PROVE  \A c \in Commands : tracked'[c] = trk[c] /\ inFlight'[c] = flying[c]
<1>1. CASE ~link
  BY <1>1 DEF Schedule
<1>2. CASE link
  <2>1. PICK P \in SUBSET (DOMAIN <<>>) :
          LET started == {<<>>[i] : i \in P}
          IN  /\ tracked' = [c \in Commands |->
                               IF c \in started THEN Started(trk[c]) ELSE trk[c]]
              /\ inFlight' = [c \in Commands |->
                               IF c \in started THEN trk[c].incarnation
                                                ELSE flying[c]]
    BY <1>2 DEF Schedule
  <2>2. P = {}
    OBVIOUS
  <2> QED  BY <2>1, <2>2
<1> QED  BY <1>1, <1>2

(***************************************************************************)
(* The parts of ServiceInv that LockInv leaves, of the next state.         *)
(***************************************************************************)
Serves(trk, rs) ==
  Entries(trk) /\ Apart(rs) /\ Cardinality(Busy(rs)) <= Limit

Detached(trk, flying) ==
  \A c \in Commands : trk[c].state = "untracked" /\ flying[c] = 0

\* The invariant by its parts: what holds always, until dispose and after it.
LEMMA ServiceParts ==
  ServiceInv <=> /\ LockInv
                 /\ Serves(tracked, runs)
                 /\ ~disposed => Linked(queue, tracked, runs, inFlight)
                 /\ disposed => Detached(tracked, inFlight)
BY DEF ServiceInv, Serves, Detached

(***************************************************************************)
(* schedule() called with values that agree leaves values that do.         *)
(***************************************************************************)
LEMMA ScheduleServes ==
  ASSUME NEW link, NEW q \in Seq(Commands), NEW trk \in [Commands -> TrackedType],
         NEW rs \in SUBSET RunType, NEW flying \in [Commands -> Nat],
         NEW owners \in [LockKeys -> Commands \cup {Nobody}],
         lastEmittedStats \in StatsType,
         Schedule(link, q, trk, rs, flying, owners),
         Serves(trk, rs), Linked(q, trk, rs, flying)
  PROVE  Serves(tracked', runs') /\ Linked(queue', tracked', runs', inFlight')
<1>1. Entries(trk) /\ RunsAgree(trk, rs, flying)
  BY DEF Serves, Linked
<1>2. Cardinality(InFlightIds(flying)) <= Limit
  BY <1>1, BusyInFlight DEF Serves
<1>3. Entries(tracked') /\ Linked(queue', tracked', runs', inFlight')
  BY <1>1, ScheduleKeepsLinks
<1>4. Cardinality(InFlightIds(inFlight')) <= Limit
  BY <1>2, ScheduleWithinLimit
<1>5. runs' \in SUBSET RunType /\ inFlight' \in [Commands -> Nat]
  BY ScheduleType
<1>6. Busy(runs') = InFlightIds(inFlight')
  BY <1>3, <1>5, BusyInFlight DEF Linked
<1> QED  BY <1>3, <1>4, <1>6 DEF Serves, Linked

\* Fewer executions are fewer commands.
LEMMA FewerBusy ==
  ASSUME NEW rs \in SUBSET RunType, NEW ss \in SUBSET RunType,
         Busy(ss) \subseteq Busy(rs), Cardinality(Busy(rs)) <= Limit
  PROVE  Cardinality(Busy(ss)) <= Limit
<1>1. Busy(rs) \in SUBSET Commands
  BY DEF Busy, RunType
<1>2. IsFiniteSet(Busy(rs))
  BY <1>1, ExecutorAssumption, FS_Subset
<1>3. Busy(ss) \in SUBSET Busy(rs)
  OBVIOUS
<1>4. IsFiniteSet(Busy(ss)) /\ Cardinality(Busy(ss)) <= Cardinality(Busy(rs))
  BY <1>2, <1>3, FS_Subset
<1>5. Cardinality(Busy(rs)) \in Nat /\ Cardinality(Busy(ss)) \in Nat
  BY <1>2, <1>4, FS_CardinalityType
<1> QED  BY <1>4, <1>5, LimitType

(***************************************************************************)
(* An execution that ends leaves the others and their entries as they were:*)
(* what its finally hands to schedule() agrees.                            *)
(***************************************************************************)
LEMMA EndAgrees ==
  ASSUME ServiceInv, NEW r \in runs, NEW entry \in TrackedType,
         Advances(tracked[r.command], entry), RunEnds(r, entry)
  PROVE  LET trk == [tracked EXCEPT ![r.command] = entry]
             rs == runs \ {r}
             flying == [inFlight EXCEPT ![r.command] = 0]
             owners == [k \in LockKeys |-> IF k = DeriveLockKey(r.command) THEN Nobody
                                           ELSE lockOwners[k]]
         IN  /\ trk \in [Commands -> TrackedType] /\ rs \in SUBSET RunType
             /\ flying \in [Commands -> Nat]
             /\ owners \in [LockKeys -> Commands \cup {Nobody}]
             /\ Schedule(connected, queue, trk, rs, flying, owners)
             /\ disposed' = disposed
             /\ Serves(trk, rs)
             /\ ~disposed => Linked(queue, trk, rs, flying)
             /\ disposed => /\ Detached(trk, flying) /\ queue = <<>>
                            /\ \A d \in Commands : trk[d] = tracked[d]
<1> DEFINE c == r.command
           trk == [tracked EXCEPT ![c] = entry]
           flying == [inFlight EXCEPT ![c] = 0]
           owners == [k \in LockKeys |-> IF k = DeriveLockKey(c) THEN Nobody
                                         ELSE lockOwners[k]]
           rs == runs \ {r}
<1>1. /\ tracked \in [Commands -> TrackedType] /\ inFlight \in [Commands -> Nat]
      /\ runs \subseteq RunType /\ r \in RunType /\ c \in Commands
      /\ lockOwners \in [LockKeys -> Commands \cup {Nobody}]
  BY DEF ServiceInv, LockInv, TypeOK, RunType
<1>2. /\ trk \in [Commands -> TrackedType] /\ flying \in [Commands -> Nat]
      /\ owners \in [LockKeys -> Commands \cup {Nobody}] /\ rs \in SUBSET RunType
  BY <1>1
<1>3. Schedule(connected, queue, trk, rs, flying, owners) /\ disposed' = disposed
  BY DEF RunEnds, Finish
<1>4. \A d \in Commands : trk[d] = (IF d = c THEN entry ELSE tracked[d])
                         /\ flying[d] = (IF d = c THEN 0 ELSE inFlight[d])
  BY <1>1
<1>5. EntryInv(entry)
  BY DEF Advances
<1>6. /\ Entries(tracked) /\ Apart(runs) /\ Cardinality(Busy(runs)) <= Limit
      /\ ~disposed => Linked(queue, tracked, runs, inFlight)
      /\ disposed => Detached(tracked, inFlight) /\ queue = <<>>
  BY DEF ServiceInv, Detached, LockInv, NothingQueuedAfterDispose
<1>7. \A s \in rs : s \in runs /\ s.command # c /\ s.command \in Commands
  BY <1>1, <1>6 DEF Apart, RunType
<1>8. SUFFICES /\ Serves(trk, rs)
               /\ ~disposed => Linked(queue, trk, rs, flying)
               /\ disposed => Detached(trk, flying) /\ \A d \in Commands : trk[d] = tracked[d]
  BY <1>2, <1>3, <1>6
<1> HIDE DEF trk, flying, owners
<1>9. Serves(trk, rs)
  <2>1. Entries(trk)
    BY <1>4, <1>5, <1>6 DEF Entries
  <2>2. Apart(rs)
    BY <1>6 DEF Apart
  <2>3. Busy(rs) \subseteq Busy(runs)
    BY DEF Busy
  <2> QED  BY <1>1, <1>2, <1>6, <2>1, <2>2, <2>3, FewerBusy DEF Serves
<1>10. CASE disposed
  <2>1. entry = tracked[c]
    BY <1>10 DEF RunEnds
  <2> QED  BY <1>4, <1>6, <1>9, <1>10, <2>1 DEF Detached
<1>11. CASE ~disposed
  <2>1. entry.state = "terminal"
    BY <1>11 DEF RunEnds
  <2>2. tracked[c].state \in {"running", "terminal"}
    BY <1>6, <1>11 DEF Linked, RunsAgree
  <2>3. QueueAgrees(queue, trk)
    BY <1>4, <1>6, <1>11, <2>1, <2>2 DEF Linked, QueueAgrees
  <2>4. RunsAgree(trk, rs, flying)
    <3>1. \A s \in rs :
            /\ trk[s.command].state \in {"running", "terminal"}
            /\ trk[s.command].incarnation = s.incarnation
            /\ flying[s.command] = s.incarnation
            /\ s.emittedTerminal => trk[s.command].state = "terminal"
      BY <1>4, <1>6, <1>7, <1>11 DEF Linked, RunsAgree
    <3>2. ASSUME NEW d \in Commands, trk[d].state = "running" \/ flying[d] # 0
          PROVE  \E s \in rs : s.command = d
      <4>1. d # c
        BY <1>4, <2>1, <3>2
      <4>2. PICK s \in runs : s.command = d
        BY <1>4, <1>6, <1>11, <3>2, <4>1 DEF Linked, RunsAgree
      <4> QED  BY <4>1, <4>2
    <3> QED  BY <3>1, <3>2 DEF RunsAgree
  <2> QED  BY <1>9, <1>11, <2>3, <2>4 DEF Linked, Serves
<1> QED  BY <1>10, <1>11

\* And so does what schedule() makes of it.
LEMMA EndServes ==
  ASSUME ServiceInv, NEW r \in runs, NEW entry \in TrackedType,
         Advances(tracked[r.command], entry), RunEnds(r, entry)
  PROVE  /\ Serves(tracked', runs')
         /\ ~disposed' => Linked(queue', tracked', runs', inFlight')
         /\ disposed' => Detached(tracked', inFlight')
<1>1. PICK trk \in [Commands -> TrackedType], rs \in SUBSET RunType,
           flying \in [Commands -> Nat], owners \in [LockKeys -> Commands \cup {Nobody}] :
        /\ Schedule(connected, queue, trk, rs, flying, owners) /\ disposed' = disposed
        /\ Serves(trk, rs)
        /\ ~disposed => Linked(queue, trk, rs, flying)
        /\ disposed => Detached(trk, flying) /\ queue = <<>>
  BY EndAgrees
<1>2. queue \in Seq(Commands) /\ lastEmittedStats \in StatsType
  BY DEF ServiceInv, LockInv, TypeOK
<1>3. CASE disposed
  <2>1. Schedule(connected, <<>>, trk, rs, flying, owners)
    BY <1>1, <1>3
  <2>2. runs' = rs
    BY <2>1, ScheduleNothing
  <2>3. \A d \in Commands : tracked'[d] = trk[d] /\ inFlight'[d] = flying[d]
    BY <2>1, ScheduleIdle
  <2> QED  BY <1>1, <1>3, <2>2, <2>3 DEF Serves, Entries, Detached
<1>4. CASE ~disposed
  BY <1>1, <1>2, <1>4, ScheduleServes
<1> QED  BY <1>3, <1>4

(***************************************************************************)
(* An execution that goes on keeps its command and its incarnation.        *)
(***************************************************************************)
LEMMA GoingOnServes ==
  ASSUME ServiceInv, NEW r \in runs, NEW entry \in TrackedType, NEW changed \in RunType,
         Advances(tracked[r.command], entry), RunGoesOn(r, changed, entry)
  PROVE  /\ Serves(tracked', runs')
         /\ ~disposed' => Linked(queue', tracked', runs', inFlight')
         /\ disposed' => Detached(tracked', inFlight')
<1> DEFINE c == r.command
           rs == runs \ {r}
<1>1. /\ tracked \in [Commands -> TrackedType] /\ runs \subseteq RunType
      /\ r \in RunType /\ c \in Commands
  BY DEF ServiceInv, LockInv, TypeOK, RunType
<1>2. /\ runs' = rs \cup {changed} /\ queue' = queue /\ inFlight' = inFlight
      /\ disposed' = disposed /\ changed.command = c /\ changed.incarnation = r.incarnation
  BY DEF RunGoesOn, SetRun
<1>3. \A d \in Commands : tracked'[d] = IF d = c THEN entry ELSE tracked[d]
  BY <1>1 DEF RunGoesOn
<1>4. /\ Entries(tracked) /\ Apart(runs) /\ Cardinality(Busy(runs)) <= Limit
      /\ ~disposed => Linked(queue, tracked, runs, inFlight)
      /\ disposed => Detached(tracked, inFlight)
  BY DEF ServiceInv, Detached
<1>5. \A s \in rs : s \in runs /\ s.command # c
  BY <1>4 DEF Apart
<1>6. Serves(tracked', runs')
  <2>1. Entries(tracked')
    BY <1>3, <1>4 DEF Entries, Advances
  <2>2. Apart(runs')
    BY <1>2, <1>4, <1>5 DEF Apart
  <2>3. Busy(runs') \subseteq Busy(runs) /\ runs' \subseteq RunType
    BY <1>1, <1>2 DEF Busy
  <2> QED  BY <1>1, <1>4, <2>1, <2>2, <2>3, FewerBusy DEF Serves
<1>7. CASE disposed
  <2>1. entry = tracked[c]
    BY <1>7 DEF RunGoesOn
  <2> QED  BY <1>2, <1>3, <1>4, <1>6, <1>7, <2>1 DEF Detached
<1>8. CASE ~disposed
  <2>1. /\ tracked[c].state \in {"running", "terminal"} /\ tracked[c].incarnation = r.incarnation
        /\ inFlight[c] = r.incarnation
    BY <1>4, <1>8 DEF Linked, RunsAgree
  <2>2. /\ entry.state \in {"running", "terminal"} /\ entry.incarnation = r.incarnation
        /\ changed.emittedTerminal => entry.state = "terminal"
    BY <1>8, <2>1 DEF Advances, Emits, Ends, RunGoesOn
  <2>3. QueueAgrees(queue', tracked')
    BY <1>2, <1>3, <1>4, <1>8, <2>1, <2>2 DEF Linked, QueueAgrees
  <2>4. RunsAgree(tracked', runs', inFlight')
    <3>1. ASSUME NEW s \in runs'
          PROVE  /\ tracked'[s.command].state \in {"running", "terminal"}
                 /\ tracked'[s.command].incarnation = s.incarnation
                 /\ inFlight'[s.command] = s.incarnation
                 /\ s.emittedTerminal => tracked'[s.command].state = "terminal"
      <4>1. CASE s = changed
        BY <1>1, <1>2, <1>3, <2>1, <2>2, <4>1
      <4>2. CASE s \in rs
        <5>1. s \in runs /\ s.command # c /\ s.command \in Commands
          BY <1>1, <1>5, <4>2 DEF RunType
        <5> QED  BY <1>2, <1>3, <1>4, <1>8, <5>1 DEF Linked, RunsAgree
      <4> QED  BY <1>2, <4>1, <4>2
    <3>2. ASSUME NEW d \in Commands, tracked'[d].state = "running" \/ inFlight'[d] # 0
          PROVE  \E s \in runs' : s.command = d
      <4>1. CASE d = c
        BY <1>2, <4>1
      <4>2. CASE d # c
        <5>1. PICK s \in runs : s.command = d
          BY <1>2, <1>3, <1>4, <1>8, <3>2, <4>2 DEF Linked, RunsAgree
        <5> QED  BY <1>2, <4>2, <5>1
      <4> QED  BY <4>1, <4>2
    <3> QED  BY <3>1, <3>2 DEF RunsAgree
  <2> QED  BY <1>2, <1>6, <1>8, <2>3, <2>4 DEF Serves, Linked
<1> QED  BY <1>7, <1>8

-----------------------------------------------------------------------------
(* Calls.                                                                  *)

(***************************************************************************)
(* What is pruned is terminal and, while streams end in time, not in       *)
(* flight: forgetting it leaves the rest in agreement.                     *)
(***************************************************************************)
LEMMA PruneServes ==
  ASSUME ServiceInv, StreamsEndInTime, ~disposed, NEW S \in Prunable
  PROVE  /\ Pruned(S) \in [Commands -> TrackedType]
         /\ Serves(Pruned(S), runs)
         /\ Linked(queue, Pruned(S), runs, inFlight)
         /\ \A c \in Commands :
              /\ Pruned(S)[c].incarnation = tracked[c].incarnation
              /\ \/ Pruned(S)[c] = tracked[c]
                 \/ /\ tracked[c].state = "terminal"
                    /\ Pruned(S)[c] = Untracked(tracked[c].incarnation)
<1> DEFINE trk == Pruned(S)
<1>1. /\ tracked \in [Commands -> TrackedType] /\ runs \subseteq RunType
      /\ \A c \in Commands : tracked[c] \in TrackedType /\ tracked[c].incarnation \in Nat
  BY DEF ServiceInv, LockInv, TypeOK, TrackedType
<1>2. /\ Entries(tracked) /\ Apart(runs) /\ Cardinality(Busy(runs)) <= Limit
      /\ Linked(queue, tracked, runs, inFlight)
  BY DEF ServiceInv
<1>3. \A c \in S : c \in Commands /\ tracked[c].state = "terminal" /\ \A r \in runs : r.command # c
  BY DEF Prunable, Terminal, Spared
<1>4. \A c \in Commands :
        trk[c] = IF c \in S THEN Untracked(tracked[c].incarnation) ELSE tracked[c]
  BY DEF Pruned
<1>5. \A c \in Commands : /\ EntryInv(Untracked(tracked[c].incarnation))
                          /\ Untracked(tracked[c].incarnation).state = "untracked"
                          /\ Untracked(tracked[c].incarnation).incarnation = tracked[c].incarnation
                          /\ Untracked(tracked[c].incarnation) \in TrackedType
  BY <1>1, FreshEntry, UntrackedType
<1>6. trk \in [Commands -> TrackedType]
  BY <1>1, <1>5 DEF Pruned
<1> HIDE DEF trk
<1>7. Entries(trk)
  BY <1>2, <1>4, <1>5 DEF Entries
<1>8. QueueAgrees(queue, trk)
  BY <1>2, <1>3, <1>4, <1>5 DEF Linked, QueueAgrees
<1>9. RunsAgree(trk, runs, inFlight)
  <2>1. ASSUME NEW r \in runs
        PROVE  r.command \in Commands /\ trk[r.command] = tracked[r.command]
    BY <1>1, <1>3, <1>4 DEF RunType
  <2>2. ASSUME NEW c \in Commands, trk[c].state = "running" \/ inFlight[c] # 0
        PROVE  \E r \in runs : r.command = c
    BY <1>2, <1>4, <1>5, <2>2 DEF Linked, RunsAgree
  <2> QED  BY <1>2, <2>1, <2>2 DEF Linked, RunsAgree
<1>10. \A c \in Commands : /\ trk[c].incarnation = tracked[c].incarnation
                           /\ \/ trk[c] = tracked[c]
                              \/ /\ tracked[c].state = "terminal"
                                 /\ trk[c] = Untracked(tracked[c].incarnation)
  BY <1>3, <1>4, <1>5
<1> QED  BY <1>2, <1>6, <1>7, <1>8, <1>9, <1>10 DEF Serves, Linked, trk

\* A command not tracked may be appended to the queue.
LEMMA AppendServes ==
  ASSUME NEW q \in Seq(Commands), NEW trk \in [Commands -> TrackedType],
         NEW rs \in SUBSET RunType, NEW flying, NEW c \in Commands,
         Serves(trk, rs), Linked(q, trk, rs, flying), trk[c].state = "untracked"
  PROVE  LET new == [trk EXCEPT ![c] = Queued(trk[c].incarnation + 1)]
         IN  /\ new \in [Commands -> TrackedType]
             /\ Serves(new, rs) /\ Linked(Append(q, c), new, rs, flying)
<1> DEFINE new == [trk EXCEPT ![c] = Queued(trk[c].incarnation + 1)]
           entry == Queued(trk[c].incarnation + 1)
<1>1. trk[c].incarnation \in Nat /\ trk[c].incarnation + 1 \in Nat
  BY DEF TrackedType
<1>2. entry.state = "queued" /\ EntryInv(entry) /\ entry \in TrackedType
  BY <1>1, FreshEntry, UntrackedType
<1> HIDE DEF entry
<1>3. /\ new \in [Commands -> TrackedType]
      /\ \A d \in Commands : new[d] = IF d = c THEN entry ELSE trk[d]
  BY <1>2 DEF entry
<1>4. \A r \in rs : r.command \in Commands /\ r.command # c
  BY DEF Linked, RunsAgree, RunType
<1>5. \A i \in DOMAIN q : q[i] # c
  BY DEF Linked, QueueAgrees
<1>6. /\ DOMAIN Append(q, c) = DOMAIN q \cup {Len(q) + 1} /\ Len(q) + 1 \notin DOMAIN q
      /\ \A i \in DOMAIN q : Append(q, c)[i] = q[i]
      /\ Append(q, c)[Len(q) + 1] = c
  OBVIOUS
<1> HIDE DEF new
<1>7. Entries(new)
  BY <1>2, <1>3 DEF Serves, Entries
<1>8. QueueAgrees(Append(q, c), new)
  <2> DEFINE p == Append(q, c)
             last == Len(q) + 1
  <2>1. /\ DOMAIN p = DOMAIN q \cup {last} /\ \A i \in DOMAIN q : p[i] = q[i] /\ p[i] # c
        /\ p[last] = c
    BY <1>5, <1>6
  <2> HIDE DEF p, last
  <2>2. \A i, j \in DOMAIN p : p[i] = p[j] => i = j
    BY <2>1 DEF Linked, QueueAgrees
  <2>3. \A d \in Commands : new[d].state = "queued" <=> \E i \in DOMAIN p : p[i] = d
    <3> TAKE d \in Commands
    <3>1. CASE d = c
      BY <1>2, <1>3, <2>1, <3>1
    <3>2. CASE d # c
      BY <1>3, <2>1, <3>2 DEF Linked, QueueAgrees
    <3> QED  BY <3>1, <3>2
  <2> QED  BY <2>2, <2>3 DEF QueueAgrees, p
<1>9. RunsAgree(new, rs, flying)
  <2>1. \A r \in rs : new[r.command] = trk[r.command]
    BY <1>3, <1>4
  <2>2. ASSUME NEW d \in Commands, new[d].state = "running" \/ flying[d] # 0
        PROVE  \E r \in rs : r.command = d
    BY <1>2, <1>3, <2>2 DEF Linked, RunsAgree
  <2> QED  BY <2>1, <2>2 DEF Linked, RunsAgree
<1> QED  BY <1>3, <1>7, <1>8, <1>9 DEF Serves, Linked, new

\* What the steps below keep of ServiceInv, besides LockInv.
ServesNext ==
  /\ Serves(tracked', runs')
  /\ ~disposed' => Linked(queue', tracked', runs', inFlight')
  /\ disposed' => Detached(tracked', inFlight')

\* enqueue() tracks and queues a command together, and none already tracked.
LEMMA EnqueueServes ==
  ASSUME ServiceInv, StreamsEndInTime, NEW c \in Commands, NEW verified, Enqueue(c, verified)
  PROVE  ServesNext
<1>1. /\ queue \in Seq(Commands) /\ runs \subseteq RunType /\ inFlight \in [Commands -> Nat]
      /\ lockOwners \in [LockKeys -> Commands \cup {Nobody}]
      /\ lastEmittedStats \in StatsType
  BY DEF ServiceInv, LockInv, TypeOK
<1>2. PICK S \in Prunable :
        LET trk == Pruned(S)
            n   == trk[c].incarnation + 1
        IN  \/ /\ tracked' = trk
               /\ UNCHANGED <<queue, runs, inFlight>>
            \/ /\ trk[c].state = "untracked"
               /\ Schedule(connected, Append(queue, c), [trk EXCEPT ![c] = Queued(n)],
                           runs, inFlight, lockOwners)
  BY DEF Enqueue
<1> DEFINE trk == Pruned(S)
           new == [trk EXCEPT ![c] = Queued(trk[c].incarnation + 1)]
<1>3. ~disposed /\ ~disposed'
  BY DEF Enqueue
<1>4. trk \in [Commands -> TrackedType] /\ Serves(trk, runs) /\ Linked(queue, trk, runs, inFlight)
  BY <1>3, PruneServes
<1>5. CASE tracked' = trk /\ UNCHANGED <<queue, runs, inFlight>>
  BY <1>3, <1>4, <1>5 DEF ServesNext
<1>6. CASE /\ trk[c].state = "untracked"
           /\ Schedule(connected, Append(queue, c), new, runs, inFlight, lockOwners)
  <2>1. new \in [Commands -> TrackedType] /\ Serves(new, runs)
        /\ Linked(Append(queue, c), new, runs, inFlight)
    BY <1>1, <1>4, <1>6, AppendServes
  <2>2. Append(queue, c) \in Seq(Commands)
    BY <1>1
  <2>3. Schedule(connected, Append(queue, c), new, runs, inFlight, lockOwners)
    BY <1>6
  <2> HIDE DEF new
  <2>4. Serves(tracked', runs') /\ Linked(queue', tracked', runs', inFlight')
    BY <1>1, <2>1, <2>2, <2>3, ScheduleServes
  <2> QED  BY <1>3, <2>4 DEF ServesNext
<1> QED  BY <1>2, <1>5, <1>6

\* A command cancelled in the queue leaves it and has its outcome.
LEMMA CancelQueuedServes ==
  ASSUME ServiceInv, NEW c \in Commands, CancelQueued(c)
  PROVE  /\ ServesNext
         /\ tracked[c].state = "queued"
<1>1. /\ queue \in Seq(Commands) /\ runs \subseteq RunType
      /\ tracked \in [Commands -> TrackedType]
  BY DEF ServiceInv, LockInv, TypeOK
<1>2. /\ ~disposed /\ ~disposed' /\ UNCHANGED <<runs, inFlight>>
      /\ tracked' = [tracked EXCEPT ![c] = Conclude(@, DoneCancelled)]
  BY DEF CancelQueued
<1>3. PICK p \in DOMAIN queue : queue[p] = c /\ queue' \in Without(queue, {p})
  BY DEF CancelQueued
<1>4. /\ Entries(tracked) /\ Apart(runs) /\ Cardinality(Busy(runs)) <= Limit
      /\ Linked(queue, tracked, runs, inFlight)
  BY <1>2 DEF ServiceInv
<1>5. tracked[c].state = "queued" /\ \A r \in runs : r.command # c
  BY <1>3, <1>4 DEF Linked, QueueAgrees, RunsAgree
<1> DEFINE entry == Conclude(tracked[c], DoneCancelled)
<1>6. entry.state = "terminal" /\ EntryInv(entry)
  <2>1. Open(tracked[c]) /\ tracked[c] \in TrackedType /\ EntryInv(tracked[c])
    BY <1>1, <1>4, <1>5 DEF Open, Entries
  <2> QED  BY <2>1, TerminalLines, ConcludeEntry
<1>7. \A d \in Commands : tracked'[d] = IF d = c THEN entry ELSE tracked[d]
  BY <1>1, <1>2
<1>8. /\ \A i, j \in DOMAIN queue' : queue'[i] = queue'[j] => i = j
      /\ \A i \in DOMAIN queue' : \E j \in DOMAIN queue \ {p} : queue'[i] = queue[j]
      /\ \A j \in DOMAIN queue \ {p} : \E i \in DOMAIN queue' : queue'[i] = queue[j]
  BY <1>1, <1>3, <1>4, WithoutKeeps DEF Linked, QueueAgrees
<1> HIDE DEF entry
<1>9. Entries(tracked')
  BY <1>4, <1>6, <1>7 DEF Entries
<1>10. QueueAgrees(queue', tracked')
  <2>1. \A j \in DOMAIN queue \ {p} : queue[j] # c
    BY <1>3, <1>4 DEF Linked, QueueAgrees
  <2>2. ASSUME NEW d \in Commands
        PROVE  tracked'[d].state = "queued" <=> \E i \in DOMAIN queue' : queue'[i] = d
    <3>1. CASE d = c
      BY <1>6, <1>7, <1>8, <2>1, <3>1
    <3>2. CASE d # c
      <4>1. tracked'[d].state = "queued" <=> \E j \in DOMAIN queue : queue[j] = d
        BY <1>4, <1>7, <3>2 DEF Linked, QueueAgrees
      <4>2. (\E j \in DOMAIN queue : queue[j] = d) <=> (\E j \in DOMAIN queue \ {p} : queue[j] = d)
        BY <1>3, <3>2
      <4> QED  BY <1>8, <4>1, <4>2
    <3> QED  BY <3>1, <3>2
  <2> QED  BY <1>8, <2>2 DEF QueueAgrees
<1>11. RunsAgree(tracked', runs', inFlight')
  <2>1. ASSUME NEW r \in runs
        PROVE  tracked'[r.command] = tracked[r.command]
    <3>1. r.command \in Commands /\ r.command # c
      BY <1>1, <1>5 DEF RunType
    <3> QED  BY <1>7, <3>1
  <2>2. ASSUME NEW d \in Commands, tracked'[d].state = "running" \/ inFlight[d] # 0
        PROVE  \E r \in runs : r.command = d
    BY <1>4, <1>6, <1>7, <2>2 DEF Linked, RunsAgree
  <2> QED  BY <1>2, <1>4, <2>1, <2>2 DEF Linked, RunsAgree
<1> QED  BY <1>2, <1>4, <1>5, <1>9, <1>10, <1>11 DEF ServesNext, Serves, Linked

\* The other calls, one by one.
LEMMA OtherCallsServe ==
  ASSUME ServiceInv,
         \/ \E value \in BOOLEAN : SetConnected(value)
         \/ \E c \in Commands : CancelRunning(c)
         \/ \E c \in Commands, sequence \in AckSequences : Acknowledge(c, sequence)
         \/ Dispose
  PROVE  ServesNext
<1>1. /\ queue \in Seq(Commands) /\ runs \subseteq RunType /\ inFlight \in [Commands -> Nat]
      /\ tracked \in [Commands -> TrackedType]
      /\ lockOwners \in [LockKeys -> Commands \cup {Nobody}]
      /\ lastEmittedStats \in StatsType
      /\ \A c \in Commands : tracked[c] \in TrackedType /\ tracked[c].incarnation \in Nat
  BY DEF ServiceInv, LockInv, TypeOK, TrackedType
<1>2. /\ Entries(tracked) /\ Apart(runs) /\ Cardinality(Busy(runs)) <= Limit
      /\ ~disposed => Linked(queue, tracked, runs, inFlight)
      /\ disposed => Detached(tracked, inFlight) /\ queue = <<>>
  BY DEF ServiceInv, Detached, LockInv, NothingQueuedAfterDispose
<1>3. Serves(tracked, runs)
  BY <1>2 DEF Serves
<1>4. CASE SetConnected(FALSE)
  BY <1>2, <1>3, <1>4 DEF SetConnected, ServesNext
<1>5. CASE SetConnected(TRUE)
  <2>1. Schedule(TRUE, queue, tracked, runs, inFlight, lockOwners) /\ disposed' = disposed
    BY <1>5 DEF SetConnected
  <2>2. CASE disposed
    <3>1. Schedule(TRUE, <<>>, tracked, runs, inFlight, lockOwners)
      BY <1>2, <2>1, <2>2
    <3>2. runs' = runs
      BY <3>1, ScheduleNothing
    <3>3. \A c \in Commands : tracked'[c] = tracked[c] /\ inFlight'[c] = inFlight[c]
      <4>1. PICK link : Schedule(link, <<>>, tracked, runs, inFlight, lockOwners)
        BY <3>1
      <4> QED  BY <4>1, ScheduleIdle
    <3> QED  BY <1>2, <2>1, <2>2, <3>2, <3>3 DEF ServesNext, Serves, Entries, Detached
  <2>3. CASE ~disposed
    BY <1>1, <1>2, <1>3, <2>1, <2>3, ScheduleServes DEF ServesNext
  <2> QED  BY <2>2, <2>3
<1>6. ASSUME NEW c \in Commands, CancelRunning(c)
      PROVE  ServesNext
  <2>1. PICK r \in runs :
          runs' = (runs \ {r}) \cup {[r EXCEPT !.cancelRequested = TRUE]}
    BY <1>6 DEF CancelRunning
  <2> DEFINE u == [r EXCEPT !.cancelRequested = TRUE]
  <2>2. /\ ~disposed /\ ~disposed' /\ UNCHANGED <<queue, tracked, inFlight>>
    BY <1>6 DEF CancelRunning
  <2>3. /\ u.command = r.command /\ u.incarnation = r.incarnation /\ u \in RunType
        /\ u.emittedTerminal = r.emittedTerminal
    BY <1>1 DEF RunType
  <2> HIDE DEF u
  <2>4. runs' = (runs \ {r}) \cup {u}
    BY <2>1 DEF u
  <2>5. Apart(runs')
    BY <1>2, <2>3, <2>4 DEF Apart
  <2>6. Busy(runs') \subseteq Busy(runs) /\ runs' \subseteq RunType
    BY <1>1, <2>3, <2>4 DEF Busy
  <2>7. RunsAgree(tracked, runs', inFlight)
    <3>1. Linked(queue, tracked, runs, inFlight)
      BY <1>2, <2>2
    <3>2. \A d : (\E s \in runs : s.command = d) => \E s \in runs' : s.command = d
      BY <2>3, <2>4
    <3> QED  BY <2>3, <2>4, <3>1, <3>2 DEF Linked, RunsAgree
  <2>8. Cardinality(Busy(runs')) <= Limit
    BY <1>1, <1>2, <2>6, FewerBusy
  <2> QED  BY <1>2, <2>2, <2>5, <2>7, <2>8 DEF ServesNext, Serves, Linked
<1>7. ASSUME NEW c \in Commands, NEW sequence \in AckSequences, Acknowledge(c, sequence)
      PROVE  ServesNext
  <2> DEFINE t == tracked[c]
             acked == IF sequence > t.acked THEN sequence ELSE t.acked
             u == [t EXCEPT !.acked = acked,
                            !.events = IF t.state = "terminal" THEN @
                                       ELSE {e \in @ : e.sequence > acked}]
  <2>1. tracked' = [tracked EXCEPT
                      ![c].acked = acked,
                      ![c].events = IF t.state = "terminal" THEN @
                                    ELSE {e \in @ : e.sequence > acked}]
    BY <1>7 DEF Acknowledge
  <2>2. \A d \in Commands : tracked'[d] = IF d = c THEN u ELSE tracked[d]
    BY <1>1, <2>1
  <2>3. t \in TrackedType /\ t.state # "untracked" /\ EntryInv(t) /\ sequence \in Nat
    BY <1>1, <1>2, <1>7, ExecutorAssumption DEF Acknowledge, Entries
  <2>4. acked \in Nat /\ t.acked <= acked
    BY <2>3 DEF TrackedType
  <2> HIDE DEF t, acked
  <2>5. EntryInv(u) /\ u.state = t.state /\ u.incarnation = t.incarnation
    BY <2>3, <2>4, AcknowledgedEntry
  <2> HIDE DEF u
  <2>6. UNCHANGED <<queue, runs, inFlight, disposed>>
    BY <1>7 DEF Acknowledge
  <2>7. \A d \in Commands : /\ EntryInv(tracked'[d]) /\ tracked'[d].state = tracked[d].state
                            /\ tracked'[d].incarnation = tracked[d].incarnation
    BY <1>2, <2>2, <2>5 DEF Entries, t
  <2>8. ~disposed
    BY <1>2, <2>3 DEF Detached, t
  <2>9. QueueAgrees(queue, tracked') /\ RunsAgree(tracked', runs, inFlight)
    <3>1. Linked(queue, tracked, runs, inFlight)
      BY <1>2, <2>8
    <3>2. \A r \in runs : r.command \in Commands
      BY <1>1 DEF RunType
    <3>3. QueueAgrees(queue, tracked')
      BY <2>7, <3>1 DEF Linked, QueueAgrees
    <3> QED  BY <2>7, <3>1, <3>2, <3>3 DEF Linked, RunsAgree
  <2> QED  BY <1>2, <2>6, <2>7, <2>8, <2>9 DEF ServesNext, Serves, Linked, Entries
<1>8. CASE Dispose
  <2>1. /\ disposed' = TRUE
        /\ runs' = {IF IsCurrent(r) THEN [r EXCEPT !.timer = FALSE, !.shutdown = TRUE]
                                    ELSE r : r \in runs}
        /\ inFlight' = [c \in Commands |-> 0]
        /\ tracked' = [c \in Commands |-> Untracked(tracked[c].incarnation)]
    BY <1>8 DEF Dispose
  <2> DEFINE after(r) == IF IsCurrent(r) THEN [r EXCEPT !.timer = FALSE, !.shutdown = TRUE] ELSE r
  <2>2. \A r \in runs : after(r).command = r.command /\ after(r) \in RunType
    BY <1>1 DEF RunType
  <2>3. runs' = {after(r) : r \in runs}
    BY <2>1
  <2> HIDE DEF after
  <2>4. Apart(runs')
    BY <1>2, <2>2, <2>3 DEF Apart
  <2>5. Busy(runs') \subseteq Busy(runs) /\ runs' \subseteq RunType
    BY <2>2, <2>3 DEF Busy
  <2>6. \A c \in Commands : EntryInv(tracked'[c]) /\ tracked'[c].state = "untracked"
    BY <1>1, <2>1, FreshEntry
  <2> QED  BY <1>1, <1>2, <2>1, <2>4, <2>5, <2>6, FewerBusy DEF ServesNext, Serves, Entries, Detached
<1> QED  BY <1>4, <1>5, <1>6, <1>7, <1>8

-----------------------------------------------------------------------------
(* Theorems.                                                               *)

\* Nothing is queued, tracked or running at the start.
LEMMA InitServes == Init => ServiceInv
<1> SUFFICES ASSUME Init PROVE ServiceInv
  OBVIOUS
<1>1. /\ queue = <<>> /\ runs = {} /\ inFlight = [c \in Commands |-> 0]
      /\ tracked = [c \in Commands |-> Untracked(0)] /\ disposed = FALSE
  BY DEF Init
<1>2. LockInv
  BY LocksAtStart
<1>3. \A c \in Commands : EntryInv(tracked[c]) /\ tracked[c].state = "untracked"
  BY <1>1, FreshEntry
<1>4. Busy(runs) = {}
  BY <1>1 DEF Busy
<1>5. Cardinality(Busy(runs)) <= Limit
  BY <1>4, LimitType, FS_EmptySet
<1>6. DOMAIN queue = {}
  BY <1>1
<1>7. Linked(queue, tracked, runs, inFlight)
  BY <1>1, <1>3, <1>6 DEF Linked, QueueAgrees, RunsAgree, Apart
<1> QED  BY <1>1, <1>2, <1>3, <1>5, <1>7 DEF ServiceInv, Entries, Apart

\* Each step keeps them in agreement.
LEMMA NextServes ==
  ASSUME StreamsEndInTime
  PROVE  ServiceInv /\ [Next]_vars => ServiceInv'
<1> SUFFICES ASSUME ServiceInv, [Next]_vars PROVE ServiceInv'
  OBVIOUS
<1>1. LockInv'
  BY LocksNext DEF ServiceInv
<1>2. CASE UNCHANGED vars
  BY <1>1, <1>2 DEF vars, ServiceInv, Entries, Apart, Busy, Linked, QueueAgrees, RunsAgree,
                    LockInv
<1>3. ASSUME ServesNext
      PROVE  ServiceInv'
  BY <1>1, <1>3 DEF ServesNext, Serves, ServiceInv, Detached
<1>4. ASSUME NEW r \in runs,
             Settles(r) \/ TimeoutFires(r) \/ \E line \in Lines : StreamLine(r, line)
      PROVE  ServesNext
  <2>1. PICK entry \in TrackedType :
          /\ Advances(tracked[r.command], entry)
          /\ RunEnds(r, entry) \/ \E changed \in RunType : RunGoesOn(r, changed, entry)
    BY <1>4, ExecutionSteps
  <2>2. CASE RunEnds(r, entry)
    BY <2>1, <2>2, EndServes DEF ServesNext
  <2>3. CASE \E changed \in RunType : RunGoesOn(r, changed, entry)
    BY <2>1, <2>3, GoingOnServes DEF ServesNext
  <2> QED  BY <2>1, <2>2, <2>3
<1>5. ASSUME NEW c \in Commands, NEW verified \in BOOLEAN, Enqueue(c, verified)
      PROVE  ServesNext
  BY <1>5, EnqueueServes
<1>6. ASSUME NEW c \in Commands, CancelQueued(c)
      PROVE  ServesNext
  BY <1>6, CancelQueuedServes
<1>7. CASE \/ \E value \in BOOLEAN : SetConnected(value)
           \/ \E c \in Commands : CancelRunning(c)
           \/ \E c \in Commands, sequence \in AckSequences : Acknowledge(c, sequence)
           \/ Dispose
  BY <1>3, <1>7, OtherCallsServe
<1>8. CASE Next
  BY <1>3, <1>4, <1>5, <1>6, <1>7, <1>8 DEF Next
<1> QED  BY <1>2, <1>8

(***************************************************************************)
(* While no stream outlives the retention of its command, queue, tracking  *)
(* map, in-flight map and executions agree in every reachable state.       *)
(***************************************************************************)
THEOREM ServiceInvariant ==
  ASSUME StreamsEndInTime
  PROVE  Spec => []ServiceInv
<1>1. ServiceInv /\ [Next]_vars => ServiceInv'
  BY NextServes
<1> QED  BY <1>1, InitServes, PTL DEF Spec

(***************************************************************************)
(* The queue holds exactly the commands tracked as queued, each once       *)
(* (enqueue, cancel, schedule, dispose).                                   *)
(***************************************************************************)
THEOREM QueueIsTracked ==
  ASSUME StreamsEndInTime
  PROVE  Spec => []QueueMatchesTracked
<1>1. ServiceInv => QueueMatchesTracked
  <2> SUFFICES ASSUME ServiceInv PROVE QueueMatchesTracked
    OBVIOUS
  <2>1. CASE ~disposed
    BY <2>1 DEF ServiceInv, Linked, QueueAgrees, QueueMatchesTracked
  <2>2. CASE disposed
    <3>1. DOMAIN queue = {} /\ \A c \in Commands : tracked[c].state = "untracked"
      BY <2>2 DEF ServiceInv, LockInv, NothingQueuedAfterDispose
    <3> QED  BY <3>1 DEF QueueMatchesTracked
  <2> QED  BY <2>1, <2>2
<1>2. Spec => []ServiceInv
  BY ServiceInvariant
<1> QED  BY <1>1, <1>2, PTL

(***************************************************************************)
(* A command is terminal iff its last event is, and no other is.           *)
(***************************************************************************)
THEOREM NothingAfterTheTerminalEvent ==
  ASSUME StreamsEndInTime
  PROVE  Spec => []TerminalEventIsLast
<1>1. ServiceInv => TerminalEventIsLast
  BY DEF ServiceInv, Entries, EntryInv, TerminalEventIsLast
<1>2. Spec => []ServiceInv
  BY ServiceInvariant
<1> QED  BY <1>1, <1>2, PTL

(***************************************************************************)
(* The executions never outnumber maxInFlightCommands.                     *)
(***************************************************************************)
THEOREM RunsStayWithinCapacity ==
  ASSUME StreamsEndInTime
  PROVE  Spec => []RunsWithinCapacity
<1>1. ServiceInv => RunsWithinCapacity
  <2> SUFFICES ASSUME ServiceInv PROVE Cardinality(runs) <= Limit
    BY DEF RunsWithinCapacity
  <2> DEFINE f == [r \in runs |-> r.command]
             B == Busy(runs)
  <2>1. f \in [runs -> B] /\ \A r, s \in runs : f[r] = f[s] => r = s
    BY DEF ServiceInv, Apart, Busy
  <2>2. f \in Injection(runs, B)
    BY <2>1 DEF Injection, IsInjective
  <2>3. B \in SUBSET Commands
    BY DEF ServiceInv, LockInv, TypeOK, RunType, Busy
  <2>4. IsFiniteSet(B)
    BY <2>3, ExecutorAssumption, FS_Subset
  <2> HIDE DEF f
  <2>5. IsFiniteSet(runs) /\ Cardinality(runs) <= Cardinality(B)
    BY <2>2, <2>4, FS_Injection
  <2>6. Cardinality(B) <= Limit
    BY DEF ServiceInv
  <2>7. Cardinality(runs) \in Nat /\ Cardinality(B) \in Nat
    BY <2>4, <2>5, FS_CardinalityType
  <2> QED  BY <2>5, <2>6, <2>7, LimitType
<1>2. Spec => []ServiceInv
  BY ServiceInvariant
<1> QED  BY <1>1, <1>2, PTL

-----------------------------------------------------------------------------
(* No command is stranded and no event lost.  This needs no assumption on  *)
(* the streams: the one rests on schedule() ending every handler that frees*)
(* a slot or a lock, the other on each entry by itself.                    *)

\* The buffer of an entry holds what was emitted and is not acknowledged.
Covered(t) == \A n \in (t.acked + 1)..t.last : \E e \in t.events : e.sequence = n

\* What happens to an entry leaves it its incarnation and its buffer covered.
Follows(t, u) == u.incarnation = t.incarnation /\ (Covered(t) => Covered(u))

\* An event that is emitted is buffered.
LEMMA EmitCovers ==
  ASSUME NEW t \in TrackedType, NEW line \in LineType
  PROVE  Follows(t, Emit(t, line))
<1> DEFINE e == [sequence |-> t.last + 1, type |-> line.type,
                 terminal |-> line.terminal, cancelled |-> line.cancelled]
           u == [t EXCEPT !.last = @ + 1, !.events = @ \cup {e}]
<1>1. CASE ~Open(t)
  BY <1>1 DEF Emit, Follows
<1>2. CASE Open(t)
  <2>1. Emit(t, line) = u
    BY <1>2 DEF Emit
  <2>2. /\ u.incarnation = t.incarnation /\ u.acked = t.acked
        /\ u.last = t.last + 1 /\ u.events = t.events \cup {e}
    BY DEF TrackedType
  <2>3. t.last \in Nat /\ t.acked \in Nat /\ e.sequence = t.last + 1
    BY DEF TrackedType
  <2> HIDE DEF e, u
  <2>4. ASSUME Covered(t), NEW n \in (u.acked + 1)..u.last
        PROVE  \E d \in u.events : d.sequence = n
    <3>1. CASE n = t.last + 1
      BY <2>2, <2>3, <3>1
    <3>2. CASE n # t.last + 1
      <4>1. n \in (t.acked + 1)..t.last
        BY <2>2, <2>3, <3>2
      <4> QED  BY <2>2, <2>4, <4>1 DEF Covered
    <3> QED  BY <3>1, <3>2
  <2> QED  BY <2>1, <2>2, <2>4 DEF Follows, Covered
<1> QED  BY <1>1, <1>2

\* The outcome has no place in the buffer.
LEMMA MarkTerminalCovers ==
  ASSUME NEW t \in TrackedType, NEW outcome
  PROVE  Follows(t, MarkTerminal(t, outcome))
<1>1. LET u == MarkTerminal(t, outcome)
      IN  /\ u.incarnation = t.incarnation /\ u.acked = t.acked
          /\ u.last = t.last /\ u.events = t.events
  BY DEF MarkTerminal, TrackedType
<1> QED  BY <1>1 DEF Follows, Covered

\* Nor does concluding lose an event.
LEMMA ConcludeCovers ==
  ASSUME NEW t \in TrackedType, NEW line \in LineType
  PROVE  Follows(t, Conclude(t, line))
<1>1. Emit(t, line) \in TrackedType
  BY EmitType
<1> QED  BY <1>1, EmitCovers, MarkTerminalCovers DEF Conclude, Follows

\* Nor does starting.
LEMMA StartedCovers ==
  ASSUME NEW t \in TrackedType
  PROVE  Follows(t, Started(t))
<1> DEFINE u == [t EXCEPT !.state = "running"]
<1>1. /\ u \in TrackedType /\ u.incarnation = t.incarnation /\ u.acked = t.acked
      /\ u.last = t.last /\ u.events = t.events
  BY DEF TrackedType, States
<1> HIDE DEF u
<1>2. Follows(t, u)
  BY <1>1 DEF Follows, Covered
<1>3. Follows(u, Emit(u, StatusRunning))
  BY <1>1, EmitCovers, LineTypes
<1> QED  BY <1>2, <1>3 DEF Follows, Started, u

\* schedule() leaves every entry covered and of its incarnation.
LEMMA ScheduleFollows ==
  ASSUME NEW link, NEW q, NEW trk \in [Commands -> TrackedType],
         NEW rs, NEW flying, NEW owners,
         Schedule(link, q, trk, rs, flying, owners), NEW c \in Commands
  PROVE  Follows(trk[c], tracked'[c])
<1>1. tracked'[c] = trk[c] \/ tracked'[c] = Started(trk[c])
  <2>1. CASE ~link
    BY <2>1 DEF Schedule
  <2>2. CASE link
    <3>1. PICK P \in SUBSET (DOMAIN q) :
            tracked' = [d \in Commands |->
                          IF d \in {q[i] : i \in P} THEN Started(trk[d]) ELSE trk[d]]
      BY <2>2 DEF Schedule
    <3> QED  BY <3>1
  <2> QED  BY <2>1, <2>2
<1> QED  BY <1>1, StartedCovers DEF Follows

\* An execution touches its own entry at most, whatever that entry is by now.
LEMMA ExecutionEntry ==
  ASSUME TypeOK, NEW r \in runs,
         Settles(r) \/ TimeoutFires(r) \/ \E line \in Lines : StreamLine(r, line)
  PROVE  \E entry \in TrackedType :
           /\ Follows(tracked[r.command], entry)
           /\ \/ Finish(r, [tracked EXCEPT ![r.command] = entry])
              \/ \E changed : SetRun(r, changed) /\ tracked' = [tracked EXCEPT ![r.command] = entry]
<1> DEFINE t == tracked[r.command]
           Goal == \E entry \in TrackedType :
                     /\ Follows(t, entry)
                     /\ \/ Finish(r, [tracked EXCEPT ![r.command] = entry])
                        \/ \E changed : /\ SetRun(r, changed)
                                        /\ tracked' = [tracked EXCEPT ![r.command] = entry]
<1> SUFFICES Goal
  OBVIOUS
<1>1. t \in TrackedType /\ tracked = [tracked EXCEPT ![r.command] = t] /\ Follows(t, t)
  BY DEF TypeOK, RunType, Follows
<1> HIDE DEF t, Goal
<1>2. ASSUME NEW entry \in TrackedType, Follows(t, entry),
             Finish(r, [tracked EXCEPT ![r.command] = entry])
      PROVE  Goal
  BY <1>2 DEF Goal
<1>3. ASSUME NEW changed, SetRun(r, changed), NEW entry \in TrackedType,
             Follows(t, entry),
             tracked' = [tracked EXCEPT ![r.command] = entry]
      PROVE  Goal
  BY <1>3 DEF Goal
<1>4. ASSUME NEW changed, SetRun(r, changed), tracked' = tracked
      PROVE  Goal
  BY <1>1, <1>3, <1>4
<1>5. \A line \in LineType : /\ Conclude(t, line) \in TrackedType /\ Emit(t, line) \in TrackedType
                             /\ Follows(t, Conclude(t, line)) /\ Follows(t, Emit(t, line))
  BY <1>1, ConcludeCovers, EmitCovers, ConcludeType, EmitType
<1>6. CASE Fail(r)
  <2> DEFINE entry == IF disposed THEN MarkTerminal(t, "failed") ELSE Conclude(t, FailureLine(r))
  <2>1. FailureLine(r) \in LineType
    BY LineTypes DEF FailureLine
  <2>2. /\ MarkTerminal(t, "failed") \in TrackedType
        /\ Follows(t, MarkTerminal(t, "failed"))
    BY <1>1, MarkTerminalType, MarkTerminalCovers DEF Outcomes
  <2>3. entry \in TrackedType /\ Follows(t, entry)
    BY <1>5, <2>1, <2>2
  <2>4. Finish(r, [tracked EXCEPT ![r.command] = entry])
    BY <1>6 DEF Fail, t
  <2> HIDE DEF entry
  <2> QED  BY <1>2, <2>3, <2>4
<1>7. CASE PrepareResolves(r) \/ PrepareRejects(r) \/ FetchRejects(r) \/ ErrorBodyRead(r)
           \/ StreamBreaks(r)
  BY <1>4, <1>6, <1>7 DEF PrepareResolves, PrepareRejects, FetchRejects, ErrorBodyRead, StreamBreaks
<1>8. ASSUME NEW kind, ResponseArrives(r, kind)
      PROVE  Goal
  BY <1>4, <1>8 DEF ResponseArrives
<1>9. CASE EmptyStream(r)
  <2> DEFINE entry == IF t.incarnation = r.incarnation /\ t.outcome = "none"
                      THEN Conclude(t, Done) ELSE t
  <2>1. entry \in TrackedType /\ Follows(t, entry)
    BY <1>1, <1>5, LineTypes
  <2>2. Finish(r, [tracked EXCEPT ![r.command] = entry])
    BY <1>9 DEF EmptyStream, t
  <2> HIDE DEF entry
  <2> QED  BY <1>2, <2>1, <2>2
<1>10. CASE BodyRead(r)
  <2> DEFINE u == Emit(t, Result)
             entry == Conclude(u, Done)
  <2>1. u \in TrackedType /\ Follows(t, u)
    BY <1>5, LineTypes
  <2>2. Finish(r, [tracked EXCEPT ![r.command] = entry])
    BY <1>10 DEF BodyRead, t
  <2> HIDE DEF u
  <2>3. entry \in TrackedType /\ Follows(t, entry)
    BY <2>1, LineTypes, ConcludeCovers, ConcludeType DEF Follows
  <2> HIDE DEF entry
  <2> QED  BY <1>2, <2>2, <2>3
<1>11. CASE StreamEnds(r)
  <2>1. CASE r.emittedTerminal
    <3>1. Finish(r, [tracked EXCEPT ![r.command] = t])
      BY <1>1, <1>11, <2>1 DEF StreamEnds
    <3> QED  BY <1>1, <1>2, <3>1
  <2>2. CASE ~r.emittedTerminal
    <3>1. Finish(r, [tracked EXCEPT ![r.command] = Conclude(t, Done)])
      BY <1>11, <2>2 DEF StreamEnds, t
    <3> QED  BY <1>2, <1>5, <3>1, LineTypes
  <2> QED  BY <2>1, <2>2
<1>12. CASE TimeoutFires(r)
  BY <1>4, <1>12 DEF TimeoutFires
<1>13. ASSUME NEW line \in Lines, StreamLine(r, line)
       PROVE  Goal
  <2>1. line \in LineType
    BY ExecutorAssumption
  <2> DEFINE entry == IF IsTerminalEvent(line) THEN Conclude(t, line) ELSE Emit(t, line)
  <2>2. tracked' = [tracked EXCEPT ![r.command] = entry]
    BY <1>13 DEF StreamLine, t
  <2>3. entry \in TrackedType /\ Follows(t, entry)
    BY <1>5, <2>1
  <2>4. PICK changed : SetRun(r, changed)
    BY <1>13 DEF StreamLine
  <2> HIDE DEF entry
  <2> QED  BY <1>3, <2>2, <2>3, <2>4
<1> QED  BY <1>7, <1>8, <1>9, <1>10, <1>11, <1>12, <1>13 DEF Settles

(***************************************************************************)
(* Every queued command has been delivered, and while connected it waits   *)
(* for the limit or for its lock.                                          *)
(***************************************************************************)
Delivered(q, trk) == \A i \in DOMAIN q : trk[q[i]].incarnation > 0

WaitInv ==
  /\ LockInv
  /\ Delivered(queue, tracked)
  /\ connected /\ ~disposed =>
       \A i \in DOMAIN queue : Blocked(queue[i], inFlight, lockOwners)

\* A handler that ends in schedule() strands no command.
LEMMA ScheduleWaits ==
  ASSUME NEW link, NEW q \in Seq(Commands), NEW trk \in [Commands -> TrackedType],
         NEW rs, NEW flying \in [Commands -> Nat],
         NEW owners \in [LockKeys -> Commands \cup {Nobody}],
         Schedule(link, q, trk, rs, flying, owners),
         Delivered(q, trk), LockInv', connected' => link
  PROVE  WaitInv'
<1>1. /\ \A i \in DOMAIN queue' : \E j \in DOMAIN q : queue'[i] = q[j]
      /\ \A c \in Commands : tracked'[c].incarnation = trk[c].incarnation
      /\ link => \A i \in DOMAIN queue' : Blocked(queue'[i], inFlight', lockOwners')
  BY ScheduleStrandsNone DEF Delivered
<1>2. \A j \in DOMAIN q : q[j] \in Commands
  OBVIOUS
<1>3. Delivered(queue', tracked')
  BY <1>1, <1>2 DEF Delivered
<1> QED  BY <1>1, <1>3 DEF WaitInv

\* Each step leaves nothing waiting without a reason.
LEMMA WaitNext == WaitInv /\ [Next]_vars => WaitInv'
<1> SUFFICES ASSUME WaitInv, [Next]_vars PROVE WaitInv'
  OBVIOUS
<1>1. LockInv'
  BY LocksNext DEF WaitInv
<1>2. /\ queue \in Seq(Commands) /\ runs \subseteq RunType /\ inFlight \in [Commands -> Nat]
      /\ tracked \in [Commands -> TrackedType]
      /\ lockOwners \in [LockKeys -> Commands \cup {Nobody}]
      /\ \A c \in Commands : tracked[c] \in TrackedType /\ tracked[c].incarnation \in Nat
      /\ \A i \in DOMAIN queue : queue[i] \in Commands
  BY DEF WaitInv, LockInv, TypeOK, TrackedType
<1>3. Delivered(queue, tracked)
  BY DEF WaitInv
<1>4. ASSUME NEW trk, \A c \in Commands : trk[c].incarnation = tracked[c].incarnation
      PROVE  Delivered(queue, trk)
  BY <1>2, <1>3, <1>4 DEF Delivered
<1>5. ASSUME UNCHANGED <<queue, inFlight, lockOwners>>, connected' /\ ~disposed' => connected /\ ~disposed,
             \A c \in Commands : tracked'[c].incarnation = tracked[c].incarnation
      PROVE  WaitInv'
  BY <1>1, <1>4, <1>5 DEF WaitInv
<1>6. CASE UNCHANGED vars
  BY <1>5, <1>6 DEF vars
<1>7. ASSUME NEW value \in BOOLEAN, SetConnected(value)
      PROVE  WaitInv'
  <2>1. CASE value
    <3>1. PICK link : link /\ Schedule(link, queue, tracked, runs, inFlight, lockOwners)
      BY <1>7, <2>1 DEF SetConnected
    <3> QED  BY <1>1, <1>2, <1>3, <3>1, ScheduleWaits
  <2>2. CASE ~value
    BY <1>1, <1>3, <1>7, <2>2 DEF SetConnected, WaitInv
  <2> QED  BY <2>1, <2>2
<1>8. ASSUME NEW c \in Commands, NEW verified \in BOOLEAN, Enqueue(c, verified)
      PROVE  WaitInv'
  <2>1. PICK S \in Prunable :
          LET trk == Pruned(S)
              n   == trk[c].incarnation + 1
          IN  \/ /\ tracked' = trk
                 /\ UNCHANGED <<queue, inFlight, lockOwners>>
              \/ Schedule(connected, Append(queue, c), [trk EXCEPT ![c] = Queued(n)],
                          runs, inFlight, lockOwners)
    BY <1>8 DEF Enqueue
  <2> DEFINE trk == Pruned(S)
             entry == Queued(trk[c].incarnation + 1)
             new == [trk EXCEPT ![c] = entry]
             q == Append(queue, c)
  <2>2. ~disposed /\ UNCHANGED <<connected, disposed>>
    BY <1>8 DEF Enqueue
  <2>3. /\ trk \in [Commands -> TrackedType]
        /\ \A d \in Commands : trk[d].incarnation = tracked[d].incarnation
    <3>1. \A d \in Commands : /\ Untracked(tracked[d].incarnation) \in TrackedType
                              /\ Untracked(tracked[d].incarnation).incarnation = tracked[d].incarnation
      BY <1>2, UntrackedType, FreshEntry
    <3> QED  BY <1>2, <3>1 DEF Pruned
  <2> HIDE DEF trk
  <2>4. CASE tracked' = trk /\ UNCHANGED <<queue, inFlight, lockOwners>>
    BY <1>5, <2>2, <2>3, <2>4
  <2>5. CASE Schedule(connected, q, new, runs, inFlight, lockOwners)
    <3>1. trk[c].incarnation \in Nat /\ trk[c].incarnation + 1 \in Nat
      BY <1>2, <2>3
    <3>2. entry \in TrackedType /\ entry.incarnation > 0
      BY <3>1, UntrackedType, FreshEntry
    <3> HIDE DEF entry
    <3>3. /\ new \in [Commands -> TrackedType]
          /\ \A d \in Commands : new[d] = IF d = c THEN entry ELSE trk[d]
      BY <2>3, <3>2
    <3>4. /\ q \in Seq(Commands)
          /\ \A i \in DOMAIN q : q[i] = c \/ (i \in DOMAIN queue /\ q[i] = queue[i])
      <4>1. queue \in Seq(Commands)
        BY <1>2
      <4>2. /\ DOMAIN q = DOMAIN queue \cup {Len(queue) + 1}
            /\ \A i \in DOMAIN queue : q[i] = queue[i]
            /\ q[Len(queue) + 1] = c
        BY <4>1
      <4>3. q \in Seq(Commands)
        BY <4>1
      <4> QED  BY <4>2, <4>3
    <3> HIDE DEF new, q
    <3>5. Delivered(q, new)
      <4> SUFFICES ASSUME NEW i \in DOMAIN q PROVE new[q[i]].incarnation > 0
        BY DEF Delivered
      <4>1. CASE q[i] = c
        BY <3>2, <3>3, <4>1
      <4>2. CASE q[i] # c
        <5>1. i \in DOMAIN queue /\ q[i] = queue[i] /\ queue[i] \in Commands
          BY <1>2, <3>4, <4>2
        <5> QED  BY <1>3, <2>3, <3>3, <4>2, <5>1 DEF Delivered
      <4> QED  BY <4>1, <4>2
    <3> QED  BY <1>1, <1>2, <2>2, <2>5, <3>3, <3>4, <3>5, ScheduleWaits
  <2> QED  BY <2>1, <2>4, <2>5 DEF trk
<1>9. ASSUME NEW c \in Commands, CancelQueued(c)
      PROVE  WaitInv'
  <2>1. PICK p \in DOMAIN queue : queue' \in Without(queue, {p})
    BY <1>9 DEF CancelQueued
  <2>2. \A i \in DOMAIN queue' : \E j \in DOMAIN queue : queue'[i] = queue[j]
    BY <1>2, <2>1, WithoutKeeps
  <2>3. \A d \in Commands : tracked'[d].incarnation = tracked[d].incarnation
    <3>1. Conclude(tracked[c], DoneCancelled).incarnation = tracked[c].incarnation
      BY <1>2, LineTypes, ConcludeCovers DEF Follows
    <3>2. tracked' = [tracked EXCEPT ![c] = Conclude(tracked[c], DoneCancelled)]
      BY <1>9 DEF CancelQueued
    <3> QED  BY <1>2, <3>1, <3>2
  <2>4. UNCHANGED <<inFlight, lockOwners, connected, disposed>>
    BY <1>9 DEF CancelQueued
  <2>5. Delivered(queue', tracked')
    BY <1>2, <1>3, <2>2, <2>3 DEF Delivered
  <2>6. connected' /\ ~disposed' => \A i \in DOMAIN queue' : Blocked(queue'[i], inFlight', lockOwners')
    BY <2>2, <2>4 DEF WaitInv
  <2> QED  BY <1>1, <2>5, <2>6 DEF WaitInv
<1>10. ASSUME NEW c \in Commands, CancelRunning(c)
       PROVE  WaitInv'
  BY <1>5, <1>10 DEF CancelRunning
<1>11. ASSUME NEW c \in Commands, NEW sequence, Acknowledge(c, sequence)
       PROVE  WaitInv'
  <2>1. \A d \in Commands : tracked'[d].incarnation = tracked[d].incarnation
    BY <1>2, <1>11 DEF Acknowledge, TrackedType
  <2> QED  BY <1>5, <1>11, <2>1 DEF Acknowledge
<1>12. CASE Dispose
  <2>1. queue' = <<>> /\ disposed' = TRUE
    BY <1>12 DEF Dispose
  <2> QED  BY <1>1, <2>1 DEF WaitInv, Delivered
<1>13. ASSUME NEW r \in runs,
              Settles(r) \/ TimeoutFires(r) \/ \E line \in Lines : StreamLine(r, line)
       PROVE  WaitInv'
  <2>1. TypeOK /\ r.command \in Commands
    BY <1>2 DEF WaitInv, LockInv, RunType
  <2>2. PICK entry \in TrackedType :
          /\ Follows(tracked[r.command], entry)
          /\ \/ Finish(r, [tracked EXCEPT ![r.command] = entry])
             \/ \E changed : SetRun(r, changed) /\ tracked' = [tracked EXCEPT ![r.command] = entry]
    BY <1>13, <2>1, ExecutionEntry
  <2> DEFINE trk == [tracked EXCEPT ![r.command] = entry]
             flying == [inFlight EXCEPT ![r.command] = 0]
             owners == [k \in LockKeys |-> IF k = DeriveLockKey(r.command) THEN Nobody
                                           ELSE lockOwners[k]]
  <2>3. /\ trk \in [Commands -> TrackedType]
        /\ \A d \in Commands : trk[d].incarnation = tracked[d].incarnation
    BY <1>2, <2>1, <2>2 DEF Follows
  <2>4. flying \in [Commands -> Nat] /\ owners \in [LockKeys -> Commands \cup {Nobody}]
    BY <1>2
  <2> HIDE DEF trk
  <2>5. CASE Finish(r, trk)
    <3>1. /\ Schedule(connected, queue, trk, runs \ {r}, flying, owners)
          /\ UNCHANGED <<connected, disposed>>
      BY <2>5 DEF Finish
    <3> HIDE DEF flying, owners
    <3> QED  BY <1>1, <1>2, <1>4, <2>3, <2>4, <3>1, ScheduleWaits
  <2>6. CASE \E changed : SetRun(r, changed) /\ tracked' = trk
    BY <1>5, <2>3, <2>6 DEF SetRun
  <2> QED  BY <2>2, <2>5, <2>6 DEF trk
<1> QED  BY <1>6, <1>7, <1>8, <1>9, <1>10, <1>11, <1>12, <1>13 DEF Next

(***************************************************************************)
(* No wake-up is lost: while connected, a queued command waits only for    *)
(* room in flight or for its lock (setConnected, enqueue, cancel, the      *)
(* finally of execute).                                                    *)
(***************************************************************************)
THEOREM NothingIsStranded == Spec => []NoStrandedCommand
<1>1. Init => WaitInv
  <2> SUFFICES ASSUME Init, LockInv PROVE WaitInv
    BY LocksAtStart
  <2> QED  BY DEF Init, WaitInv, Delivered
<1>2. WaitInv => NoStrandedCommand
  BY BlockedPosition DEF WaitInv, NoStrandedCommand
<1> QED  BY <1>1, <1>2, WaitNext, PTL DEF Spec

(***************************************************************************)
(* Every entry keeps its unacknowledged events, step by step.              *)
(***************************************************************************)
AllCovered == \A c \in Commands : Covered(tracked[c])

\* Every step keeps what is not acknowledged in the buffers.
LEMMA CoverNext ==
  ASSUME TypeOK, AllCovered, [Next]_vars
  PROVE  AllCovered'
<1>1. /\ queue \in Seq(Commands) /\ runs \subseteq RunType /\ inFlight \in [Commands -> Nat]
      /\ tracked \in [Commands -> TrackedType]
      /\ lockOwners \in [LockKeys -> Commands \cup {Nobody}]
      /\ \A c \in Commands : tracked[c] \in TrackedType /\ tracked[c].incarnation \in Nat
  BY DEF TypeOK, TrackedType
<1>2. ASSUME \A c \in Commands : Follows(tracked[c], tracked'[c])
      PROVE  AllCovered'
  BY <1>2 DEF AllCovered, Follows
<1>3. \A t : Follows(t, t)
  BY DEF Follows
<1>4. CASE tracked' = tracked
  BY <1>2, <1>3, <1>4
<1>5. ASSUME NEW value \in BOOLEAN, SetConnected(value)
      PROVE  AllCovered'
  <2>1. CASE value
    <3>1. PICK link : Schedule(link, queue, tracked, runs, inFlight, lockOwners)
      BY <1>5, <2>1 DEF SetConnected
    <3> QED  BY <1>1, <1>2, <3>1, ScheduleFollows
  <2>2. CASE ~value
    BY <1>4, <1>5, <2>2 DEF SetConnected
  <2> QED  BY <2>1, <2>2
<1>6. ASSUME NEW c \in Commands, NEW verified \in BOOLEAN, Enqueue(c, verified)
      PROVE  AllCovered'
  <2>1. PICK S \in Prunable :
          LET trk == Pruned(S)
              n   == trk[c].incarnation + 1
          IN  \/ tracked' = trk
              \/ Schedule(connected, Append(queue, c), [trk EXCEPT ![c] = Queued(n)],
                          runs, inFlight, lockOwners)
    BY <1>6 DEF Enqueue
  <2> DEFINE trk == Pruned(S)
             entry == Queued(trk[c].incarnation + 1)
             new == [trk EXCEPT ![c] = entry]
  <2>2. \A n \in Nat : /\ Covered(Untracked(n)) /\ Covered(Queued(n))
                       /\ Untracked(n) \in TrackedType /\ Queued(n) \in TrackedType
                       /\ Untracked(n).incarnation = n
    <3>1. \A n \in Nat : /\ Untracked(n).acked = 0 /\ Untracked(n).last = 0
                         /\ Queued(n).acked = 0 /\ Queued(n).last = 0
      BY DEF Untracked, Queued
    <3> QED  BY <3>1, UntrackedType, FreshEntry DEF Covered
  <2>3. trk \in [Commands -> TrackedType] /\ \A d \in Commands : Covered(trk[d])
    BY <1>1, <2>2 DEF Pruned, AllCovered
  <2> HIDE DEF trk
  <2>4. CASE tracked' = trk
    BY <2>3, <2>4 DEF AllCovered
  <2>5. CASE Schedule(connected, Append(queue, c), new, runs, inFlight, lockOwners)
    <3>1. trk[c].incarnation \in Nat /\ trk[c].incarnation + 1 \in Nat
      BY <2>3 DEF TrackedType
    <3>2. entry \in TrackedType /\ Covered(entry)
      BY <2>2, <3>1
    <3> HIDE DEF entry
    <3>3. new \in [Commands -> TrackedType] /\ \A d \in Commands : Covered(new[d])
      BY <2>3, <3>2
    <3> HIDE DEF new
    <3>4. \A d \in Commands : Follows(new[d], tracked'[d])
      BY <2>5, <3>3, ScheduleFollows
    <3> QED  BY <3>3, <3>4 DEF Follows, AllCovered
  <2> QED  BY <2>1, <2>4, <2>5 DEF trk
<1>7. ASSUME NEW c \in Commands, CancelQueued(c)
      PROVE  AllCovered'
  <2>1. tracked' = [tracked EXCEPT ![c] = Conclude(tracked[c], DoneCancelled)]
    BY <1>7 DEF CancelQueued
  <2>2. Follows(tracked[c], Conclude(tracked[c], DoneCancelled))
    BY <1>1, LineTypes, ConcludeCovers
  <2>3. \A d \in Commands : Follows(tracked[d], tracked'[d])
    BY <1>1, <1>3, <2>1, <2>2
  <2> QED  BY <1>2, <2>3
<1>8. ASSUME NEW c \in Commands, CancelRunning(c)
      PROVE  AllCovered'
  BY <1>4, <1>8 DEF CancelRunning
<1>9. ASSUME NEW c \in Commands, NEW sequence \in AckSequences, Acknowledge(c, sequence)
      PROVE  AllCovered'
  <2> DEFINE t == tracked[c]
             u == tracked'[c]
             acked == IF sequence > t.acked THEN sequence ELSE t.acked
             kept == IF t.state = "terminal" THEN t.events
                     ELSE {e \in t.events : e.sequence > acked}
  <2>1. /\ u.acked = acked /\ u.last = t.last /\ u.events = kept
        /\ u.incarnation = t.incarnation
        /\ \A d \in Commands : d # c => tracked'[d] = tracked[d]
    BY <1>1, <1>9 DEF Acknowledge, TrackedType
  <2>2. /\ acked \in Nat /\ t.acked \in Nat /\ t.acked <= acked /\ t.last \in Nat
    BY <1>1, ExecutorAssumption DEF TrackedType
  <2>3. ASSUME NEW n \in (acked + 1)..t.last
        PROVE  \E e \in kept : e.sequence = n
    <3>1. n \in (t.acked + 1)..t.last /\ n > acked
      BY <2>2
    <3>2. PICK e \in t.events : e.sequence = n
      BY <3>1 DEF AllCovered, Covered
    <3> QED  BY <3>1, <3>2
  <2> HIDE DEF t, acked, kept, u
  <2>4. Covered(u)
    BY <2>1, <2>3 DEF Covered
  <2> QED  BY <2>1, <2>4 DEF AllCovered, u
<1>10. CASE Dispose
  <2>1. \A c \in Commands : tracked'[c].acked = 0 /\ tracked'[c].last = 0
    BY <1>10 DEF Dispose, Untracked
  <2> QED  BY <2>1 DEF AllCovered, Covered
<1>11. ASSUME NEW r \in runs,
              Settles(r) \/ TimeoutFires(r) \/ \E line \in Lines : StreamLine(r, line)
       PROVE  AllCovered'
  <2>1. PICK entry \in TrackedType :
          /\ Follows(tracked[r.command], entry)
          /\ \/ Finish(r, [tracked EXCEPT ![r.command] = entry])
             \/ \E changed : SetRun(r, changed) /\ tracked' = [tracked EXCEPT ![r.command] = entry]
    BY <1>11, ExecutionEntry
  <2> DEFINE trk == [tracked EXCEPT ![r.command] = entry]
  <2>2. trk \in [Commands -> TrackedType] /\ \A d \in Commands : Follows(tracked[d], trk[d])
    BY <1>1, <1>3, <2>1
  <2> HIDE DEF trk
  <2>3. CASE Finish(r, trk)
    <3>1. \A d \in Commands : Follows(trk[d], tracked'[d])
      BY <2>2, <2>3, ScheduleFollows DEF Finish
    <3> QED  BY <1>2, <2>2, <3>1 DEF Follows
  <2>4. CASE tracked' = trk
    BY <1>2, <2>2, <2>4
  <2> QED  BY <2>1, <2>3, <2>4 DEF trk
<1>12. CASE UNCHANGED vars
  BY <1>4, <1>12 DEF vars
<1> QED  BY <1>5, <1>6, <1>7, <1>8, <1>9, <1>10, <1>11, <1>12 DEF Next

(***************************************************************************)
(* What the cloud has not acknowledged of a command's events is buffered,  *)
(* so that a resume misses none, also of a command whose former execution  *)
(* still adds to it (acknowledge, emitTrackedEvent).                       *)
(***************************************************************************)
THEOREM BufferIsComplete == Spec => []BufferCoversUnacked
<1>1. Init => AllCovered
  <2> SUFFICES ASSUME Init, NEW c \in Commands PROVE Covered(tracked[c])
    BY DEF AllCovered
  <2>1. tracked[c].acked = 0 /\ tracked[c].last = 0
    BY DEF Init, Untracked
  <2> QED  BY <2>1 DEF Covered
<1>2. TypeOK /\ AllCovered /\ [Next]_vars => AllCovered'
  BY CoverNext
<1>3. AllCovered => BufferCoversUnacked
  BY DEF AllCovered, Covered, BufferCoversUnacked
<1> QED  BY <1>1, <1>2, <1>3, TypeCorrect, PTL DEF Spec

-----------------------------------------------------------------------------
(* The executor implements the service.                                    *)

(***************************************************************************)
(* What one step makes of the entry of a command it is not about: nothing, *)
(* a further event, its start, its being pruned.                           *)
(***************************************************************************)
Quiet(t, u) ==
  \/ /\ u.state = t.state /\ u.outcome = t.outcome
     /\ u.last = t.last \/ (t.state = "running" /\ u.last = t.last + 1)
  \/ /\ t.state = "queued" /\ u.state = "running"
     /\ u.outcome = t.outcome /\ u.last = t.last + 1
  \/ t.state = "terminal" /\ u.state = "untracked" /\ u.outcome = "none" /\ u.last = 0

\* And of the command it is about: admission or conclusion, besides.
Admitted(t, u) ==
  /\ t.state \in {"untracked", "terminal"}
  /\ u.outcome = "none"
  /\ \/ u.state = "queued" /\ u.last = 0
     \/ u.state = "running" /\ u.last = 1

Withdrawn(t, u) ==
  t.state = "queued" /\ u.state = "terminal" /\ u.outcome = "cancelled" /\ u.last = 1

Moves(t, u) == Quiet(t, u) \/ Admitted(t, u) \/ Withdrawn(t, u) \/ Ends(t, u)

\* schedule() on agreeing values moves entries quietly.
LEMMA ScheduleMoves ==
  ASSUME NEW link, NEW q \in Seq(Commands), NEW trk \in [Commands -> TrackedType],
         NEW rs \in SUBSET RunType, NEW flying \in [Commands -> Nat], NEW owners,
         Schedule(link, q, trk, rs, flying, owners),
         Serves(trk, rs), Linked(q, trk, rs, flying), NEW c \in Commands
  PROVE  \/ tracked'[c] = trk[c]
         \/ /\ trk[c].state = "queued" /\ trk[c].last = 0
            /\ tracked'[c].state = "running" /\ tracked'[c].last = 1
            /\ tracked'[c].outcome = trk[c].outcome
<1>1. \/ tracked'[c] = trk[c]
      \/ trk[c].state = "queued" /\ tracked'[c] = Started(trk[c])
  BY ScheduleKeepsLinks DEF Serves
<1>2. trk[c] \in TrackedType /\ EntryInv(trk[c])
  BY DEF Serves, Entries
<1>3. trk[c].state = "queued" => /\ Started(trk[c]).state = "running" /\ trk[c].last = 0
                                 /\ Started(trk[c]).outcome = "none" /\ trk[c].outcome = "none"
                                 /\ Started(trk[c]).last = trk[c].last + 1
  BY <1>2, StartedEntry DEF EntryInv
<1> QED  BY <1>1, <1>3

\* Moves of an entry by itself are those of an execution that goes on or ends.
LEMMA AdvancesMoves ==
  ASSUME NEW t, NEW u, Advances(t, u)
  PROVE  Moves(t, u)
BY DEF Advances, Emits, Moves, Quiet

(***************************************************************************)
(* Every step but dispose() is about one command at most.                  *)
(***************************************************************************)
LEMMA ServiceSteps ==
  ASSUME ServiceInv, StreamsEndInTime, Next, ~Dispose
  PROVE  /\ disposed' = disposed
         /\ \E d : \A c \in Commands :
              /\ Moves(tracked[c], tracked'[c])
              /\ c # d => Quiet(tracked[c], tracked'[c])
<1> DEFINE About(d) == \A c \in Commands : /\ Moves(tracked[c], tracked'[c])
                                           /\ c # d => Quiet(tracked[c], tracked'[c])
           Goal == disposed' = disposed /\ \E d : About(d)
<1> SUFFICES Goal
  OBVIOUS
<1>1. /\ queue \in Seq(Commands) /\ runs \in SUBSET RunType /\ inFlight \in [Commands -> Nat]
      /\ tracked \in [Commands -> TrackedType]
      /\ lockOwners \in [LockKeys -> Commands \cup {Nobody}]
      /\ \A c \in Commands : tracked[c] \in TrackedType /\ tracked[c].incarnation \in Nat
  BY DEF ServiceInv, LockInv, TypeOK, TrackedType
<1>2. /\ Serves(tracked, runs)
      /\ ~disposed => Linked(queue, tracked, runs, inFlight)
      /\ disposed => Detached(tracked, inFlight) /\ queue = <<>>
  BY DEF ServiceInv, Serves, Detached, LockInv, NothingQueuedAfterDispose
<1>3. ASSUME disposed' = disposed, \A c \in Commands : Quiet(tracked[c], tracked'[c])
      PROVE  Goal
  BY <1>3 DEF Moves
<1>4. \A t : Quiet(t, t)
  BY DEF Quiet
<1> HIDE DEF Goal
<1>5. CASE disposed' = disposed /\ tracked' = tracked
  BY <1>3, <1>4, <1>5
<1>6. ASSUME NEW value \in BOOLEAN, SetConnected(value)
      PROVE  Goal
  <2>1. CASE ~value
    BY <1>5, <1>6, <2>1 DEF SetConnected
  <2>2. CASE value
    <3>1. PICK link : Schedule(link, queue, tracked, runs, inFlight, lockOwners)
      BY <1>6, <2>2 DEF SetConnected
    <3>2. disposed' = disposed
      BY <1>6 DEF SetConnected
    <3>3. CASE disposed
      <4>1. Schedule(link, <<>>, tracked, runs, inFlight, lockOwners)
        BY <1>2, <3>1, <3>3
      <4>2. \A c \in Commands : tracked'[c] = tracked[c]
        BY <4>1, ScheduleIdle
      <4> QED  BY <1>3, <1>4, <3>2, <4>2
    <3>4. CASE ~disposed
      <4>1. ASSUME NEW c \in Commands
            PROVE  Quiet(tracked[c], tracked'[c])
        BY <1>1, <1>2, <3>1, <3>4, ScheduleMoves DEF Quiet
      <4> QED  BY <1>3, <3>2, <4>1
    <3> QED  BY <3>3, <3>4
  <2> QED  BY <2>1, <2>2
<1>7. ASSUME NEW e \in Commands, NEW verified \in BOOLEAN, Enqueue(e, verified)
      PROVE  Goal
  <2>1. /\ ~disposed /\ disposed' = disposed
        /\ \E S \in Prunable :
             LET trk == Pruned(S)
                 n   == trk[e].incarnation + 1
             IN  \/ tracked' = trk
                 \/ /\ trk[e].state = "untracked"
                    /\ Schedule(connected, Append(queue, e), [trk EXCEPT ![e] = Queued(n)],
                                runs, inFlight, lockOwners)
    BY <1>7 DEF Enqueue
  <2>2. PICK S \in Prunable :
          LET trk == Pruned(S)
              n   == trk[e].incarnation + 1
          IN  \/ tracked' = trk
              \/ /\ trk[e].state = "untracked"
                 /\ Schedule(connected, Append(queue, e), [trk EXCEPT ![e] = Queued(n)],
                             runs, inFlight, lockOwners)
    BY <2>1
  <2> DEFINE trk == Pruned(S)
             entry == Queued(trk[e].incarnation + 1)
             new == [trk EXCEPT ![e] = entry]
  <2>3. /\ trk \in [Commands -> TrackedType] /\ Serves(trk, runs)
        /\ Linked(queue, trk, runs, inFlight)
        /\ \A c \in Commands : \/ trk[c] = tracked[c]
                               \/ /\ tracked[c].state = "terminal"
                                  /\ trk[c] = Untracked(tracked[c].incarnation)
    BY <2>1, PruneServes
  <2> HIDE DEF trk
  <2>4. \A c \in Commands : trk[c] = tracked[c]
          \/ (tracked[c].state = "terminal" /\ trk[c].state = "untracked"
              /\ trk[c].outcome = "none" /\ trk[c].last = 0)
    <3>1. \A n : /\ Untracked(n).state = "untracked" /\ Untracked(n).outcome = "none"
                 /\ Untracked(n).last = 0
      BY DEF Untracked
    <3> QED  BY <2>3, <3>1
  <2>5. CASE tracked' = trk
    BY <1>3, <1>4, <2>1, <2>4, <2>5 DEF Quiet
  <2>6. CASE /\ trk[e].state = "untracked"
             /\ Schedule(connected, Append(queue, e), new, runs, inFlight, lockOwners)
    <3>1. /\ new \in [Commands -> TrackedType] /\ Serves(new, runs)
          /\ Linked(Append(queue, e), new, runs, inFlight)
      BY <1>1, <2>3, <2>6, AppendServes
    <3>2. Append(queue, e) \in Seq(Commands)
      BY <1>1
    <3>3. entry.state = "queued" /\ entry.outcome = "none" /\ entry.last = 0
      BY DEF Queued, Untracked
    <3> HIDE DEF entry
    <3>4. \A c \in Commands : new[c] = IF c = e THEN entry ELSE trk[c]
      BY <2>3
    <3>5. Schedule(connected, Append(queue, e), new, runs, inFlight, lockOwners)
      BY <2>6
    <3> HIDE DEF new
    <3>6. \A c \in Commands :
            \/ tracked'[c] = new[c]
            \/ /\ new[c].state = "queued" /\ new[c].last = 0
               /\ tracked'[c].state = "running" /\ tracked'[c].last = 1
               /\ tracked'[c].outcome = new[c].outcome
      BY <1>1, <3>1, <3>2, <3>5, ScheduleMoves
    <3>7. ASSUME NEW c \in Commands, c # e
          PROVE  Quiet(tracked[c], tracked'[c])
      BY <2>4, <3>4, <3>6, <3>7 DEF Quiet
    <3>8. Admitted(tracked[e], tracked'[e])
      BY <2>4, <2>6, <3>3, <3>4, <3>6 DEF Admitted
    <3>9. About(e)
      BY <3>7, <3>8 DEF Moves
    <3> QED  BY <2>1, <3>9 DEF Goal
  <2> QED  BY <2>2, <2>5, <2>6 DEF trk
<1>8. ASSUME NEW e \in Commands, CancelQueued(e)
      PROVE  Goal
  <2>1. tracked[e].state = "queued" /\ tracked[e] \in TrackedType /\ EntryInv(tracked[e])
    BY <1>1, <1>8, CancelQueuedServes DEF ServiceInv, Entries
  <2>2. tracked' = [tracked EXCEPT ![e] = Conclude(tracked[e], DoneCancelled)] /\ disposed' = disposed
    BY <1>8 DEF CancelQueued
  <2>3. /\ Conclude(tracked[e], DoneCancelled).state = "terminal"
        /\ Conclude(tracked[e], DoneCancelled).outcome = ResolveTerminalState(DoneCancelled)
        /\ Conclude(tracked[e], DoneCancelled).last = tracked[e].last + 1
    BY <2>1, TerminalLines, ConcludeEntry DEF Open
  <2>4. ResolveTerminalState(DoneCancelled) = "cancelled"
    BY DEF ResolveTerminalState, DoneCancelled, Line
  <2>5. Withdrawn(tracked[e], tracked'[e])
    BY <1>1, <2>1, <2>2, <2>3, <2>4 DEF Withdrawn, EntryInv
  <2>6. \A c \in Commands : c # e => tracked'[c] = tracked[c]
    BY <1>1, <2>2
  <2>7. About(e)
    BY <1>4, <2>5, <2>6 DEF Moves
  <2> QED  BY <2>2, <2>7 DEF Goal
<1>9. ASSUME NEW e \in Commands, CancelRunning(e)
      PROVE  Goal
  BY <1>5, <1>9 DEF CancelRunning
<1>10. ASSUME NEW e \in Commands, NEW sequence, Acknowledge(e, sequence)
       PROVE  Goal
  <2>1. \A c \in Commands : /\ tracked'[c].state = tracked[c].state
                            /\ tracked'[c].outcome = tracked[c].outcome
                            /\ tracked'[c].last = tracked[c].last
    BY <1>1, <1>10 DEF Acknowledge, TrackedType
  <2>2. disposed' = disposed
    BY <1>10 DEF Acknowledge
  <2> QED  BY <1>3, <2>1, <2>2 DEF Quiet
<1>11. ASSUME NEW r \in runs,
              Settles(r) \/ TimeoutFires(r) \/ \E line \in Lines : StreamLine(r, line)
       PROVE  Goal
  <2>1. PICK entry \in TrackedType :
          /\ Advances(tracked[r.command], entry)
          /\ RunEnds(r, entry) \/ \E changed \in RunType : RunGoesOn(r, changed, entry)
    BY <1>11, ExecutionSteps
  <2> DEFINE trk == [tracked EXCEPT ![r.command] = entry]
  <2>2. /\ \A c \in Commands : c # r.command => trk[c] = tracked[c]
        /\ trk[r.command] = entry /\ r.command \in Commands
    BY <1>1 DEF RunType
  <2>3. Moves(tracked[r.command], entry)
    BY <2>1, AdvancesMoves
  <2>4. CASE \E changed \in RunType : RunGoesOn(r, changed, entry)
    <3>1. tracked' = trk /\ disposed' = disposed
      BY <2>4 DEF RunGoesOn, SetRun
    <3> HIDE DEF trk
    <3>2. About(r.command)
      <4>1. \A c \in Commands : c # r.command => tracked'[c] = tracked[c]
        BY <2>2, <3>1
      <4>2. tracked'[r.command] = entry
        BY <2>2, <3>1
      <4> QED  BY <1>4, <2>3, <4>1, <4>2 DEF Moves
    <3> QED  BY <3>1, <3>2 DEF Goal
  <2>5. CASE RunEnds(r, entry)
    <3>1. PICK rs \in SUBSET RunType, flying \in [Commands -> Nat],
               owners \in [LockKeys -> Commands \cup {Nobody}] :
            /\ trk \in [Commands -> TrackedType]
            /\ Schedule(connected, queue, trk, rs, flying, owners)
            /\ disposed' = disposed
            /\ Serves(trk, rs)
            /\ ~disposed => Linked(queue, trk, rs, flying)
            /\ disposed => queue = <<>> /\ \A d \in Commands : trk[d] = tracked[d]
      BY <2>1, <2>5, EndAgrees
    <3> HIDE DEF trk
    <3>2. CASE disposed
      <4>1. Schedule(connected, <<>>, trk, rs, flying, owners)
        BY <3>1, <3>2
      <4>2. \A c \in Commands : tracked'[c] = tracked[c]
        BY <3>1, <3>2, <4>1, ScheduleIdle
      <4> QED  BY <1>3, <1>4, <3>1, <4>2
    <3>3. CASE ~disposed
      <4>1. \A c \in Commands :
              \/ tracked'[c] = trk[c]
              \/ /\ trk[c].state = "queued" /\ trk[c].last = 0
                 /\ tracked'[c].state = "running" /\ tracked'[c].last = 1
                 /\ tracked'[c].outcome = trk[c].outcome
        BY <1>1, <3>1, <3>3, ScheduleMoves
      <4>2. entry.state = "terminal"
        BY <2>5, <3>3 DEF RunEnds
      <4>3. ASSUME NEW c \in Commands, c # r.command
            PROVE  Quiet(tracked[c], tracked'[c])
        BY <2>2, <4>1, <4>3 DEF Quiet
      <4>4. tracked'[r.command] = entry
        BY <2>2, <4>1, <4>2
      <4>5. About(r.command)
        BY <2>3, <4>3, <4>4 DEF Moves
      <4> QED  BY <3>1, <4>5 DEF Goal
    <3> QED  BY <3>2, <3>3
  <2> QED  BY <2>1, <2>4, <2>5
<1> QED  BY <1>6, <1>7, <1>8, <1>9, <1>10, <1>11 DEF Next

\* The stage of a command is the state of its entry.
StageAgrees ==
  \A c \in Commands :
    /\ tracked[c].state \in States
    /\ Stage(c) = "absent" <=> tracked[c].state = "untracked"
    /\ Stage(c) = "waiting" <=> tracked[c].state = "queued"
    /\ Stage(c) = "running" <=> tracked[c].state = "running"
    /\ Stage(c) = "concluded" <=> tracked[c].state = "terminal"
    /\ Stage(c) \in {"absent", "waiting", "running", "concluded"}

\* Stages and states are one to one.
LEMMA StageOf == ServiceInv => StageAgrees
<1> SUFFICES ASSUME ServiceInv, NEW c \in Commands
             PROVE  /\ tracked[c].state \in States
                    /\ Stage(c) = "absent" <=> tracked[c].state = "untracked"
                    /\ Stage(c) = "waiting" <=> tracked[c].state = "queued"
                    /\ Stage(c) = "running" <=> tracked[c].state = "running"
                    /\ Stage(c) = "concluded" <=> tracked[c].state = "terminal"
                    /\ Stage(c) \in {"absent", "waiting", "running", "concluded"}
  BY DEF StageAgrees
<1>1. tracked[c].state \in States
  BY DEF ServiceInv, LockInv, TypeOK, TrackedType
<1>2. CASE tracked[c].state = "untracked"
  BY <1>2 DEF Stage, States
<1>3. CASE tracked[c].state = "queued"
  BY <1>3 DEF Stage, States
<1>4. CASE tracked[c].state = "running"
  BY <1>4 DEF Stage, States
<1>5. CASE tracked[c].state = "terminal"
  BY <1>5 DEF Stage, States
<1> QED  BY <1>1, <1>2, <1>3, <1>4, <1>5 DEF States

\* The service's commands that run are executed, apart and within the limit.
RunsAsPromised ==
  /\ Cardinality(Service!Running) <= Limit
  /\ \A c, d \in Service!Running :
       DeriveLockKey(c) # NoLock /\ DeriveLockKey(c) = DeriveLockKey(d) => c = d

\* Executions being apart and within the limit, running commands are.
LEMMA ServiceRunning == ServiceInv => RunsAsPromised
<1> SUFFICES ASSUME ServiceInv PROVE RunsAsPromised
  OBVIOUS
<1>1. ASSUME NEW c \in Service!Running
      PROVE  c \in Commands /\ \E r \in runs : r.command = c
  <2>1. c \in Commands /\ tracked[c] \in TrackedType
    BY <1>1 DEF Service!Running, ServiceInv, LockInv, TypeOK
  <2>2. Stage(c) = "running"
    BY <1>1, <2>1 DEF Service!Running
  <2>3. tracked[c].state = "running"
    BY <2>1, <2>2, StageOf DEF StageAgrees
  <2>4. ~disposed
    BY <2>1, <2>3 DEF ServiceInv
  <2> QED  BY <2>1, <2>3, <2>4 DEF ServiceInv, Linked, RunsAgree
<1>2. Service!Running \in SUBSET Busy(runs)
  BY <1>1 DEF Busy
<1>3. Busy(runs) \in SUBSET Commands
  BY DEF ServiceInv, LockInv, TypeOK, RunType, Busy
<1>4. IsFiniteSet(Busy(runs))
  BY <1>3, ExecutorAssumption, FS_Subset
<1>5. IsFiniteSet(Service!Running) /\ Cardinality(Service!Running) <= Cardinality(Busy(runs))
  BY <1>2, <1>4, FS_Subset
<1>6. Cardinality(Service!Running) \in Nat /\ Cardinality(Busy(runs)) \in Nat
  BY <1>4, <1>5, FS_CardinalityType
<1>7. Cardinality(Service!Running) <= Limit
  BY <1>5, <1>6, LimitType DEF ServiceInv
<1>8. ASSUME NEW c \in Service!Running, NEW d \in Service!Running,
             DeriveLockKey(c) # NoLock, DeriveLockKey(c) = DeriveLockKey(d)
      PROVE  c = d
  <2>1. PICK r \in runs : r.command = c
    BY <1>1
  <2>2. PICK s \in runs : s.command = d
    BY <1>1
  <2>3. r = s
    BY <1>8, <2>1, <2>2 DEF ServiceInv, LockInv, LockExclusion
  <2> QED  BY <2>1, <2>2, <2>3
<1> QED  BY <1>7, <1>8 DEF RunsAsPromised

\* A step of an entry is a step of its command in the service.
LEMMA CommandSteps ==
  ASSUME StageAgrees, StageAgrees', NEW c \in Commands
  PROVE  /\ Moves(tracked[c], tracked'[c]) =>
              \/ Service!Idle(c) \/ Service!Admit(c) \/ Service!Begin(c)
              \/ Service!Conclude(c) \/ Service!Forget(c)
         /\ Quiet(tracked[c], tracked'[c]) => ~(Service!Admit(c) \/ Service!Conclude(c))
<1> DEFINE t == tracked[c]
           u == tracked'[c]
<1>1. /\ t.state \in States /\ u.state \in States
      /\ Stage(c) = "absent" <=> t.state = "untracked"
      /\ Stage(c) = "waiting" <=> t.state = "queued"
      /\ Stage(c) = "running" <=> t.state = "running"
      /\ Stage(c) = "concluded" <=> t.state = "terminal"
      /\ Stage(c)' = "absent" <=> u.state = "untracked"
      /\ Stage(c)' = "waiting" <=> u.state = "queued"
      /\ Stage(c)' = "running" <=> u.state = "running"
      /\ Stage(c)' = "concluded" <=> u.state = "terminal"
      /\ Stage(c) \in {"absent", "waiting", "running", "concluded"}
      /\ Stage(c)' \in {"absent", "waiting", "running", "concluded"}
  BY DEF StageAgrees
<1>2. t.state = u.state <=> Stage(c) = Stage(c)'
  BY <1>1 DEF States
<1> HIDE DEF t, u
<1>3. /\ Service!Idle(c) <=>
           /\ Stage(c)' = Stage(c) /\ u.outcome = t.outcome
           /\ u.last = t.last \/ (Stage(c) = "running" /\ u.last = t.last + 1)
      /\ Service!Admit(c) <=>
           /\ Stage(c) \in {"absent", "concluded"} /\ u.outcome = "none"
           /\ (Stage(c)' = "waiting" /\ u.last = 0) \/ (Stage(c)' = "running" /\ u.last = 1)
      /\ Service!Begin(c) <=>
           /\ Stage(c) = "waiting" /\ Stage(c)' = "running"
           /\ u.last = t.last + 1 /\ u.outcome = t.outcome
      /\ Service!Conclude(c) <=>
           /\ Stage(c)' = "concluded"
           /\ \/ Stage(c) = "waiting" /\ u.outcome = "cancelled" /\ u.last = 1
              \/ /\ Stage(c) = "running" /\ u.outcome \in {"done", "failed", "cancelled"}
                 /\ u.last \in {t.last + 1, t.last + 2}
      /\ Service!Forget(c) <=>
           /\ Stage(c) = "concluded" /\ Stage(c)' = "absent"
           /\ u.outcome = "none" /\ u.last = 0
  BY DEF Service!Idle, Service!Admit, Service!Begin, Service!Conclude, Service!Forget, t, u
<1>4. Quiet(t, u) => Service!Idle(c) \/ Service!Begin(c) \/ Service!Forget(c)
  BY <1>1, <1>2, <1>3 DEF Quiet
<1>5. Admitted(t, u) => Service!Admit(c)
  BY <1>1, <1>3 DEF Admitted
<1>6. Withdrawn(t, u) \/ Ends(t, u) => Service!Conclude(c)
  BY <1>1, <1>3 DEF Withdrawn, Ends
<1>7. Quiet(t, u) => ~(Service!Admit(c) \/ Service!Conclude(c))
  BY <1>1, <1>3 DEF Quiet
<1> QED  BY <1>4, <1>5, <1>6, <1>7 DEF Moves, t, u

\* A step of the executor is a step of the service or leaves it as it was.
LEMMA ServiceNext ==
  ASSUME StreamsEndInTime, ServiceInv, StageAgrees, StageAgrees', RunsAsPromised', [Next]_vars
  PROVE  [Service!Next]_(Service!vars)
<1>1. CASE UNCHANGED vars
  BY <1>1 DEF vars, Service!vars, Stage
<1>2. CASE Dispose
  <2>1. /\ disposed = FALSE /\ disposed' = TRUE
        /\ tracked' = [c \in Commands |-> Untracked(tracked[c].incarnation)]
    BY <1>2 DEF Dispose, ServiceInv, LockInv, TypeOK
  <2>2. \A c \in Commands : /\ tracked'[c].state = "untracked" /\ tracked'[c].outcome = "none"
                            /\ tracked'[c].last = 0
    <3>1. \A n : /\ Untracked(n).state = "untracked" /\ Untracked(n).outcome = "none"
                 /\ Untracked(n).last = 0
      BY DEF Untracked
    <3> QED  BY <2>1, <3>1
  <2>3. \A c \in Commands : Stage(c)' = "absent"
    BY <2>2 DEF StageAgrees
  <2>4. /\ [c \in Commands |-> Stage(c)'] = [c \in Commands |-> "absent"]
        /\ [c \in Commands |-> tracked'[c].outcome] = [c \in Commands |-> "none"]
        /\ [c \in Commands |-> tracked'[c].last] = [c \in Commands |-> 0]
    BY <2>2, <2>3
  <2>5. Service!Close
    BY <2>1, <2>4 DEF Service!Close
  <2> QED  BY <2>5 DEF Service!Next
<1>3. CASE Next /\ ~Dispose
  <2>1. disposed' = disposed
    BY <1>3, ServiceSteps
  <2>2. PICK d : \A c \in Commands : /\ Moves(tracked[c], tracked'[c])
                                     /\ c # d => Quiet(tracked[c], tracked'[c])
    BY <1>3, ServiceSteps
  <2>3. \A c \in Commands : \/ Service!Idle(c) \/ Service!Admit(c) \/ Service!Begin(c)
                            \/ Service!Conclude(c) \/ Service!Forget(c)
    BY <2>2, CommandSteps
  <2>4. \A c \in Commands : Service!Admit(c) \/ Service!Conclude(c) => c = d
    BY <2>2, CommandSteps
  <2>5. \A c, e \in Commands :
          (Service!Admit(c) \/ Service!Conclude(c)) /\ (Service!Admit(e) \/ Service!Conclude(e))
          => c = e
    BY <2>4
  <2>6. Service!Step
    <3>1. Service!Cardinality(Service!Running') <= Limit
      BY DEF RunsAsPromised, Cardinality, Service!Cardinality
    <3>2. \A c, e \in Service!Running' :
            DeriveLockKey(c) # NoLock /\ DeriveLockKey(c) = DeriveLockKey(e) => c = e
      BY DEF RunsAsPromised
    <3> QED  BY <2>1, <2>3, <2>5, <3>1, <3>2 DEF Service!Step
  <2> QED  BY <2>6 DEF Service!Next
<1> QED  BY <1>1, <1>2, <1>3

(***************************************************************************)
(* The executor implements the service: gap-free numbering, at most one    *)
(* conclusion, exclusion by lock key and the limit hold over every step of *)
(* enqueue, cancel, acknowledge, schedule, execute and dispose, for any    *)
(* commands and limits, while no stream outlives the retention of its      *)
(* command.                                                                *)
(***************************************************************************)
THEOREM ExecutorImplementsService ==
  ASSUME StreamsEndInTime
  PROVE  Spec => ImplementsService
<1>1. Init => Service!Init
  <2> SUFFICES ASSUME Init PROVE Service!Init
    OBVIOUS
  <2>1. \A c \in Commands : /\ tracked[c].state = "untracked" /\ tracked[c].outcome = "none"
                            /\ tracked[c].last = 0
    BY DEF Init, Untracked
  <2>2. \A c \in Commands : Stage(c) = "absent"
    BY <2>1, InitServes, StageOf DEF StageAgrees
  <2>3. disposed = FALSE
    BY DEF Init
  <2>4. /\ [c \in Commands |-> Stage(c)] = [c \in Commands |-> "absent"]
        /\ [c \in Commands |-> tracked[c].outcome] = [c \in Commands |-> "none"]
        /\ [c \in Commands |-> tracked[c].last] = [c \in Commands |-> 0]
    BY <2>1, <2>2
  <2> QED  BY <2>3, <2>4 DEF Service!Init
<1>2. /\ ServiceInv /\ StageAgrees /\ StageAgrees' /\ RunsAsPromised' /\ [Next]_vars
      => [Service!Next]_(Service!vars)
  BY ServiceNext
<1>3. Spec => []ServiceInv
  BY ServiceInvariant
<1>4. ServiceInv => StageAgrees /\ RunsAsPromised
  BY StageOf, ServiceRunning
<1> QED  BY <1>1, <1>2, <1>3, <1>4, PTL DEF Spec, ImplementsService, Service!Spec

=============================================================================
