--------------------------- MODULE CommandExecutor ---------------------------
(***************************************************************************)
(* CloudCommandExecutor: it queues the commands the cloud sends, runs at   *)
(* most Limit of them at a time through the local gateway, never two with  *)
(* the same lock key, and keeps the events of each one in a buffer until   *)
(* the cloud has acknowledged them.                                        *)
(*                                                                         *)
(* JavaScript runs a handler to its next await without interruption, so    *)
(* an action is one such segment: a method call, or what follows an await  *)
(* (preparation, response headers, response body, a line of a stream).     *)
(*                                                                         *)
(* A command pruned from the tracking map may be delivered again.  The     *)
(* incarnation number tells the TrackedCommand objects of one commandId    *)
(* apart, and so the executions that captured them.                        *)
(***************************************************************************)
EXTENDS CommandEnvelope, FiniteSets, Sequences

CONSTANTS
  Lines,                 \* mapped stream lines: event type and its flags
  MaxInFlightCommands,
  MaxRetainedTerminal,   \* MAX_RETAINED_TERMINAL_COMMANDS
  StreamsEndInTime,      \* no stream stays open for the retention time after
                         \* its terminal line (the gateway ends it at once)
  Nobody,                \* a lock nobody owns
  NoStats,               \* no queue statistics emitted yet
  MaxIncarnations,       \* bound: deliveries of a command that start anew
  MaxEvents,             \* bound: a stream line is read below this sequence
  AckSequences           \* bound: the sequences the cloud acknowledges

EventTypes == {"status", "chunk", "result", "error", "done"}

LineType == [type : EventTypes, terminal : BOOLEAN, cancelled : BOOLEAN]

ASSUME ExecutorAssumption ==
  /\ Lines \subseteq LineType
  /\ MaxInFlightCommands \in Int
  /\ MaxRetainedTerminal \in Nat
  /\ StreamsEndInTime \in BOOLEAN
  /\ MaxIncarnations \in Nat
  /\ MaxEvents \in Nat
  /\ AckSequences \subseteq Nat
  /\ Nobody \notin Commands
  /\ IsFiniteSet(Commands)

VARIABLES
  queue,             \* the queue of command ids
  tracked,           \* trackedByCommandId, one record per command id
  inFlight,          \* inFlightByCommandId: the incarnation running, or 0
  lockOwners,        \* lockOwners
  runs,              \* the executions that have not reached their finally
  connected,
  disposed,
  lastEmittedStats

vars == <<queue, tracked, inFlight, lockOwners, runs, connected, disposed,
          lastEmittedStats>>

-----------------------------------------------------------------------------
(* Events, tracked commands, executions.                                   *)

Event == [sequence : Nat, type : EventTypes, terminal : BOOLEAN,
          cancelled : BOOLEAN]

States == {"untracked", "queued", "running", "terminal"}
Outcomes == {"none", "done", "failed", "cancelled"}

(***************************************************************************)
(* A TrackedCommand.  State "untracked" is the absence of a map entry;     *)
(* incarnation then counts the objects created so far.                     *)
(***************************************************************************)
TrackedType ==
  [ state       : States,
    outcome     : Outcomes,          \* terminalState
    incarnation : Nat,
    last        : Nat,               \* lastEmittedSequence
    acked       : Nat,               \* buffered.lastAckedSequence
    events      : SUBSET Event ]     \* buffered.events, ordered by sequence

Untracked(n) ==
  [state |-> "untracked", outcome |-> "none", incarnation |-> n, last |-> 0,
   acked |-> 0, events |-> {}]

Queued(n) == [Untracked(n) EXCEPT !.state = "queued"]

(***************************************************************************)
(* The awaits of an execution: prepareCommandForExecution, the response    *)
(* headers, a non-streaming body, the body of an error response, a stream. *)
(***************************************************************************)
Phases == {"preparing", "fetching", "body", "errorBody", "streaming"}

RunType ==
  [ command         : Commands,
    incarnation     : Nat,
    phase           : Phases,
    timer           : BOOLEAN,       \* the timeout timer is armed
    timedOut        : BOOLEAN,
    cancelRequested : BOOLEAN,
    shutdown        : BOOLEAN,       \* aborted by dispose()
    emittedTerminal : BOOLEAN ]      \* consumeStreamResponse's local

NewRun(c, n) ==
  [command |-> c, incarnation |-> n, phase |-> "preparing",
   timer |-> Envelope[c].timed, timedOut |-> FALSE, cancelRequested |-> FALSE,
   shutdown |-> FALSE, emittedTerminal |-> FALSE]

\* abortController.signal is aborted: the next fetch or read rejects.
Aborted(r) == r.timedOut \/ r.cancelRequested \/ r.shutdown

IsTerminalEvent(e) ==
  e.type = "done" \/ (e.type \in {"error", "result"} /\ e.terminal)

ResolveTerminalState(e) ==
  IF e.type = "done" THEN (IF e.cancelled THEN "cancelled" ELSE "done")
  ELSE IF e.type = "result" THEN "done"
  ELSE "failed"

Line(type, terminal, cancelled) ==
  [type |-> type, terminal |-> terminal, cancelled |-> cancelled]

StatusRunning == Line("status", FALSE, FALSE)
Result        == Line("result", FALSE, FALSE)
Done          == Line("done", FALSE, FALSE)
DoneCancelled == Line("done", FALSE, TRUE)
ErrorTerminal == Line("error", TRUE, FALSE)

\* The entry accepts events and state changes: it exists and is not terminal.
Open(t) == t.state \notin {"untracked", "terminal"}

\* emitTrackedEvent, on the entry it changes.
Emit(t, line) ==
  IF ~Open(t) THEN t
  ELSE [t EXCEPT !.last = @ + 1,
                 !.events = @ \cup {[sequence |-> t.last + 1,
                                     type |-> line.type,
                                     terminal |-> line.terminal,
                                     cancelled |-> line.cancelled]}]

MarkTerminal(t, outcome) ==
  IF ~Open(t) THEN t
  ELSE [t EXCEPT !.state = "terminal", !.outcome = outcome]

MutantConclude(t, line) == Emit(MarkTerminal(t, ResolveTerminalState(line)), line)

Conclude(t, line) == MarkTerminal(Emit(t, line), ResolveTerminalState(line))

\* execute(), up to the status event: the state is overwritten unchecked.
Started(t) == Emit([t EXCEPT !.state = "running"], StatusRunning)

-----------------------------------------------------------------------------
(* The scheduler.                                                          *)

Limit == IF MaxInFlightCommands > 1 THEN MaxInFlightCommands ELSE 1

InFlightIds(flying) == {c \in Commands : flying[c] # 0}

MutantStats(q, flying) ==
  [activeCommands |-> Cardinality(InFlightIds(flying)), queueDepth |-> Len(q) - 1]

Stats(q, flying) ==
  [activeCommands |-> Cardinality(InFlightIds(flying)), queueDepth |-> Len(q)]

MutantLockIsFree(c, owners) == TRUE

LockIsFree(c, owners) ==
  DeriveLockKey(c) # NoLock => owners[DeriveLockKey(c)] = Nobody

MutantCanStart(i, P, q, flying, owners) ==
  LET before == {q[j] : j \in {k \in P : k < i}}
  IN  /\ Cardinality(InFlightIds(flying) \cup before) <= Limit
      /\ LockIsFree(q[i], owners)
      /\ \A c \in before :
           DeriveLockKey(c) = NoLock \/ DeriveLockKey(c) # DeriveLockKey(q[i])

(***************************************************************************)
(* The loop of schedule() takes the first eligible command while there is  *)
(* room.  Locks are only taken in the loop, so a command passed over stays *)
(* ineligible and one pass over the queue picks the same commands: those   *)
(* at positions P, where i is in P iff room and its lock remain free after *)
(* the picks before i.                                                     *)
(***************************************************************************)
CanStart(i, P, q, flying, owners) ==
  LET before == {q[j] : j \in {k \in P : k < i}}
  IN  /\ Cardinality(InFlightIds(flying) \cup before) < Limit
      /\ LockIsFree(q[i], owners)
      /\ \A c \in before :
           DeriveLockKey(c) = NoLock \/ DeriveLockKey(c) # DeriveLockKey(q[i])

IsSchedule(P, q, flying, owners) ==
  \A i \in DOMAIN q : i \in P <=> CanStart(i, P, q, flying, owners)

\* The increasing enumeration of a set of positions.
Enumerations(S) ==
  {f \in UNION {[1..k -> S] : k \in 0..Cardinality(S)} :
     /\ \A s \in S : \E i \in DOMAIN f : f[i] = s
     /\ \A i, j \in DOMAIN f : i < j => f[i] < f[j]}

\* q without the positions in P, the order of the others kept.
Without(q, P) ==
  {[i \in DOMAIN f |-> q[f[i]]] : f \in Enumerations(DOMAIN q \ P)}

(***************************************************************************)
(* schedule(), called with the connection and the values the caller has    *)
(* computed so far.                                                        *)
(* Outside a connection it neither starts a command nor reports the        *)
(* queue statistics.                                                       *)
(***************************************************************************)
Schedule(link, q, trk, rs, flying, owners) ==
  IF ~link
  THEN /\ queue' = q
       /\ tracked' = trk
       /\ runs' = rs
       /\ inFlight' = flying
       /\ lockOwners' = owners
       /\ UNCHANGED lastEmittedStats
  ELSE \E P \in SUBSET (DOMAIN q) :
         LET started == {q[i] : i \in P}
         IN  /\ IsSchedule(P, q, flying, owners)
             /\ queue' \in Without(q, P)
             /\ tracked' = [c \in Commands |->
                              IF c \in started THEN Started(trk[c]) ELSE trk[c]]
             /\ runs' = rs \cup {NewRun(c, trk[c].incarnation) : c \in started}
             /\ inFlight' = [c \in Commands |->
                              IF c \in started THEN trk[c].incarnation
                                               ELSE flying[c]]
             /\ lockOwners' = [k \in LockKeys |->
                                IF \E c \in started : DeriveLockKey(c) = k
                                THEN CHOOSE c \in started : DeriveLockKey(c) = k
                                ELSE owners[k]]
             /\ lastEmittedStats' = Stats(queue', inFlight')

-----------------------------------------------------------------------------
(* Calls from the cloud socket and the application.                        *)

Init ==
  /\ queue = <<>>
  /\ tracked = [c \in Commands |-> Untracked(0)]
  /\ inFlight = [c \in Commands |-> 0]
  /\ lockOwners = [k \in LockKeys |-> Nobody]
  /\ runs = {}
  /\ connected = FALSE
  /\ disposed = FALSE
  /\ lastEmittedStats = NoStats

MutantSetConnected(value) ==
  /\ connected' = value
  /\ UNCHANGED <<queue, tracked, runs, inFlight, lockOwners, lastEmittedStats,
                 disposed>>

SetConnected(value) ==
  /\ connected' = value
  /\ IF value
     THEN Schedule(TRUE, queue, tracked, runs, inFlight, lockOwners)
     ELSE UNCHANGED <<queue, tracked, runs, inFlight, lockOwners,
                      lastEmittedStats>>
  /\ UNCHANGED disposed

(***************************************************************************)
(* pruneTerminalCommands.  Time is abstracted: any terminal command may    *)
(* have outlived COMMAND_RETENTION_MS, and at most MaxRetainedTerminal of  *)
(* them are kept.  The code does not look whether the execution goes on:   *)
(* only StreamsEndInTime spares a command that is still in flight.         *)
(***************************************************************************)
Terminal == {c \in Commands : tracked[c].state = "terminal"}

Spared == IF StreamsEndInTime THEN {r.command : r \in runs} ELSE {}

Prunable == {S \in SUBSET (Terminal \ Spared) :
               Cardinality(Terminal \ (S \cup Spared)) <= MaxRetainedTerminal}

Pruned(S) == [c \in Commands |->
                IF c \in S THEN Untracked(tracked[c].incarnation)
                           ELSE tracked[c]]

(***************************************************************************)
(* enqueue().  A command that is tracked is only acknowledged again; one   *)
(* that is not must pass the signature check (its verdict is an input) and *)
(* validateCommand.  runShutdownSequence stops the socket, and with it the *)
(* delivery of commands, before it disposes the executor.                  *)
(***************************************************************************)
Enqueue(c, verified) ==
  /\ ~disposed
  /\ \E S \in Prunable :
       LET trk == Pruned(S)
           n   == trk[c].incarnation + 1
       IN  IF trk[c].state # "untracked" \/ ~verified \/ ~Envelope[c].valid
           THEN /\ tracked' = trk
                /\ UNCHANGED <<queue, runs, inFlight, lockOwners,
                               lastEmittedStats>>
           ELSE /\ n <= MaxIncarnations
                /\ Schedule(connected, Append(queue, c),
                            [trk EXCEPT ![c] = Queued(n)], runs, inFlight, lockOwners)
  /\ UNCHANGED <<connected, disposed>>

\* The execution whose RunningCommand is in the in-flight map.
IsCurrent(r) == inFlight[r.command] = r.incarnation

MutantCancelQueued(c) ==
  /\ ~disposed
  /\ \E i \in DOMAIN queue :
       /\ queue[i] = c
       /\ \A j \in 1..(i - 1) : queue[j] # c
       /\ queue' \in Without(queue, {i})
  /\ tracked' = [tracked EXCEPT ![c] = Emit(@, DoneCancelled)]
  /\ lastEmittedStats' = Stats(queue', inFlight)
  /\ UNCHANGED <<runs, inFlight, lockOwners, connected, disposed>>

CancelQueued(c) ==
  /\ ~disposed
  /\ \E i \in DOMAIN queue :
       /\ queue[i] = c
       /\ \A j \in 1..(i - 1) : queue[j] # c
       /\ queue' \in Without(queue, {i})
  /\ tracked' = [tracked EXCEPT ![c] = Conclude(@, DoneCancelled)]
  /\ lastEmittedStats' = Stats(queue', inFlight)
  /\ UNCHANGED <<runs, inFlight, lockOwners, connected, disposed>>

CancelRunning(c) ==
  /\ ~disposed
  /\ \A i \in DOMAIN queue : queue[i] # c
  /\ \E r \in runs :
       /\ r.command = c
       /\ IsCurrent(r)
       /\ runs' = (runs \ {r}) \cup {[r EXCEPT !.cancelRequested = TRUE]}
  /\ UNCHANGED <<queue, tracked, inFlight, lockOwners, connected, disposed,
                 lastEmittedStats>>

MutantAcknowledge(c, sequence) ==
  /\ tracked[c].state # "untracked"
  /\ tracked' = [tracked EXCEPT
                   ![c].acked = sequence,
                   ![c].events = {e \in @ : e.sequence > sequence}]
  /\ UNCHANGED <<queue, runs, inFlight, lockOwners, connected, disposed,
                 lastEmittedStats>>

MutantAcknowledgeMore(c, sequence) ==
  /\ tracked[c].state # "untracked"
  /\ tracked' = [tracked EXCEPT
                   ![c].acked = sequence - 1,
                   ![c].events = {e \in @ : e.sequence > sequence}]
  /\ UNCHANGED <<queue, runs, inFlight, lockOwners, connected, disposed,
                 lastEmittedStats>>

(***************************************************************************)
(* acknowledge().  The number is the cloud's: nothing relates it to the    *)
(* incarnation tracked now.  A terminal command keeps its buffer.          *)
(***************************************************************************)
Acknowledge(c, sequence) ==
  /\ tracked[c].state # "untracked"
  /\ LET acked == IF sequence > tracked[c].acked THEN sequence
                                                 ELSE tracked[c].acked
     IN  tracked' = [tracked EXCEPT
                       ![c].acked = acked,
                       ![c].events = IF tracked[c].state = "terminal" THEN @
                                     ELSE {e \in @ : e.sequence > acked}]
  /\ UNCHANGED <<queue, runs, inFlight, lockOwners, connected, disposed,
                 lastEmittedStats>>

MutantDispose ==
  /\ ~disposed
  /\ disposed' = TRUE
  /\ runs' = {IF IsCurrent(r) THEN [r EXCEPT !.timer = FALSE, !.shutdown = TRUE]
                              ELSE r : r \in runs}
  /\ inFlight' = [c \in Commands |-> 0]
  /\ lockOwners' = [k \in LockKeys |-> Nobody]
  /\ tracked' = [c \in Commands |-> Untracked(tracked[c].incarnation)]
  /\ UNCHANGED <<queue, connected, lastEmittedStats>>

Dispose ==
  /\ ~disposed
  /\ disposed' = TRUE
  /\ runs' = {IF IsCurrent(r) THEN [r EXCEPT !.timer = FALSE, !.shutdown = TRUE]
                              ELSE r : r \in runs}
  /\ queue' = <<>>
  /\ inFlight' = [c \in Commands |-> 0]
  /\ lockOwners' = [k \in LockKeys |-> Nobody]
  /\ tracked' = [c \in Commands |-> Untracked(tracked[c].incarnation)]
  /\ UNCHANGED <<connected, lastEmittedStats>>

-----------------------------------------------------------------------------
(* Executions.                                                             *)

MutantFinish(r, trk) ==
  /\ UNCHANGED <<connected, disposed>>
  /\ Schedule(connected, queue, trk, runs \ {r},
              [inFlight EXCEPT ![r.command] = 0], lockOwners)

(***************************************************************************)
(* The finally block of execute(): the entries of the command id and of    *)
(* the lock are deleted, whoever they belong to, and the queue is          *)
(* scheduled again.  trk is the tracking map the outcome left.             *)
(***************************************************************************)
Finish(r, trk) ==
  /\ UNCHANGED <<connected, disposed>>
  /\ Schedule(connected, queue, trk, runs \ {r},
              [inFlight EXCEPT ![r.command] = 0],
              [k \in LockKeys |-> IF k = DeriveLockKey(r.command) THEN Nobody
                                  ELSE lockOwners[k]])

\* What the catch block emits: shutdown, cancellation, timeout, failure.
FailureLine(r) == IF r.cancelRequested THEN DoneCancelled ELSE ErrorTerminal

Fail(r) ==
  Finish(r, [tracked EXCEPT ![r.command] =
               IF disposed THEN MarkTerminal(@, "failed")
                           ELSE Conclude(@, FailureLine(r))])

SetRun(r, changed) ==
  /\ runs' = (runs \ {r}) \cup {changed}
  /\ UNCHANGED <<queue, inFlight, lockOwners, connected, disposed,
                 lastEmittedStats>>

\* prepareCommandForExecution settles; a fetch with an aborted signal rejects.
PrepareResolves(r) ==
  /\ r.phase = "preparing"
  /\ IF Aborted(r) THEN Fail(r)
     ELSE SetRun(r, [r EXCEPT !.phase = "fetching"]) /\ UNCHANGED tracked

PrepareRejects(r) == r.phase = "preparing" /\ Fail(r)

\* The response headers: a stream, an error or another non-streaming body.
ResponseArrives(r, kind) ==
  /\ r.phase = "fetching"
  /\ ~Aborted(r)
  /\ SetRun(r, [r EXCEPT !.phase = kind])
  /\ UNCHANGED tracked

FetchRejects(r) == r.phase = "fetching" /\ Fail(r)

(***************************************************************************)
(* A stream response without a body: the check after the await concludes   *)
(* the command unless the entry execute() captured has a terminalState (a  *)
(* captured entry that was pruned has one).                                *)
(***************************************************************************)
EmptyStream(r) ==
  /\ r.phase = "fetching"
  /\ ~Aborted(r)
  /\ Finish(r, [tracked EXCEPT ![r.command] =
                  IF @.incarnation = r.incarnation /\ @.outcome = "none"
                  THEN Conclude(@, Done) ELSE @])

(***************************************************************************)
(* A non-streaming body is read inside a catch that yields null or "", so  *)
(* an abort while it is read ends in a result all the same.                *)
(***************************************************************************)
BodyRead(r) ==
  /\ r.phase = "body"
  /\ Finish(r, [tracked EXCEPT ![r.command] = Conclude(Emit(@, Result), Done)])

ErrorBodyRead(r) == r.phase = "errorBody" /\ Fail(r)

StreamLine(r, line) ==
  /\ r.phase = "streaming"
  /\ ~Aborted(r)
  /\ tracked[r.command].last < MaxEvents
  /\ SetRun(r, [r EXCEPT !.emittedTerminal = @ \/ IsTerminalEvent(line)])
  /\ tracked' = [tracked EXCEPT ![r.command] =
                   IF IsTerminalEvent(line) THEN Conclude(@, line)
                                            ELSE Emit(@, line)]

StreamEnds(r) ==
  /\ r.phase = "streaming"
  /\ ~Aborted(r)
  /\ Finish(r, IF r.emittedTerminal THEN tracked
               ELSE [tracked EXCEPT ![r.command] = Conclude(@, Done)])

StreamBreaks(r) == r.phase = "streaming" /\ Fail(r)

TimeoutFires(r) ==
  /\ r.timer
  /\ SetRun(r, [r EXCEPT !.timer = FALSE, !.timedOut = TRUE])
  /\ UNCHANGED tracked

\* An await of the execution settles for good.
Settles(r) ==
  \/ PrepareResolves(r)
  \/ PrepareRejects(r)
  \/ \E kind \in {"body", "errorBody", "streaming"} : ResponseArrives(r, kind)
  \/ FetchRejects(r)
  \/ EmptyStream(r)
  \/ BodyRead(r)
  \/ ErrorBodyRead(r)
  \/ StreamEnds(r)
  \/ StreamBreaks(r)

Next ==
  \/ \E value \in BOOLEAN : SetConnected(value)
  \/ \E c \in Commands, verified \in BOOLEAN : Enqueue(c, verified)
  \/ \E c \in Commands : CancelQueued(c) \/ CancelRunning(c)
  \/ \E c \in Commands, sequence \in AckSequences :
       Acknowledge(c, sequence)
  \/ Dispose
  \/ \E r \in runs : Settles(r) \/ TimeoutFires(r)
  \/ \E r \in runs, line \in Lines : StreamLine(r, line)

Spec == Init /\ [][Next]_vars

-----------------------------------------------------------------------------
(* Safety.                                                                 *)

StatsType == [activeCommands : Nat, queueDepth : Nat] \cup {NoStats}

\* Every variable has its type.
TypeOK ==
  /\ queue \in Seq(Commands)
  /\ tracked \in [Commands -> TrackedType]
  /\ inFlight \in [Commands -> Nat]
  /\ lockOwners \in [LockKeys -> Commands \cup {Nobody}]
  /\ runs \subseteq RunType
  /\ connected \in BOOLEAN
  /\ disposed \in BOOLEAN
  /\ lastEmittedStats \in StatsType

(***************************************************************************)
(* Two executions never overlap when their commands have the same lock     *)
(* key, whatever was pruned, delivered again, cancelled or timed out in    *)
(* between (schedule and the finally of execute; "Conflicting commands are *)
(* serialized by lock key").                                               *)
(***************************************************************************)
LockExclusion ==
  \A r, s \in runs :
    /\ DeriveLockKey(r.command) = DeriveLockKey(s.command)
    /\ DeriveLockKey(r.command) # NoLock
    => r = s

(***************************************************************************)
(* A lock has an owner exactly as long as an execution of that command     *)
(* holds it: none leaks, none is released early (execute, dispose).        *)
(***************************************************************************)
LocksHeldByRuns ==
  ~disposed =>
    \A k \in LockKeys, c \in Commands :
      lockOwners[k] = c <=>
        DeriveLockKey(c) = k /\ \E r \in runs : r.command = c

(***************************************************************************)
(* The executions themselves never outnumber maxInFlightCommands: the      *)
(* in-flight map that schedule() counts stands for all of them.            *)
(***************************************************************************)
RunsWithinCapacity == Cardinality(runs) <= Limit

(***************************************************************************)
(* The queue holds exactly the commands tracked as queued, each one once   *)
(* (enqueue, cancel, schedule).                                            *)
(***************************************************************************)
QueueMatchesTracked ==
  /\ \A i, j \in DOMAIN queue : queue[i] = queue[j] => i = j
  /\ \A c \in Commands :
       tracked[c].state = "queued" <=> \E i \in DOMAIN queue : queue[i] = c

(***************************************************************************)
(* Every emitted event the cloud has not acknowledged is still buffered,   *)
(* so that a resume from the acknowledged sequence misses none             *)
(* (acknowledge, replayFrom).                                              *)
(***************************************************************************)
BufferCoversUnacked ==
  \A c \in Commands :
    \A n \in (tracked[c].acked + 1)..tracked[c].last :
      \E e \in tracked[c].events : e.sequence = n

(***************************************************************************)
(* A command has a terminal event iff it is terminal; that event is unique *)
(* and the last one, and stays buffered after it was acknowledged, for a   *)
(* redelivered command to be answered from (emitTrackedEvent,              *)
(* markTerminal, acknowledge).                                             *)
(***************************************************************************)
TerminalEventIsLast ==
  \A c \in Commands :
    /\ tracked[c].state = "terminal" =>
         \E e \in tracked[c].events :
           IsTerminalEvent(e) /\ e.sequence = tracked[c].last
    /\ \A e \in tracked[c].events :
         IsTerminalEvent(e) => /\ tracked[c].state = "terminal"
                               /\ e.sequence = tracked[c].last

(***************************************************************************)
(* No wake-up is lost: while connected, no queued command waits with room  *)
(* in flight and its lock free (every path that frees either schedules).   *)
(***************************************************************************)
NoStrandedCommand ==
  connected /\ ~disposed =>
    \A i \in DOMAIN queue : ~CanStart(i, {}, queue, inFlight, lockOwners)

(***************************************************************************)
(* Once disposed, no execution begins: the ones dispose() aborted still    *)
(* run their catch and finally, and schedule while the executor believes   *)
(* itself connected (dispose, execute, schedule).                          *)
(***************************************************************************)
NothingStartsAfterDispose ==
  [][disposed => \A r \in runs' : \E s \in runs :
                   r.command = s.command /\ r.incarnation = s.incarnation]_vars

-----------------------------------------------------------------------------
(* Liveness and the abstract specification.                                *)

(***************************************************************************)
(* The socket reconnects for as long as it is not stopped, and the gateway *)
(* answers or drops every request, so the awaits of an execution settle.   *)
(***************************************************************************)
Reconnect == ~connected /\ SetConnected(TRUE)

Fairness ==
  /\ WF_vars(Reconnect)
  /\ \A c \in Commands : WF_vars(\E r \in runs : r.command = c /\ Settles(r))

FairSpec == Spec /\ Fairness

Stage(c) ==
  CASE tracked[c].state = "untracked" -> "absent"
    [] tracked[c].state = "queued"    -> "waiting"
    [] tracked[c].state = "running"   -> "running"
    [] tracked[c].state = "terminal"  -> "concluded"

Service == INSTANCE CommandService
  WITH LockOf   <- DeriveLockKey,
       stage    <- [c \in Commands |-> Stage(c)],
       sequence <- [c \in Commands |-> tracked[c].last],
       outcome  <- [c \in Commands |-> tracked[c].outcome],
       closed   <- disposed

(***************************************************************************)
(* The executor implements the service: gap-free numbering, one            *)
(* conclusion, exclusion by lock key and the limit, over every step.       *)
(***************************************************************************)
ImplementsService == Service!Spec

(***************************************************************************)
(* A command that was accepted reaches its terminal event, whatever else   *)
(* was queued, cancelled or timed out and however often the connection     *)
(* broke (schedule on every path that frees a slot or a lock).             *)
(***************************************************************************)
AcceptedConcludes == Service!EventuallyConcludes

-----------------------------------------------------------------------------
(* Statements of the repository that the code does not keep.               *)

(***************************************************************************)
(* "emits terminal timeout error when command exceeds timeoutMs": a command*)
(* whose timeout fired while it ran does not end as done (the timer of     *)
(* execute and the catch block).                                           *)
(***************************************************************************)
TimedOutNeverDone ==
  [][\A r \in runs :
       r.timedOut /\ IsCurrent(r) /\ tracked[r.command].state = "running"
       => tracked'[r.command].outcome # "done"]_vars

=============================================================================
