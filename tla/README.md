# A verification development for the ClosedLoop desktop gateway

The repository (`src/apps/desktop`) is an Electron application that runs beside a
developer's repositories. A cloud relay sends it commands; it runs them through a
local HTTP gateway, asks the user where a policy says so, and keeps long-running
*loops* (child processes with a token of their own) alive and reported. This
directory holds TLA+ modules for its control core, TLC configurations that check
them on small instances and TLAPS proofs about them.

Paths below are relative to `src/apps/desktop/src/`. `PROJECT.json` lists every
component, run, mutant, hazard and theorem and maps each definition to the lines it
models.

## 1. The system

### Components, state and operations

| component | file | state | operations |
|---|---|---|---|
| CloudCommandExecutor | `main/cloud-command-executor.ts` | queue, tracked commands with event buffers, in-flight map, lock owners, connected, disposed | setConnected, enqueue, cancel, acknowledge, replayFrom, dispose; internally schedule, execute, prune |
| CloudSocket | `main/cloud-socket.ts` | socket, timers, stopped, last presence | start, stop, restart, handlers of connect, disconnect, connect_error, hello.ack, commands |
| GatewayRecoveryManager | `main/gateway-recovery.ts` | epoch, recovery in flight, gateway health | recoverGateway, onCloudOnline, onUnexpectedClose |
| Gateway server | `server/server.ts` | http server, port, discovery file | start, stop, restart |
| Composition root | `main/app.ts` | cloud status, pause switch, shutting down | status handler, presence, approval of requests, IPC |
| ApprovalStore | `main/approval-store.ts` | pending approvals, waiters, decided ones, file | enqueue, waitForDecision, approve, deny, alwaysAllow, clear |
| Loop token refresh | `main/loop-refresh*.ts`, `main/loop-scheduler-context.ts`, `main/loop-token-store.ts`, `main/loop-404-gate.ts`, `main/loop-sleep-recovery.ts` | token on disk, timers, singleflight map, gate | startRefresh, tick, refreshLoopToken, teardownLoop, resume |
| Loop heartbeat, finalizer, job store, boot recovery | `main/loop-heartbeat.ts`, `main/loop-finalizer.ts`, `main/job-store.ts`, `main/boot-recovery.ts` | intervals, jobs on disk, latches | heartbeat, finalize, upsert, run |
| Output tailer | `server/operations/output-tailer.ts` | offsets, poll in flight, stopped | poll, stop, flush |
| Loop launch and completion | `server/operations/symphony-loop.ts` | running loops | launch, completion, kill |
| Agent session sync | `main/agent-session-sync-service.ts` | cursors, queues, dead letters | tick, ack, source reset |
| Cost reconciliation | `main/reconciliation-worker.ts` | cells due | one pass over the vendors |
| Command keys | `main/command-key-reconciler.ts` and neighbours | authorized keys | reconcile, verify |
| Shutdown | `main/shutdown.ts` | phase, time limit | run |

The rest (request handlers for git, files, chat and deployment; packs; collectors and
the database; onboarding; telemetry; the user interface) is I/O or data transformation;
`PROJECT.json` gives the reason for each.

### Interactions

- The relay delivers a command to CloudSocket, which calls `enqueue`; the executor
  fetches it from the gateway server over loopback HTTP; the router awaits
  `evaluateApproval` (ApprovalStore) before it dispatches the operation; the response,
  or each line of a stream, becomes an event the executor numbers, buffers and sends.
- The socket's status goes to the composition root, which starts the recovery manager's
  probe and tells the executor whether it is connected. The relay is told a *presence*
  by four different places: the socket, the recovery manager, the pause switch and the
  handler of queue statistics.
- A loop launched by a command leaves behind timers (refresh, heartbeat, sleep
  registration, tailer) that all use its token, and entries on disk (token, job) that
  boot recovery reads after a restart.
- Shutdown stops the socket, disposes the executor and stops the server, in this order.

### What is hard

One JavaScript thread, so no data races; but every `await` is a point where anything
else may run. The hard behaviours are (a) state captured before an await and used after
it, (b) several recoveries, refreshes or decisions of the same thing overlapping,
(c) redelivery of commands whose tracking was pruned, (d) timeouts racing answers,
(e) crashes between a write to disk and the request it announces, (f) wake-ups: whoever
frees a slot, a lock or a singleflight entry must let the next one in. `PROJECT.json`
"hazards" lists each at its line with the properties that would catch it.

### What makes each component correct

- **Executor**: commands with one lock key never overlap; at most the limit run; every
  accepted command reaches exactly one terminal event, the last of a gap-free numbering;
  what is not acknowledged stays buffered; nothing is stranded in the queue; nothing
  starts after dispose.
- **Recovery**: the executor is connected only to a healthy gateway and during an online
  cloud status; old probes are void; a gateway that is down comes back; the relay is told
  what holds.
- **Refresh**: one refresh for all who need it; its idempotency key survives a crash;
  nothing is sent past a 404; a running loop keeps being renewed.
- **Approvals**: every waiting request can be decided and is answered; equal requests
  share one decision; force-interactive operations are never let through unasked; the
  index, the list and the file agree.
- **Socket**: it comes online again from wherever it is; a gateway that is down is bound
  again by the reconnects.
- **Loop lifecycle**: a running loop is not recorded as ended; work that was done is not
  reported as failed; a kill stops the completion; a job is only "finalized in the cloud"
  behind a final event; the token outlives every report that is still to be retried; the job
  of a process that exited ends for good.
- **Session sync**: no change of a session slips between the cursor and the queues, and
  each reaches the relay.
- **Output tailer**: what it passes over, the cloud has, so that a restart loses nothing;
  each token is counted once; the exit of the process flushes what is left.

## 2. The modules

| module | what it is |
|---|---|
| `CommandEnvelope` | commands and `DeriveLockKey` (deriveLockKey with its `??` chain, including that a blank string stops the chain) |
| `CommandService` | abstract specification: what the executor promises, without queue, locks, buffers or executions |
| `CommandExecutor` | the executor; every await of `execute` is an action boundary |
| `MCCommandExecutor` | instances for TLC |
| `CommandExecutorProofs` | types, lock discipline, no execution begins after dispose, queue and tracking, the limit, buffers, no stranded command, the refinement of `CommandService` |
| `GatewayRecovery` | server, recovery manager, the socket's statuses and the composition root between them |
| `GatewayRecoveryProofs` | its invariant |
| `CloudLink` | the cloud socket joined to `GatewayRecovery`: connections, the hello handshake and its timers, reconnects, start, stop and forced restart |
| `CloudLinkProofs` | the socket implements what `GatewayRecovery` assumes of it |
| `LoopRefresh` | the token of one loop and everything that refreshes it, with crashes |
| `LoopRefreshProofs` | its invariant |
| `Approvals` | approval store, policy and the user's decisions, with restarts |
| `MCApprovals` | its instance for TLC |
| `ApprovalsProofs` | its invariant |
| `LoopLifecycle` | one loop from launch to its last record: process, job store, exit handler, heartbeats, kill, job list, boot recovery, crashes |
| `LoopLifecycleProofs` | its invariant, and the action property of the token |
| `SessionSync` | the agent session sync and the part of the socket that hands its batches to the relay |
| `SessionSyncProofs` | its invariant |
| `OutputTailer` | the tailer of one loop: polls, frames, retries, throttle, flush, stop, the change of files, and boot recovery's use of the stored offset |
| `OutputTailerProofs` | its invariant |

### Correspondence to the code

**CommandExecutor.** `queue`, `tracked`, `inFlight`, `lockOwners`, `connected`,
`disposed`, `lastEmittedStats` are the class fields. `runs` is the set of executions
between their start and their `finally`: in the code it exists only as suspended
`execute` calls, and it is what the locks and the in-flight map are about. A run's
`phase` names the await it is in. `Schedule` is the whole loop of `schedule()`: `IsSchedule`
characterises the positions of the queue it takes, in place of iterating; `Finish` is the
`finally` with the schedule call it makes. Since a command id can be tracked again
after its terminal entry was pruned, an *incarnation* number tells the objects
apart that the code tells apart by reference. `pruneTerminalCommands` is part of
`Enqueue`; the retention time becomes "any terminal command may be old enough".
`StreamsEndInTime` says whether the gateway ends a stream within the retention time of
its terminal line; both values are checked. `StreamLine` is one line per action, finer
than the code, which handles all lines of a chunk at once: it allows more interleavings.
Command payloads, acks, telemetry and the gateway's request headers are left out; the
verdict of the signature check is an input.

**GatewayRecovery.** `restart` is the await a recovery is in (`stop()`, binding a port,
writing the discovery file). `probes` are the awaits of `onCloudOnline`; only whether
their epoch is the present one matters, so all old ones are one value, and increasing
the epoch makes them old. The status handler, the hello.ack handler and the presence they
send happen within one event and are one action (`HelloAck`). `SocketStops` leaves
`connected` alone because `setCloudConnectionEnabled(false)` and the deletion of a
configuration do not tell the executor; hence the `socketOn` in `ConnectedOnlyWhileOnline`.

**LoopRefresh.** `store` is the entry on disk, `handle` the entry of the context's
`refreshes` map and `armed` the timers that really exist: the two differ, which is what
`RenewalReschedules` is about. `flights` are the calls of `refreshLoopToken` that await an
answer, `shared` the singleflight entry, `gated` the 404 gate. `launched` remembers that
a launched loop falls back to its launch token. `alone` is a history bit. A `Crash`
keeps `store` only.

**Approvals.** `pending`, `index`, `waiters`, `resolved` are the store's maps, `stored` the
file, `timers` the armed timeouts, `rules` the unexpired always-allow rules. `Ask` is
`evaluateApproval` up to its await, the answer is part of the deciding action since the
continuation is a microtask. A rule is saved for a force-interactive operation too (the IPC
handler does), and `NeedsDecision` must then ignore it. Two switches are left out because
they keep requests from the store altogether: an unfinished set-up (everything is denied)
and `dangerousAutoApprove` (everything is allowed).

**CloudLink.** It extends `GatewayRecovery`, whose socket is a list of statuses that come as
they like: here they come from `link` (the socket), `awaiting`, `helloTimer`, `reconnect`
(fields of `CloudSocketService`), and every action of the socket is an action of
`GatewayRecovery` or leaves its variables alone, which `LinkImplementsRecovery` proves.
`hellos` are the hellos the relay has yet to handle: one is sent again at each timeout, so
that a late answer may follow the answer that was waited for. `start()` awaits its signed
headers, but the signer `app.ts` passes is synchronous and the await is over before the next
event: it is not an action boundary. `degraded` is whether `degradedSince` is set; the time
it must have been is "any".

**LoopLifecycle.** Everything is keyed by the loop id, so one loop stands for all. `jobs`
are the two lists of the job store, `disk` the one the store writes second: between an upsert
that moves the job and `Save` there is a moment at which a crash tears the two writes
(`torn`). `entry` is `runningLoops`, `child` the exit event still to be delivered, `pending`
`pendingLoopExits`, `beating` and `watching` the intervals, `muted` the latch of a heartbeat
404. `fin` holds the continuations of `finalizeLoop` and of the exit handler with the job
each *read before its await*: who writes back a stale copy, and over what, is the subject of
the module. An action ends at an await for the cloud, for git, for the process or for the
window's files; a read of a local file is part of its step. A loop has one final event in
the cloud (`verdict`); `Outcomes` gives what may become of the artifacts and the event that
are sent together, an accepted event whose answer is lost included. The exit handler has
a git step of its own (place `git`); when it failed, the finalizer tries it again (`pushing`).
A `state.json` that says IN_PROGRESS (RUNNING here) is no end. The application crashes
(`Crash`) at any moment and is started again up to `MaxBoots` times; the process survives.

**SessionSync.** `top` and `topIds` are the cursor, `queue` the two queues, `deferred`,
`timeouts`, `limited` the retry maps, `pending` the chunks of an oversized session. A pass
(`syncOnce`) runs from await to await; `stop()` starts a new generation of the state but a
pass in an await goes on, so there are two: the *own* pass and the *old* one. Handing a
batch to the socket and being refused by it are microtasks and go before any other event
(`Handing`). `owed` (sessions whose present content the relay lacks), `excused` (the ones
the service has given up) and `tainted` (a pass of before a stop has written) are
history variables that only the properties read. Clock times are the moments at which a
session changes; a session changes at most once at a moment, and is not deleted. The orders of
the queries and the filters of the queues are described, not computed: `Listed` and `Without` are
the sets of the one sequence that is in order (`Arranged`), which a proof can speak of
without induction.

**OutputTailer.** `tailer` is the closure of `startOutputTailer`. Offsets count half lines: the
end of a line is even, a line the process has begun is half of one; each line carries one token.
`file` and `tailer.identity` are the identities the code compares (device and inode, or the
fallback), so a rename is no step. A poll runs from `Tick` or `FlushPolls` to its POST in one action, since
it only reads local files before; `post` holds what each poll captured then, the interval's
and the flush's own. A 401 is followed by a refresh and the same POST again: one answer.
`flush` is how far `flush()` is. In the code a flush begins its poll as soon as the one in flight
is over, here a moment later; only a stop can come between. `sent` (lines the cloud has),
`stored.file` (the file an offset was reported for), `tailer.counted` and `misread` are
history. Left out: a launch in a directory whose last run was cut off within a line, a moment
between two files at which none is found, and a poll that throws.

## 3. The runs

| run | instance | shows |
|---|---|---|
| `executor_scheduling` | 3 commands, two with one lock key and one without, 2 slots, 1 incarnation | exclusion, lock ownership, queue and tracking agree, no lost wake-up of a command that waits for a lock; liveness: an accepted command concludes |
| `executor_redelivery` | 2 commands without a common lock, 1 slot, 2 incarnations, stream lines, acknowledgements | buffers cover what is unacknowledged, the terminal event is last and final, executions stay within the limit, refinement of `CommandService` |
| `gateway_recovery` | `CloudLink`: the whole state space, with 2 hello timeouts | who may connect the executor, presence; liveness: the socket comes online, and reconnects bind a gateway that is down |
| `loop_refresh` | 2 overlapping refreshes, 2 timers, 3 keys, all callers | singleflight, key recoverable after a crash, gate final |
| `approvals` | 5 requests (two equal, one that differs in the body, two force-interactive ones with one rule key), 3 approvals, `MAX_RESOLVED` 1 | decidable, shared, indexed; a force-interactive request is decided by the user, whatever rule is saved |
| `loop_lifecycle` | one heartbeat, 2 recovery attempts, 3 starts of the application, 1 kill | the job, the process and the cloud agree on how the loop ended; the job of a process that exited settles |
| `session_sync` | 2 sessions, one oversized (3 chunks), 2 timeouts, 2 rate limits, 2 changes or stops | no change slips; every change arrives |
| `output_tailer` | 3 lines in each of 2 files, 1 retry, 2 starts of the application | the stored offset is replay-safe, tokens count once, a flush delivers, a line to be shown arrives |
| `executor_timeout`, `loop_reschedule`, `gateway_presence`, `session_feature` | the smallest of the above | the four statements of section 6 the code does not keep |

The properties of a run are not all there is to say: that a terminal command stays as it is
is part of the refinement `ImplementsService`; that a waiting request is answered
follows from the armed timer that `WaitersCanBeDecided` demands. `TypeOK` of `SessionSync` and
`OutputTailer` says what the variables hold; their runs do not list it, it is proved
(`TypeCorrect`) with their invariants. `CleanExitIsNoError` is about a
process that left no `state.json` with FAILED or STOPPED: the code believes that file over the exit
code.

### Bounds and why they are enough

- *Commands*: a conflict needs two, a bystander that overtakes them in the queue a third.
  *MaxInFlightCommands* is 2, the value `app.ts` uses, where locks are at issue (a command can
  then be held back by its lock alone), and 1 where the limit is (one slot for two commands). *MaxIncarnations* 2 is one pruning
  and one redelivery: the second object meets what the first left behind, and a third
  would meet nothing else. *MaxRetainedTerminal* 1 (200 in the code) makes the count limit
  bite with two commands. *MaxEvents* stops stream lines at the second event, so that
  chunks come before the terminal line; *AckSequences* {2} is a number within, beyond or
  from before the incarnation, as the moment has it.
- *Refreshes*: the singleflight allows one of its kind, and the tick is not in it, so two
  overlap; 3 keys are a first key, a retry's, and one of the refresh beside it. With 2 timers
  `loop_refresh` has a replaced one; `loop_reschedule` needs a third to be missing.
- *Socket*: with 2 hello timeouts there is one that repeats the hello and one that drops the
  socket. Nothing else in `CloudLink` is bounded.
- *Loop lifecycle*: 3 starts are a recovery of the recovery; 2 attempts are one that is
  retried and one that gives up. `StateStatuses` are an unfinished, a
  finished and a waiting `state.json`; the proofs take the failed and cancelled ones as well. Two overlapping heartbeats were checked as well, with 2 starts, 1 attempt and
  the one status `COMPLETED`; they show no other behaviour and take too long for a run.
- *Session sync*: with 2 sessions and batches of 2 there is a batch of both, a batch with a chunk and a
  sibling, and one changed behind the other. `MaxEvents` is the sum of changes and stops.
  `NoChangeSlips` was also checked with 3 of them and 2 chunks (5.7 million states).
- *Output tailer*: 3 lines are one delivered, one in a POST and one that joins the frame behind
  it; with 1 retry there is one that is made and one that is given up (8 in the code); a second file is
  what an identity is for, and the second start a recovery.
- *Approvals*: an expiry that hits a late joiner needs two equal requests; a rule that meets a
  force-interactive request needs two of them with one key, since the first leaves it and asks no
  more; 3 approvals are more than 1 resolved can hold.

## 4. Fairness

- **Executor**: `WF` of a reconnect (the socket reconnects as long as it is not stopped)
  and of every execution's awaits: the gateway is local and answers, ends or drops each
  request, and a command with `timeoutMs` is aborted besides. A gateway that streams for
  ever to a command *without* `timeoutMs` would keep its slot and lock for ever; the code
  has no limit for that, so the liveness result is conditional on the gateway. Calls from the
  outside (enqueue, cancel, ack, dispose) have no fairness.
- **Recovery**: requests and system calls end (`WF`); binding a port is tried again and again
  and succeeds at last (`SF`); a started socket gets its hello.ack. Under an answer that fails
  for ever nothing is claimed.
- **Socket**: an attempt to connect that is repeated succeeds at last, and so does a hello
  (`SF`); timers fire (`WF`). No connection is assumed to break, so
  `DownIsRepairedByReconnects` is conditional on the socket going offline again and again: a
  gateway whose restart failed stays down while the socket stays online.
- **Loop lifecycle**: `WF` of `Progress`, that is of what was awaited, of the delivery of the
  exit and of the next start. None for the job list (it is not polled), heartbeats, kills
  and the exit itself.
- **Session sync**: `WF` of the interval, the throttle, the retry deadlines, the own queries
  and the answer of the relay or its timeout; `SF` that a completing batch of a session that is sent
  again and again is accepted. `ChangesArrive` assumes a relay that stays ready at last and a
  database that stops failing.
- **Output tailer**: `WF` of the interval, of the end of throttle and backoff, of a waiting flush and of
  each answer; `SF` that a POST made again and again is accepted at last. `OutputArrives` does not
  claim anything of a tailer that is stopped, flushed, has exhausted its retries or was given
  the offset of another file.
- **Refresh, approvals**: none; they have safety properties only.

## 5. What is proved

All of these hold for every value of the constants, from the named assumptions in the
modules (types of the constants, finiteness of `Commands` and of `Sessions`). Every safety
invariant and every action property of a passing run is stated by a theorem. An invariant is
seldom inductive as it stands; each module below names what it needs besides. The
strengthenings were model-checked before they were proved.

**CommandExecutorProofs.** `TypeCorrect` (one lemma per helper, `ScheduleType` for the
scheduler, one case per action). Three inductions follow.

- `LocksInvariant`: `LockInv == TypeOK /\ LockExclusion /\ LocksHeldByRuns /\
  NothingQueuedAfterDispose`. Exclusion alone is not inductive: a command starts when its lock has
  no owner, and that excludes others only if every execution in flight owns its lock. After dispose
  the locks are gone while executions go on, and exclusion survives only because nothing is queued
  any more that could start. The central lemma is `StartedLocks`: the commands that one pass of
  schedule() starts have distinct locks, all free before. `LocksExclude`, `LocksAreHeld` and, by the
  step lemma `DisposedStep`, `NothingRestarts` follow.
- `ServiceInvariant`: `ServiceInv` adds that each tracked entry is well formed (`EntryInv`: its terminal
  event is last, its buffer holds what is not acknowledged), that queue and tracked commands agree,
  and that executions, in-flight map and running entries are the same commands with the same
  incarnations (`RunsAgree`), one execution each (`Apart`). The limit follows because the
  code counts in-flight entries while `RunsWithinCapacity` counts executions, and the two agree only
  if no execution outlives its entry. `QueueIsTracked`, `NothingAfterTheTerminalEvent`,
  `RunsStayWithinCapacity` and `ExecutorImplementsService` follow; the last is the refinement of
  `CommandService`: initial states map to initial states, and each action maps to
  a step of the service or to a stutter. These theorems have the hypothesis `StreamsEndInTime`
  (a constant, section 2). It is needed, not a convenience: with FALSE, TLC finds
  `QueueMatchesTracked`, `TerminalEventIsLast` and (3 commands, 2 slots) `RunsWithinCapacity` violated,
  by an execution that goes on streaming while its command is pruned and delivered again.
- `WaitInv` for `NothingIsStranded`: while connected, each queued command is held back by the limit or
  by its lock, because every handler that frees one ends in schedule(). `AllCovered` for
  `BufferIsComplete`: a buffer drops only what was acknowledged. Both hold whatever the streams do.

**GatewayRecoveryProofs.** `RecoveryInv` adds `DownHasNoProbe` to the properties: while a
restart has the gateway down there is no server and no probe of the present epoch.
A positive answer of a probe connects the executor, so without that fact a probe could
connect it in the middle of a restart; it holds because a recovery increases the epoch and a
reconnect that meets no listening server gets its negative answer at once.
`RelayKnowsPause` is a second induction on top of it: a presence is sent on every change of
what it tells, unless a recovery or probe is in flight that will send one at its end.
`RecoveryTypeCorrect` is the type invariant.

**LoopRefreshProofs.** `RefreshInv` adds to `TypeOK` and `KeyRecoverable` that ids of flights
are unique, that a flight marked alone is the only one, and that the flights that are not a tick are
exactly the one `shared` names. `OneSharedFlight`, `KeySurvives` and `RefreshTypeCorrect` follow.
`GateCloses` is the action property: every sender looks at the gate in the step that sends.

**CloudLinkProofs.** `LinkImplementsRecovery`: every behaviour of `CloudLink` is one of
`GatewayRecovery`, step by step. By it the theorems on the recovery hold behind the real socket
(`LinkConnectsSafely`), for any limit of hello timeouts.

**ApprovalsProofs.** `ApprovalInv` adds four parts to the properties. `SharedDecision` is not inductive: a
request could join an approval that another was already decided with. It cannot, because a
pending approval has decided nobody (`PendingIsUndecided`), and a new one has an id that no
request was ever given (`IdsAreGiven`). `WaitersAsked` ties a waiting request to the
approval it asked for, and `StoredAgrees` the file to the list, which is finite, so that
`clear()` and the limit of the decided ones keep their types. `InteractiveByDecision` is an action
property: of all steps only a decision answers with "allowed" what no rule may let through, and
the approval it decides is the one the request waits for.

**LoopLifecycleProofs.** The hazard of this module is a record that was read before an await and is written
back after it, so the invariant speaks of every record that may be written again: those in the job
store and on disk, and those held by the finalizers and the kill. `Good(j, World)` says what the fields of
a record rest on (a job that is TIMED_OUT was refused by the cloud; a persisted one has
an exit and is not RUNNING; one marked final has a refusal, its last attempt, or an exit
without a need for an event). What it rests on only grows (`Later`), so a stale record stays good; what
may be *lost* is said apart (`Fresh`: the record has nothing of the end yet). The rest says who
may be at work at once: `Owners` (the run that launched the job, one that found it alive and one
that found it dead exclude each other), `Places`, `WorkAfterExit`, `NoJobNoWork`, `ProcFirst`,
`DownIsQuiet`. Upon these come the conjuncts that belong to one property: `AliveUnfinished`,
`ExitClaims` and `CleanExit` (in a first run without a kill the exit handler claims the job before a
heartbeat can), `CancelHolds`. All finalizers share one procedure, and `FinalizerStep` proves it once for
whatever record they hold. `AliveIsNotWrittenOff`, `CleanExitIsReported`, `CancelHoldsBack`,
`FinalHasVerdict`, `TypeCorrect` follow, and the action property
`TokenOutlivesReports`, step by step from the same invariant. They hold for any number of heartbeats in flight, boots,
attempts and kills, which the run bounds to one heartbeat, three boots and one kill.

**SessionSyncProofs.** `NoChangeSlips` says that each session the relay lacks is ahead of the cursor,
in a queue, in a batch, in the chunks to come, or was given up. It is kept only since the query
for updates was given the cursor as it still is (`QueriesFromCursor`), what a pass selected stays queued
until it was sent (`SelectedIsQueued`), the chunks that follow are of the content that was read
(`ChunksFollow`), and no pass queries while chunks wait (`QueriesWithoutChunks`). An old pass that
writes after a stop breaks all four, which is what `tainted` records. Since the cursor moves to the
newest stamp, the moments at which rows are stamped matter: none is later than now (`Stamped`).

**OutputTailerProofs.** `TailerInv` relates what each poll captured before its POST to the tailer it
will be applied to: the poll ends beyond what is committed and within what was read, and its totals
are the lines up to there less those counted (`PostFits`). That stays true until
its answer because polls do not overlap: a flush comes after the process, stops the
interval and posts alone (`FlushIsLast`). `OffsetsDeliver` says of the file that is written that the cloud
has every line before an offset.

**Only model-checked**: liveness, which is out of the prover's reach (`AcceptedConcludes`, `OutputArrives`,
`LoopSettles`, `ComesOnline`, `DownIsRepairedByReconnects`, `ChangesArrive`), and the four
statements of section 6, which do not hold.

## 6. Where the code does not do what it says

Each has a run that shows it (`PROJECT.json` "findings"):

1. `executor_timeout`: a timeout during the read of a non-streaming body is swallowed and
   the command ends as done.
2. `loop_reschedule`: the `.finally` of a refresh tick deletes the handle the tick's own
   reschedule stored, so proactive renewal stops after the second renewal.
3. `gateway_presence`: a hello.ack during a restart that then fails leaves the relay with
   presence "online".
4. `session_feature`: after `feature_disabled` the sync "pauses until the relay reconnects", but the
   socket keeps a flag of its own that only stop() resets (`cloud-socket.ts:164`), so the
   reconnect does not end the pause.

Seen while modelling, without a run: a blank `repoPath` stops the `??` chain of
deriveLockKey, so the command has no lock although another field names a path
(`CommandEnvelope`); an execution that outlives the pruning of its command lets one more
than the limit run (`RunsWithinCapacity` fails when `StreamsEndInTime` is FALSE); a refresh that
succeeds after the loop ended stores a token again; the key of a successful refresh is used
again by the next; the expiry timer of one request expires the approval for requests that
joined later; approvals loaded after a restart have no timer; a forced approval does not
overrule an always-allow rule; disabling the connection does not tell the executor; `dispose()`
is silent, but the executions it aborts report queue statistics from the schedule() of their
`finally` (`cloud-command-executor.ts:357`).

In the lifecycle of a loop: the safety net of a completion handler that throws only handles
a RUNNING job, a CANCEL_PENDING one stays until the next boot (`symphony-loop.ts:7789`);
`finalizeDeadJobs` writes the job it read before the reconciliation back over what was
recorded meanwhile (`boot-recovery.ts:552`); a late terminal heartbeat or a kill by pid
overwrites COMPLETED, against the comment at `symphony-job-snapshot.ts:204`; a kill is
overridden by a `state.json` that says COMPLETED; a loop launched again inherits the fields of
its job (`symphony-loop.ts:7888`); a heartbeat that is refused for an expired token ends a live loop
without asking for a new one; a crash between the two writes of the job store can lose the job.

In the session sync: a sibling in the batch of a chunk takes the oversized session off its
queue early; sessions imported with a past `updated_at` behind the cursor are never sent
(`pglite.ts:1560`); a pass that `stop()` found in a query writes its cursor, queues and chunks
into the new generation, against the comment at `agent-session-sync-service.ts:179`.

In the output tailer: a frame answered with a terminal 4xx is not retried according to
`output-tailer.ts:283`, but it stays next and is posted again at every poll, without backoff or limit;
the identity of the file is not stored with `lastObservedJsonlOffset`, so when the file is replaced
while the desktop is down, boot recovery (`boot-recovery.ts:600`) skips as many bytes of
the new one as it had read of the old (`misread`); flush() does not lift the throttle, so output
that ends within five seconds of the last event is never sent; the token totals begin at 0 again
after a recovery.

## 7. The plan

Written in this order: executor (the path of every command) with its service and proofs;
recovery, which decides when the executor may run; refresh; approvals; the socket joined to
the recovery; the lifecycle of a loop; session sync; the output tailer. What is left, most important first:

1. `CommandKeys`, the time limit of the shutdown, the install orchestrator.
2. A second launch of one loop in `LoopLifecycle`; the relay's replay of events after a
   reconnect joined to the executor's buffers.
3. Proofs: the same invariants over a second launch, and those of the new modules.

## 8. Running

    tlc -workers 2 -config MCCommandExecutor_scheduling.cfg MCCommandExecutor.tla
    tlapm CommandExecutorProofs.tla

Every property of a passing run has a mutant: an operator named `Mutant...`, placed before the
definition it stands for, with which TLC finds the property violated.
