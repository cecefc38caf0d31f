------------------------ MODULE LoopLifecycleProofs ------------------------
(***************************************************************************)
(* Proofs about LoopLifecycle, for any number of heartbeats in flight,     *)
(* recovery attempts, starts of the application and kill requests, and     *)
(* whatever the process writes to its state.json.                          *)
(***************************************************************************)
EXTENDS LoopLifecycle, TLAPS

(***************************************************************************)
(* What the records of a job rest on.  It only grows: the cloud does not   *)
(* take back a refusal or a final event, and a process that exited neither *)
(* comes back nor writes its state.json again.                             *)
(***************************************************************************)
World == [refused |-> Refused,
          told    |-> verdict # "none",
          exited  |-> proc = "exited",
          waits   |-> proc = "exited" /\ state = "AWAITING_USER"]

Later(v, w) ==
  /\ v.refused => w.refused
  /\ v.told => w.told
  /\ v.exited => w.exited
  /\ v.waits => w.waits

(***************************************************************************)
(* A record of the job, as it is stored, was stored, or was read before an *)
(* await and may be stored again.                                          *)
(***************************************************************************)
Good(j, w) ==
  /\ j \in JobOrNone
  /\ j.posted => w.told
  /\ j.persisted => j.exit /\ j.status # "RUNNING"
  /\ j.status = "TIMED_OUT" => w.refused
  /\ j.status = "AWAITING_USER" => w.waits
  /\ j.status = "CANCEL_PENDING" /\ j.persisted => w.refused
  /\ j.final => \/ w.refused
                \/ j.attempts = MaxRecoveryAttempts
                \/ /\ w.exited /\ j.exit
                   /\ j.status \in {"CANCELLED", "AWAITING_USER"}

\* Nothing about the end of the loop was recorded before the cloud refused it.
Fresh(j, w) == j.final \/ j.persisted => w.refused

GoodStore(js, w) ==
  /\ js \in [active : JobOrNone, terminal : JobOrNone]
  /\ Good(js.active, w) /\ Good(js.terminal, w)
  /\ js.active.status \notin Terminal
  /\ js.terminal.status \in Terminal \cup {"none"}

RecordsGood ==
  /\ GoodStore(jobs, World)
  /\ Good(disk, World) /\ disk.status \in Terminal \cup {"none"}
  /\ \A f \in Finalizers : Good(fin[f].job, World)
  /\ Good(kill.job, World)

-----------------------------------------------------------------------------
(* What may be going on.                                                   *)

\* Nobody handles a job that is not there.
NoJobNoWork ==
  TheJob = NoJob =>
    /\ entry \in {"none", "sentinel"} /\ phase # "booting"
    /\ ~child /\ ~watching /\ ~beating
    /\ launch \in {"none", "preparing", "failed"}
    /\ kill = Idle /\ list.pc = "idle"
    /\ \A f \in Finalizers : fin[f] = Idle

\* Before the process there is no job; before it exited there is no verdict.
ProcFirst ==
  /\ proc = "none" =>
       /\ jobs = [active |-> NoJob, terminal |-> NoJob] /\ disk = NoJob
       /\ state = "none"
  /\ launch = "preparing" => proc = "none"
  /\ proc # "exited" => outcome = "none" /\ verdict = "none"

\* A job is finalized when its process is gone, but for a loop that the cloud
\* ended before the desktop was started again.
Unfinished(j) == j # NoJob => j.final /\ Refused /\ boots > 1

AliveUnfinished ==
  proc = "alive" =>
    /\ Unfinished(jobs.terminal) /\ Unfinished(disk)
    /\ Fresh(jobs.active, World) /\ Fresh(jobs.terminal, World) /\ Fresh(disk, World)

WorkAfterExit ==
  /\ fin["exit"].pc # "idle" => proc = "exited"
  /\ fin["dead"].pc # "idle" => proc = "exited"
  /\ fin["watch"].pc \notin {"idle", "reattaching"} => proc = "exited"
  /\ \A b \in Beats : fin[b].pc \notin {"idle", "waiting"} => proc = "exited"
  /\ list.pc = "reading" /\ ~list.running => proc = "exited"

\* The places of each finalizer, and the record it holds there.
Places ==
  /\ fin["exit"].pc \in {"idle", "flushing", "failing", "git", "challenged",
                         "pushing", "completed", "error"}
  /\ fin["dead"].pc \in {"idle", "reconciling", "pushing", "completed", "error"}
  /\ fin["watch"].pc \in {"idle", "reattaching", "flushing", "pushing",
                          "completed", "error"}
  /\ \A b \in Beats : fin[b].pc \in {"idle", "waiting", "pushing", "completed", "error"}
  /\ fin["dead"].pc = "reconciling" =>
       fin["dead"].job \in Job /\ fin["dead"].job.attempts < MaxRecoveryAttempts
  /\ fin["exit"].pc = "error" =>
       fin["exit"].job.status \in {"FAILED", "STOPPED", "UNKNOWN"}
  /\ \A f \in Finalizers :
       fin[f].pc \in {"completed", "error"} => fin[f].job \in Job
  /\ kill.pc = "idle" => kill = Idle
  /\ kill.pc = "pid" => kill.job \in Job /\ Fresh(kill.job, World)
  /\ list.pc = "reading" => list.job \in Job /\ list.job.status \notin Terminal

\* Who owns the job: the run that launched it, one that found it alive, or one
\* that found it dead.
Launched == child \/ fin["exit"].pc # "idle"

Owners ==
  /\ Launched =>
       /\ phase = "serving" /\ ~watching
       /\ fin["watch"].pc = "idle" /\ fin["dead"].pc = "idle"
       /\ Fresh(TheJob, World)
  /\ kill.pc = "pid" => ~Launched
  /\ child => fin["exit"].pc = "idle"
  /\ child /\ proc = "alive" => entry = "spawned"
  /\ fin["exit"].pc # "idle" => TheJob.exit
  /\ fin["exit"].pc \in {"failing", "challenged", "pushing", "completed", "error"}
       => entry = "none"
  /\ fin["watch"].pc # "idle" => entry = "none" /\ fin["dead"].pc = "idle"
  /\ fin["watch"].pc = "reattaching" => phase = "booting"
  /\ fin["watch"].pc \notin {"idle", "reattaching"} => phase = "serving"
  /\ fin["dead"].pc # "idle" => phase = "serving" /\ entry = "none" /\ ~watching
  /\ phase = "booting" => entry = "none" /\ ~watching /\ ~child /\ fin["dead"].pc = "idle"
       /\ launch = "none" /\ kill = Idle /\ Fresh(TheJob, World)
  /\ entry \in {"spawned", "recovered"} => Fresh(TheJob, World)
  /\ boots = 1 => phase # "booting" /\ ~watching /\ fin["watch"].pc = "idle"
                  /\ fin["dead"].pc = "idle"

\* Nothing goes on in an application that is down.
DownIsQuiet ==
  phase = "down" =>
    /\ boots < MaxBoots
    /\ entry = "none" /\ ~child /\ ~pending /\ ~beating /\ ~watching
    /\ launch = "none" /\ kill = Idle /\ list.pc = "idle"
    /\ \A f \in Finalizers : fin[f] = Idle

-----------------------------------------------------------------------------
(* The exit that nobody disturbed, and the kill.                           *)

\* The exit is pending until its handler claimed the job.
ExitClaims ==
  boots = 1 /\ kills = 0 /\ phase = "serving" /\ proc # "none" =>
    /\ pending = child
    /\ ~child => TheJob.exit

CleanRun ==
  /\ outcome = "done" /\ state \notin {"FAILED", "STOPPED"}
  /\ boots = 1 /\ kills = 0 /\ cloud = "live"

CleanExit ==
  /\ fin["exit"].pc = "failing" => outcome = "failed" /\ fin["exit"].job # NoJob
  /\ CleanRun /\ verdict = "none" =>
       /\ \A f \in Finalizers : fin[f].pc # "error"
       /\ (child \/ fin["exit"].pc \in {"flushing", "git"}) =>
            TheJob.status \notin {"FAILED", "STOPPED", "UNKNOWN"}
  /\ CleanExitIsNoError

CancelHolds ==
  /\ kill # Idle => kills > 0
  /\ kill.pc = "entry" =>
       /\ fin["dead"].pc = "idle"
       /\ state # "COMPLETED" =>
            /\ TheJob.status \notin {"RUNNING", "COMPLETED"}
            /\ fin["exit"].pc \notin {"pushing", "completed"}

LoopInv ==
  /\ TypeOK
  /\ RecordsGood
  /\ NoJobNoWork
  /\ ProcFirst
  /\ AliveUnfinished
  /\ WorkAfterExit
  /\ Places
  /\ Owners
  /\ DownIsQuiet
  /\ ExitClaims
  /\ CleanExit
  /\ CancelHolds

-----------------------------------------------------------------------------
(* Records of a job.                                                       *)

\* The record that stands for none is no job, and is good.
LEMMA NoJobType ==
  /\ NoJob.status = "none" /\ "none" \notin Status /\ NoJob \notin Job
  /\ NoJob \in JobOrNone /\ ~NoJob.final /\ ~NoJob.persisted /\ ~NoJob.posted
  /\ \A w : Good(NoJob, w)
<1>1. "none" \notin Status
  BY DEF Status, Terminal
<1>3. NoJob.status = "none" /\ ~NoJob.final /\ ~NoJob.persisted /\ ~NoJob.posted
  BY DEF NoJob, NewJob
<1>4. NoJob \notin Job
  BY <1>1, <1>3 DEF Job
<1>5. NoJob \in JobOrNone
  BY DEF JobOrNone
<1> QED  BY <1>1, <1>3, <1>4, <1>5 DEF Good

\* The record a launch begins with.
LEMMA NewJobType ==
  /\ NewJob \in Job /\ NewJob.status = "RUNNING" /\ ~NewJob.exit
  /\ ~NewJob.final /\ ~NewJob.persisted /\ ~NewJob.posted
  /\ \A w : Good(NewJob, w)
<1>1. NewJob \in Job
  <2>1. 0 \in 0..MaxRecoveryAttempts
    BY RecoveryAssumption
  <2>2. "RUNNING" \in Status /\ "none" \in Errors
    BY DEF Status, Errors
  <2> QED  BY <2>1, <2>2 DEF NewJob, Job
<1> QED  BY <1>1 DEF NewJob, Good, JobOrNone

\* A good record stays good while the world goes on.
LEMMA GoodLater ==
  ASSUME NEW j, NEW v, NEW w, Good(j, v), Later(v, w)
  PROVE  Good(j, w)
BY DEF Good, Later

\* What a store rests on only grows, so that it stays good.
LEMMA StoreLater ==
  ASSUME NEW js, NEW v, NEW w, GoodStore(js, v), Later(v, w)
  PROVE  GoodStore(js, w)
BY GoodLater DEF GoodStore

\* What the store says of the loop.
LEMMA StoredJob ==
  ASSUME NEW js, NEW w, GoodStore(js, w)
  PROVE  /\ GetByLoopId(js) \in JobOrNone /\ Good(GetByLoopId(js), w)
         /\ GetByLoopId(js) # NoJob => GetByLoopId(js) \in Job
         /\ \/ GetByLoopId(js) = js.active /\ js.active # NoJob
            \/ GetByLoopId(js) = js.terminal /\ js.active = NoJob
BY DEF GoodStore, GetByLoopId, JobOrNone

\* A job that was written is the one that is read.
LEMMA UpsertGood ==
  ASSUME NEW js, NEW w, GoodStore(js, w), NEW j \in Job, Good(j, w)
  PROVE  /\ GoodStore(Upsert(js, j), w)
         /\ GetByLoopId(Upsert(js, j)) = j
         /\ j # NoJob
<1>1. j # NoJob /\ j \in JobOrNone
  BY NoJobType DEF JobOrNone
<1>2. CASE j.status \in Terminal
  <2> DEFINE new == [active |-> NoJob, terminal |-> j]
  <2>1. Upsert(js, j) = new
    BY <1>2 DEF Upsert
  <2>2. NoJob.status \notin Terminal
    BY NoJobType DEF Status
  <2>3. GoodStore(new, w) /\ GetByLoopId(new) = j
    BY <1>1, <1>2, <2>2, NoJobType DEF GoodStore, GetByLoopId
  <2> QED  BY <1>1, <2>1, <2>3
<1>3. CASE j.status \notin Terminal
  <2> DEFINE new == [js EXCEPT !.active = j]
  <2>1. Upsert(js, j) = new
    BY <1>3 DEF Upsert
  <2>2. GoodStore(new, w) /\ GetByLoopId(new) = j
    BY <1>1, <1>3 DEF GoodStore, GetByLoopId
  <2> QED  BY <1>1, <2>1, <2>2
<1> QED  BY <1>2, <1>3

\* Where there is a job, it is the one a finalizer goes on with.
LEMMA CurrentIsStored ==
  ASSUME NEW js, NEW j, GetByLoopId(js) # NoJob
  PROVE  Current(js, j) = GetByLoopId(js)
BY DEF Current

-----------------------------------------------------------------------------
(* Steps of the world and of the finalizers.                               *)

FinType == [Finalizers -> [pc : Pcs, job : JobOrNone]]

\* A finalizer that does nothing holds no record.
LEMMA IdleType == Idle.pc = "idle" /\ Idle.job = NoJob /\ Idle \in [pc : Pcs, job : JobOrNone]
BY NoJobType DEF Idle, Pcs

\* A finalizer moves on with the record it holds.
LEMMA PcStep ==
  ASSUME fin \in FinType, NEW f \in Finalizers, NEW pc \in Pcs,
         fin' = [fin EXCEPT ![f].pc = pc]
  PROVE  /\ fin' \in FinType
         /\ fin'[f].pc = pc /\ fin'[f].job = fin[f].job
         /\ \A g \in Finalizers : g # f => fin'[g] = fin[g]
BY DEF FinType

\* A finalizer takes another place with another record.
LEMMA FinStep ==
  ASSUME fin \in FinType, NEW f \in Finalizers, NEW r \in [pc : Pcs, job : JobOrNone],
         fin' = [fin EXCEPT ![f] = r]
  PROVE  /\ fin' \in FinType
         /\ fin'[f] = r
         /\ \A g \in Finalizers : g # f => fin'[g] = fin[g]
BY DEF FinType

\* The finalizers by name.
LEMMA FinalizerNames ==
  /\ "exit" \in Finalizers /\ "dead" \in Finalizers /\ "watch" \in Finalizers
  /\ \A b \in Beats : b \in Finalizers /\ b \notin {"exit", "dead", "watch"}
  /\ \A f \in Finalizers : f \in {"exit", "dead", "watch"} \/ f \in Beats
BY BeatsAssumption DEF Finalizers

-----------------------------------------------------------------------------
(* Steps of the world.                                                     *)

\* A step of the application alone.
LEMMA WorldSame ==
  ASSUME UNCHANGED external
  PROVE  World' = World /\ Later(World, World') /\ Refused' = Refused /\ Ended' = Ended
<1>1. Refused' = Refused /\ Ended' = Ended
  BY DEF external, Refused, Ended
<1>2. World' = World
  BY <1>1 DEF external, World
<1> QED  BY <1>1, <1>2 DEF Later

\* An answer of the cloud.
LEMMA WorldAnswers ==
  ASSUME NEW event, event # "none", NEW sent, NEW posted, NEW o \in Outcomes(sent, posted),
         Accept(event, o)
  PROVE  /\ Later(World, World')
         /\ Refused => Refused'
         /\ o.accepted => verdict = "none" /\ verdict' = event
         /\ ~o.accepted => verdict' = verdict
         /\ o.posted => World'.told /\ World'.refused
         /\ World'.told => World'.refused
         /\ o.error \in Errors
         /\ o.error = "none" => o.posted \/ posted
<1>1. /\ o \in [accepted : BOOLEAN, posted : BOOLEAN, error : Errors]
      /\ o.accepted => ~Ended
      /\ o.posted => o.accepted \/ verdict # "none"
      /\ o.error = "none" => o.posted \/ posted
  BY DEF Outcomes
<1>2. verdict # "none" => verdict' # "none"
  BY <1>1 DEF Accept
<1>3. o.posted => verdict' # "none"
  BY <1>1 DEF Accept
<1>4. Refused => Refused'
  BY <1>2 DEF Accept, Refused, Ended
<1>5. verdict' # "none" => Refused'
  BY DEF Refused, Ended
<1> QED  BY <1>1, <1>2, <1>3, <1>4, <1>5 DEF Later, World, Accept, Ended

\* A process that goes on, or ends.
LEMMA WorldMoves ==
  ASSUME LoopInv, WriteState \/ ProcessExits \/ CloudRefuses
  PROVE  Later(World, World') /\ (Refused => Refused')
<1>1. Refused => Refused'
  BY DEF WriteState, ProcessExits, CloudRefuses, Refused, Ended
<1> QED  BY <1>1 DEF Later, World, WriteState, ProcessExits, CloudRefuses

\* The records outlive a step that leaves them alone.
LEMMA RecordsLater ==
  ASSUME RecordsGood, Later(World, World'), UNCHANGED <<jobs, disk>>,
         \A f \in Finalizers : fin'[f].job = fin[f].job \/ fin'[f].job = NoJob,
         kill'.job = kill.job \/ kill'.job = NoJob
  PROVE  RecordsGood'
BY GoodLater, StoreLater, NoJobType DEF RecordsGood

\* There is no job before the process is started.
LEMMA NoProcNoJob ==
  ASSUME LoopInv
  PROVE  /\ TheJob # NoJob => proc # "none"
         /\ TheJob # NoJob => TheJob \in Job
         /\ TheJob # NoJob /\ proc # "alive" => proc = "exited"
         /\ TheJob = NoJob => jobs.active = NoJob /\ jobs.terminal = NoJob
BY StoredJob DEF LoopInv, TypeOK, RecordsGood, ProcFirst, TheJob, GetByLoopId

-----------------------------------------------------------------------------
(* Each step keeps the invariant: the launch.                              *)

LEMMA SaveKeeps ==
  ASSUME LoopInv, Save
  PROVE  LoopInv'
<1>1. World' = World /\ Refused' = Refused
  BY WorldSame DEF Save
<1>2. TypeOK'
  BY DEF LoopInv, TypeOK, Save, external, stored, handles
<1>3. RecordsGood'
  BY <1>1 DEF LoopInv, RecordsGood, Save, GoodStore
<1>4. ProcFirst' /\ AliveUnfinished'
  BY <1>1 DEF LoopInv, ProcFirst, AliveUnfinished, Unfinished, Save, external
<1>5. NoJobNoWork' /\ WorkAfterExit' /\ Places' /\ Owners' /\ DownIsQuiet'
  BY <1>1 DEF LoopInv, NoJobNoWork, WorkAfterExit, Places, Owners, Launched, DownIsQuiet,
     TheJob, Save, external, handles
<1>6. ExitClaims' /\ CleanExit' /\ CancelHolds'
  BY <1>1 DEF LoopInv, ExitClaims, CleanExit, CleanRun, CleanExitIsNoError,
     CancelHolds, TheJob, Save, external, handles
<1> QED
  BY <1>2, <1>3, <1>4, <1>5, <1>6 DEF LoopInv

LEMMA LaunchRequestKeeps ==
  ASSUME LoopInv, LaunchRequest
  PROVE  LoopInv'
<1>1. World' = World /\ Refused' = Refused /\ UNCHANGED <<jobs, disk, fin, kill, list>>
  BY WorldSame DEF LaunchRequest
<1>2. TheJob = NoJob
  BY NoProcNoJob DEF LaunchRequest
<1>3. TypeOK'
  <2>1. token' \in BOOLEAN /\ entry' = "sentinel" /\ launch' = "preparing"
    BY DEF LaunchRequest, LoopInv, TypeOK
  <2> QED  BY <2>1 DEF LoopInv, TypeOK, LaunchRequest, external
<1>4. RecordsGood' /\ ProcFirst' /\ AliveUnfinished' /\ WorkAfterExit' /\ Places'
  BY <1>1 DEF LoopInv, RecordsGood, ProcFirst, AliveUnfinished, Unfinished, WorkAfterExit, Places,
     LaunchRequest, external
<1>5. NoJobNoWork' /\ DownIsQuiet'
  BY <1>1, <1>2 DEF LoopInv, NoJobNoWork, DownIsQuiet, TheJob, LaunchRequest, external
<1>6. Owners'
  BY <1>1, <1>2, FinalizerNames, IdleType DEF LoopInv, NoJobNoWork, Owners, Launched, TheJob,
     LaunchRequest, external
<1>7. ExitClaims' /\ CleanExit' /\ CancelHolds'
  BY <1>1 DEF LoopInv, ExitClaims, CleanExit, CleanRun, CleanExitIsNoError, CancelHolds,
     TheJob, LaunchRequest, external
<1> QED
  BY <1>3, <1>4, <1>5, <1>6, <1>7 DEF LoopInv

\* The first job is put where there was none: there is no stale record of it.
LEMMA SpawnKeeps ==
  ASSUME LoopInv, Spawn
  PROVE  LoopInv'
<1>1. /\ proc = "none" /\ TheJob = NoJob
      /\ jobs = [active |-> NoJob, terminal |-> NoJob] /\ disk = NoJob
  BY NoProcNoJob DEF LoopInv, ProcFirst, Spawn
<1>2. World' = World /\ Refused' = Refused /\ UNCHANGED <<disk, fin, kill, list>>
  BY <1>1 DEF World, Refused, Ended, Spawn
<1>3. /\ jobs' = [active |-> NewJob, terminal |-> NoJob]
      /\ GoodStore(jobs', World) /\ TheJob' = NewJob /\ TheJob' # NoJob
  <2>1. GoodStore(jobs, World)
    BY DEF LoopInv, RecordsGood
  <2>2. "RUNNING" \notin Terminal
    BY DEF Terminal
  <2>3. jobs' = [active |-> NewJob, terminal |-> NoJob]
    BY <1>1, <2>2, NewJobType DEF Spawn, Upsert
  <2> QED  BY <2>1, <2>3, UpsertGood, NewJobType DEF Spawn, TheJob
<1>4. \A f \in Finalizers : fin[f].pc = "idle"
  BY <1>1, IdleType DEF LoopInv, NoJobNoWork
<1>5. TypeOK'
  BY <1>3 DEF LoopInv, TypeOK, GoodStore, Spawn
<1>6. RecordsGood'
  BY <1>2, <1>3 DEF LoopInv, RecordsGood
<1>7. NoJobNoWork' /\ ProcFirst' /\ DownIsQuiet'
  BY <1>1, <1>2, <1>3 DEF LoopInv, NoJobNoWork, ProcFirst, DownIsQuiet, Spawn, Awake
<1>8. AliveUnfinished'
  BY <1>1, <1>2, <1>3, NewJobType, NoJobType DEF AliveUnfinished, Unfinished, Fresh
<1>9. WorkAfterExit' /\ Places'
  BY <1>1, <1>2, <1>4, FinalizerNames, IdleType DEF LoopInv, NoJobNoWork, WorkAfterExit, Places
<1>10. Owners'
  BY <1>1, <1>2, <1>3, <1>4, FinalizerNames, IdleType, NewJobType DEF LoopInv, NoJobNoWork, DownIsQuiet,
     Owners, Launched, Fresh, Spawn, Awake, TypeOK
<1>11. ExitClaims' /\ CleanExit' /\ CancelHolds'
  BY <1>1, <1>2, <1>3, <1>4, FinalizerNames, IdleType, NewJobType DEF LoopInv, NoJobNoWork,
     ExitClaims, CleanExit, CleanRun, CleanExitIsNoError, CancelHolds, ProcFirst, Spawn
<1> QED
  BY <1>5, <1>6, <1>7, <1>8, <1>9, <1>10, <1>11 DEF LoopInv

LEMMA SpawnFailsKeeps ==
  ASSUME LoopInv, SpawnFails
  PROVE  LoopInv'
<1>1. World' = World /\ Refused' = Refused /\ UNCHANGED <<jobs, disk, fin, kill, list>>
  BY WorldSame DEF SpawnFails
<1>2. proc = "none"
  BY DEF LoopInv, ProcFirst, SpawnFails
<1>3. TypeOK'
  <2>1. token' \in BOOLEAN /\ entry' = "none" /\ launch' = "failed"
    BY DEF SpawnFails
  <2> QED  BY <2>1 DEF LoopInv, TypeOK, SpawnFails, external
<1>4. RecordsGood' /\ ProcFirst' /\ AliveUnfinished' /\ WorkAfterExit' /\ Places'
  BY <1>1 DEF LoopInv, RecordsGood, ProcFirst, AliveUnfinished, Unfinished, WorkAfterExit, Places,
     SpawnFails, external
<1>5. NoJobNoWork' /\ Owners' /\ DownIsQuiet'
  BY <1>1, <1>2 DEF LoopInv, NoJobNoWork, Owners, Launched, DownIsQuiet, TheJob, SpawnFails, external, Awake
<1>6. ExitClaims' /\ CleanExit' /\ CancelHolds'
  BY <1>1 DEF LoopInv, ExitClaims, CleanExit, CleanRun, CleanExitIsNoError, CancelHolds,
     TheJob, SpawnFails, external
<1> QED
  BY <1>3, <1>4, <1>5, <1>6 DEF LoopInv

LEMMA StartTimersKeeps ==
  ASSUME LoopInv, StartTimers
  PROVE  LoopInv'
<1>1. World' = World /\ Refused' = Refused
  BY WorldSame DEF StartTimers
<1>2. TheJob # NoJob
  BY DEF LoopInv, NoJobNoWork, StartTimers
<1>3. TypeOK'
  BY DEF LoopInv, TypeOK, StartTimers, external, stored
<1>4. RecordsGood' /\ ProcFirst' /\ AliveUnfinished' /\ WorkAfterExit' /\ Places'
  BY <1>1 DEF LoopInv, RecordsGood, ProcFirst, AliveUnfinished, Unfinished, WorkAfterExit, Places,
     StartTimers, external, stored
<1>5. NoJobNoWork' /\ Owners' /\ DownIsQuiet'
  BY <1>1, <1>2 DEF LoopInv, NoJobNoWork, Owners, Launched, DownIsQuiet, TheJob, StartTimers, external, stored
<1>6. ExitClaims' /\ CleanExit' /\ CancelHolds'
  BY <1>1 DEF LoopInv, ExitClaims, CleanExit, CleanRun, CleanExitIsNoError, CancelHolds,
     TheJob, StartTimers, external, stored
<1> QED
  BY <1>3, <1>4, <1>5, <1>6 DEF LoopInv

-----------------------------------------------------------------------------
(* The process and the cloud.                                              *)

\* Only a living process writes its state.json, so no record rests on it yet.
LEMMA WriteStateKeeps ==
  ASSUME LoopInv, WriteState
  PROVE  LoopInv'
<1>1. /\ Later(World, World') /\ Refused' = Refused /\ World' = World
      /\ UNCHANGED <<proc, outcome, cloud, verdict, jobs, disk, fin, kill, list>>
  BY WorldMoves DEF WriteState, World, Refused, Ended, stored
<1>2. proc = "alive" /\ outcome = "none" /\ verdict = "none"
  BY DEF LoopInv, ProcFirst, WriteState
<1>3. TypeOK'
  BY DEF LoopInv, TypeOK, WriteState, stored, handles
<1>4. RecordsGood' /\ AliveUnfinished' /\ WorkAfterExit' /\ Places'
  BY <1>1 DEF LoopInv, RecordsGood, AliveUnfinished, Unfinished, WorkAfterExit, Places, WriteState
<1>5. NoJobNoWork' /\ ProcFirst' /\ Owners' /\ DownIsQuiet'
  BY <1>1, <1>2 DEF LoopInv, NoJobNoWork, ProcFirst, Owners, Launched, DownIsQuiet, TheJob,
     WriteState, handles
<1>6. ExitClaims' /\ CleanExit'
  BY <1>1, <1>2 DEF LoopInv, ExitClaims, CleanExit, CleanRun, CleanExitIsNoError, WorkAfterExit,
     TheJob, WriteState, handles
<1>7. CancelHolds'
  BY <1>1 DEF LoopInv, CancelHolds, TheJob, WriteState
<1> QED
  BY <1>3, <1>4, <1>5, <1>6, <1>7 DEF LoopInv

\* An exit only adds to what records may rest on.
LEMMA ProcessExitsKeeps ==
  ASSUME LoopInv, ProcessExits
  PROVE  LoopInv'
<1>1. /\ Later(World, World') /\ Refused' = Refused
      /\ UNCHANGED <<state, cloud, verdict, jobs, disk, fin, kill, list>>
  BY WorldMoves DEF ProcessExits, Refused, Ended, stored
<1>2. proc = "alive" /\ outcome = "none" /\ verdict = "none"
  BY DEF LoopInv, ProcFirst, ProcessExits
<1>3. TypeOK'
  BY DEF LoopInv, TypeOK, ProcessExits, stored, handles
<1>4. RecordsGood'
  BY <1>1, RecordsLater DEF LoopInv
<1>5. Fresh(TheJob, World)' <=> Fresh(TheJob, World)
  BY <1>1 DEF Fresh, World, TheJob
<1>6. WorkAfterExit'
  BY <1>1 DEF LoopInv, WorkAfterExit, ProcessExits
<1>7. Places'
  BY <1>1 DEF LoopInv, Places, Fresh, World
<1>8. NoJobNoWork' /\ ProcFirst' /\ AliveUnfinished' /\ DownIsQuiet'
  BY <1>1, <1>2 DEF LoopInv, NoJobNoWork, ProcFirst, AliveUnfinished, DownIsQuiet, TheJob,
     ProcessExits, handles
<1>9. Owners'
  BY <1>1, <1>2, <1>5 DEF LoopInv, Owners, Launched, TheJob, ProcessExits, handles
<1>10. ExitClaims' /\ CancelHolds'
  BY <1>1, <1>2 DEF LoopInv, ExitClaims, CancelHolds, TheJob, ProcessExits, handles
<1>11. CleanExit'
  <2>1. \A f \in Finalizers : fin'[f].pc # "error"
    BY <1>1, <1>2, FinalizerNames DEF LoopInv, WorkAfterExit
  <2>2. boots = 1 => TheJob.status \notin {"FAILED", "STOPPED", "UNKNOWN"}
    <3>1. boots = 1 => jobs.terminal = NoJob
      BY <1>2 DEF LoopInv, AliveUnfinished, Unfinished
    <3>2. jobs.active.status \notin Terminal
      BY DEF LoopInv, RecordsGood, GoodStore
    <3> QED  BY <3>1, <3>2, NoJobType DEF TheJob, GetByLoopId, Terminal
  <2>3. fin'["exit"].pc # "failing"
    BY <1>1, <1>2 DEF LoopInv, WorkAfterExit
  <2> QED  BY <1>1, <1>2, <2>1, <2>2, <2>3 DEF CleanExit, CleanRun, CleanExitIsNoError, TheJob, ProcessExits
<1> QED
  BY <1>3, <1>4, <1>6, <1>7, <1>8, <1>9, <1>10, <1>11 DEF LoopInv

\* A refusal only adds to what records may rest on.
LEMMA CloudRefusesKeeps ==
  ASSUME LoopInv, CloudRefuses
  PROVE  LoopInv'
<1>1. /\ Later(World, World') /\ Refused'
      /\ UNCHANGED <<proc, outcome, state, verdict, jobs, disk, fin, kill, list>>
  BY WorldMoves DEF CloudRefuses, Refused, Ended, stored
<1>2. \A j : Fresh(j, World')
  BY <1>1 DEF Fresh, World
<1>3. TypeOK'
  BY DEF LoopInv, TypeOK, CloudRefuses, stored, handles
<1>4. RecordsGood'
  BY <1>1, RecordsLater DEF LoopInv
<1>5. NoJobNoWork' /\ ProcFirst' /\ WorkAfterExit' /\ DownIsQuiet'
  BY <1>1 DEF LoopInv, NoJobNoWork, ProcFirst, WorkAfterExit, DownIsQuiet, TheJob,
     CloudRefuses, handles
<1>6. AliveUnfinished'
  BY <1>1, <1>2 DEF LoopInv, AliveUnfinished, Unfinished, CloudRefuses
<1>7. Places' /\ Owners'
  BY <1>1, <1>2 DEF LoopInv, Places, Owners, Launched, TheJob, CloudRefuses, handles
<1>8. ExitClaims' /\ CleanExit' /\ CancelHolds'
  BY <1>1 DEF LoopInv, ExitClaims, CleanExit, CleanRun, CleanExitIsNoError, CancelHolds, TheJob,
     CloudRefuses, handles
<1> QED
  BY <1>3, <1>4, <1>5, <1>6, <1>7, <1>8 DEF LoopInv

-----------------------------------------------------------------------------
(* A crash.                                                                *)

\* A crash leaves the active list as it is and the other one as it was saved.
LEMMA CrashKeeps ==
  ASSUME LoopInv, Crash
  PROVE  LoopInv'
<1>1. World' = World /\ Refused' = Refused
  BY WorldSame DEF Crash
<1>2. /\ Idle.pc = "idle" /\ Idle.job = NoJob
      /\ fin' = [f \in Finalizers |-> Idle] /\ kill' = Idle
      /\ list'.pc = "idle" /\ list'.job = NoJob /\ list'.running = FALSE
      /\ \A f \in Finalizers : fin'[f] = Idle
      /\ phase' = "down" /\ boots < MaxBoots
      /\ entry' = "none" /\ ~child' /\ ~pending' /\ ~beating' /\ ~watching'
      /\ launch' = "none"
  BY IdleType DEF Crash, Down
<1>3. fin'["exit"].pc = "idle" /\ fin'["dead"].pc = "idle" /\ fin'["watch"].pc = "idle"
  BY <1>2, FinalizerNames
<1>4. /\ jobs'.active = jobs.active /\ jobs'.terminal = disk
      /\ GoodStore(jobs', World')
  BY <1>1 DEF LoopInv, TypeOK, RecordsGood, GoodStore, Crash
<1>5. TypeOK'
  BY <1>4, NoJobType, IdleType DEF LoopInv, TypeOK, GoodStore, Crash, Down, external, Finalizers, JobOrNone
<1>6. RecordsGood'
  BY <1>1, <1>2, <1>4, NoJobType DEF LoopInv, RecordsGood, Crash
<1>7. NoJobNoWork' /\ WorkAfterExit' /\ DownIsQuiet'
  BY <1>2, <1>3, FinalizerNames DEF NoJobNoWork, WorkAfterExit, DownIsQuiet, Crash
<1>8. ProcFirst' /\ AliveUnfinished'
  <2>1. UNCHANGED <<proc, outcome, state, verdict, disk, boots>>
    BY DEF Crash, external
  <2>2. proc' = "none" => jobs' = [active |-> NoJob, terminal |-> NoJob]
    BY <2>1, <1>4 DEF LoopInv, ProcFirst, GoodStore
  <2> QED  BY <1>1, <1>2, <1>4, <2>1, <2>2 DEF LoopInv, ProcFirst, AliveUnfinished, Unfinished
<1>9. Places' /\ Owners'
  BY <1>2, <1>3, FinalizerNames DEF Places, Owners, Launched
<1>10. ExitClaims' /\ CleanExit' /\ CancelHolds'
  BY <1>2, <1>3 DEF LoopInv, ExitClaims, CleanExit, CleanRun, CleanExitIsNoError, CancelHolds,
     Crash, external
<1> QED
  BY <1>5, <1>6, <1>7, <1>8, <1>9, <1>10 DEF LoopInv

-----------------------------------------------------------------------------
(* Heartbeats, the kill request and the job list.                          *)

\* A job that is written again after the world went on.
LEMMA WriteJob ==
  ASSUME RecordsGood, Later(World, World'), NEW j \in Job, Good(j, World'),
         jobs' = Upsert(jobs, j)
  PROVE  /\ GoodStore(jobs', World')
         /\ TheJob' = j /\ j # NoJob
         /\ jobs' \in [active : JobOrNone, terminal : JobOrNone]
         /\ j.status \notin Terminal => jobs'.active = j /\ jobs'.terminal = jobs.terminal
<1>1. GoodStore(jobs, World')
  BY StoreLater DEF RecordsGood
<1>2. GoodStore(jobs', World') /\ TheJob' = j /\ j # NoJob
  BY <1>1, UpsertGood DEF TheJob
<1>3. j.status \notin Terminal => jobs'.active = j /\ jobs'.terminal = jobs.terminal
  BY <1>1 DEF Upsert, GoodStore
<1> QED  BY <1>2, <1>3 DEF GoodStore

LEMMA HeartbeatKeeps ==
  ASSUME LoopInv, NEW b \in Beats, Heartbeat(b)
  PROVE  LoopInv'
<1>1. World' = World /\ Refused' = Refused
  BY WorldSame DEF Heartbeat
<1>2. /\ fin' \in FinType
      /\ fin'[b].pc = "waiting" /\ fin'[b].job = fin[b].job
      /\ \A g \in Finalizers : g # b => fin'[g] = fin[g]
  BY PcStep, FinalizerNames DEF LoopInv, TypeOK, FinType, Heartbeat, Pcs
<1>3. /\ fin'["exit"] = fin["exit"] /\ fin'["dead"] = fin["dead"]
      /\ fin'["watch"] = fin["watch"]
  BY <1>2, FinalizerNames
<1>4. TheJob # NoJob
  BY DEF LoopInv, NoJobNoWork, Heartbeat
<1>5. TypeOK'
  BY <1>2 DEF LoopInv, TypeOK, FinType, Heartbeat, external, stored, handles
<1>6. RecordsGood'
  BY <1>1, <1>2 DEF LoopInv, RecordsGood, Heartbeat, stored
<1>7. ProcFirst' /\ AliveUnfinished'
  BY <1>1 DEF LoopInv, ProcFirst, AliveUnfinished, Unfinished, Heartbeat, external, stored
<1>8. WorkAfterExit' /\ Places'
  BY <1>1, <1>2, <1>3, FinalizerNames DEF LoopInv, WorkAfterExit, Places, Heartbeat, external
<1>9. NoJobNoWork' /\ Owners' /\ DownIsQuiet'
  BY <1>1, <1>3, <1>4 DEF LoopInv, NoJobNoWork, Owners, Launched, DownIsQuiet, TheJob,
     Heartbeat, Awake, external, stored, handles
<1>10. ExitClaims' /\ CleanExit' /\ CancelHolds'
  BY <1>1, <1>2, <1>3 DEF LoopInv, ExitClaims, CleanExit, CleanRun, CleanExitIsNoError, CancelHolds,
     TheJob, Heartbeat, external, stored, handles
<1> QED
  BY <1>5, <1>6, <1>7, <1>8, <1>9, <1>10 DEF LoopInv

\* A heartbeat that finds the loop or its process alive.
LEMMA BeatEnds ==
  ASSUME LoopInv, NEW b \in Beats, fin[b].pc = "waiting", fin' = [fin EXCEPT ![b] = Idle],
         {token', muted'} \subseteq BOOLEAN, Awake,
         UNCHANGED <<external, phase, boots, kills, jobs, disk, torn, entry, child, pending, beating,
                     watching, launch, kill, list>>
  PROVE  LoopInv'
<1>1. World' = World /\ Refused' = Refused /\ UNCHANGED <<jobs, disk, kill, list>>
  BY WorldSame
<1>2. /\ fin' \in FinType /\ fin'[b] = Idle
      /\ \A g \in Finalizers : g # b => fin'[g] = fin[g]
  BY FinStep, FinalizerNames, IdleType DEF LoopInv, TypeOK, FinType
<1>3. /\ fin'["exit"] = fin["exit"] /\ fin'["dead"] = fin["dead"]
      /\ fin'["watch"] = fin["watch"]
  BY <1>2, FinalizerNames
<1>4. fin[b] # Idle /\ TheJob # NoJob
  BY FinalizerNames, IdleType DEF LoopInv, NoJobNoWork
<1>5. TypeOK'
  <2>1. token' \in BOOLEAN /\ muted' \in BOOLEAN
    OBVIOUS
  <2> QED  BY <1>2, <2>1 DEF LoopInv, TypeOK, FinType, external
<1>6. RecordsGood'
  BY <1>1, <1>2, NoJobType, IdleType DEF LoopInv, RecordsGood
<1>7. ProcFirst' /\ AliveUnfinished'
  BY <1>1 DEF LoopInv, ProcFirst, AliveUnfinished, Unfinished, external
<1>8. WorkAfterExit' /\ Places'
  BY <1>1, <1>2, <1>3, FinalizerNames, IdleType DEF LoopInv, WorkAfterExit, Places, external
<1>9. NoJobNoWork' /\ Owners' /\ DownIsQuiet'
  BY <1>1, <1>2, <1>3, <1>4 DEF LoopInv, NoJobNoWork, Owners, Launched, DownIsQuiet, TheJob,
     Awake, external
<1>10. ExitClaims' /\ CleanExit' /\ CancelHolds'
  BY <1>1, <1>2, <1>3, IdleType DEF LoopInv, ExitClaims, CleanExit, CleanRun, CleanExitIsNoError,
     CancelHolds, TheJob, external
<1> QED
  BY <1>5, <1>6, <1>7, <1>8, <1>9, <1>10 DEF LoopInv

\* A heartbeat that is answered may store a new token, and nothing else.
LEMMA HeartbeatAliveKeeps ==
  ASSUME LoopInv, NEW b \in Beats, HeartbeatAlive(b)
  PROVE  LoopInv'
<1>1. token' \in BOOLEAN /\ muted' \in BOOLEAN
  BY DEF LoopInv, TypeOK, HeartbeatAlive, handles
<1> QED  BY <1>1, BeatEnds DEF HeartbeatAlive, handles

\* A kill by entry cancels the job; one by pid may hold the record it read.
LEMMA KillKeeps ==
  ASSUME LoopInv, Kill
  PROVE  LoopInv'
<1>1. World' = World /\ Refused' = Refused /\ UNCHANGED <<disk, fin, list, boots, phase, child, launch>>
  BY WorldSame DEF Kill
<1>2. TheJob # NoJob /\ TheJob \in Job /\ Good(TheJob, World)
  <2>1. TheJob # NoJob
    BY DEF LoopInv, NoJobNoWork, Kill, KillEntry, KillByPid, TheJob
  <2> QED  BY <2>1, StoredJob DEF LoopInv, RecordsGood, TheJob
<1>3. kills' \in 0..MaxKills /\ kills' > 0 /\ kills' # 0
  BY KillsAssumption DEF LoopInv, TypeOK, Kill
<1>4. /\ kill' \in [pc : {"idle", "entry", "pid"}, job : JobOrNone]
      /\ kill' # Idle => kill'.pc # "idle"
  BY <1>2, IdleType, NoJobType DEF Kill, KillEntry, KillByPid, TheJob, JobOrNone, LoopInv, TypeOK
<1>5. ASSUME KillEntry
      PROVE  /\ jobs' = Upsert(jobs, [TheJob EXCEPT !.status = "CANCEL_PENDING"])
             /\ [TheJob EXCEPT !.status = "CANCEL_PENDING"] \in Job
             /\ Good([TheJob EXCEPT !.status = "CANCEL_PENDING"], World')
             /\ Fresh(TheJob, World) /\ fin["dead"].pc = "idle" /\ fin["watch"].pc = "idle"
  <2> DEFINE j == [TheJob EXCEPT !.status = "CANCEL_PENDING"]
  <2>1. j \in Job
    BY <1>2 DEF Job, Status
  <2>2. Fresh(TheJob, World) /\ fin["dead"].pc = "idle" /\ fin["watch"].pc = "idle"
    BY <1>5 DEF LoopInv, Owners, KillEntry
  <2>3. Good(j, World')
    BY <1>1, <1>2, <2>1, <2>2 DEF Good, Fresh, Job, JobOrNone
  <2> QED  BY <1>2, <1>5, <2>1, <2>2, <2>3 DEF KillEntry, TheJob
<1>6. ASSUME KillByPid
      PROVE  \/ jobs' = jobs
             \/ /\ proc = "exited" /\ kill' = kill
                /\ jobs' = Upsert(jobs, [TheJob EXCEPT !.status = "CANCELLED"])
                /\ [TheJob EXCEPT !.status = "CANCELLED"] \in Job
                /\ Good([TheJob EXCEPT !.status = "CANCELLED"], World')
  <2> DEFINE j == [TheJob EXCEPT !.status = "CANCELLED"]
  <2>1. j \in Job
    BY <1>2 DEF Job, Status, Terminal
  <2>2. Good(j, World')
    BY <1>1, <1>2, <2>1 DEF Good, Job, JobOrNone
  <2> QED  BY <1>2, <1>6, <2>1, <2>2, NoProcNoJob DEF KillByPid, TheJob
<1>7. /\ GoodStore(jobs', World') /\ TheJob' # NoJob
      /\ TheJob'.exit = TheJob.exit /\ TheJob'.final = TheJob.final
      /\ TheJob'.persisted = TheJob.persisted
      /\ TheJob'.status \in {TheJob.status, "CANCEL_PENDING", "CANCELLED"}
      /\ proc = "alive" => jobs'.terminal = jobs.terminal
      /\ proc = "alive" => jobs'.active = jobs.active \/ jobs'.active = TheJob'
  <2>1. Later(World, World') /\ RecordsGood
    BY <1>1 DEF Later, LoopInv
  <2>2. CASE KillEntry
    <3> DEFINE j == [TheJob EXCEPT !.status = "CANCEL_PENDING"]
    <3>1. jobs' = Upsert(jobs, j) /\ j \in Job /\ Good(j, World')
      BY <1>5, <2>2
    <3>2. j.exit = TheJob.exit /\ j.final = TheJob.final /\ j.persisted = TheJob.persisted /\ j.status = "CANCEL_PENDING"
      BY <1>2 DEF Job
    <3> HIDE DEF j
    <3> QED  BY <2>1, <3>1, <3>2, WriteJob DEF Terminal
  <2>3. CASE KillByPid
    <3>1. CASE jobs' = jobs
      BY <1>1, <1>2, <3>1 DEF LoopInv, RecordsGood, TheJob
    <3>2. CASE jobs' # jobs
      <4> DEFINE j == [TheJob EXCEPT !.status = "CANCELLED"]
      <4>1. jobs' = Upsert(jobs, j) /\ j \in Job /\ Good(j, World') /\ proc = "exited"
        BY <1>6, <2>3, <3>2
      <4>2. j.exit = TheJob.exit /\ j.final = TheJob.final /\ j.persisted = TheJob.persisted /\ j.status = "CANCELLED"
        BY <1>2 DEF Job
      <4> HIDE DEF j
      <4> QED  BY <2>1, <4>1, <4>2, WriteJob
    <3> QED  BY <3>1, <3>2
  <2> QED  BY <2>2, <2>3 DEF Kill
<1>8. Fresh(TheJob, World) => Fresh(TheJob', World')
  BY <1>1, <1>7 DEF Fresh
<1>9. TypeOK'
  <2>1. pending' \in BOOLEAN /\ entry' \in {"none", "sentinel", "spawned", "recovered"}
    BY DEF LoopInv, TypeOK, Kill, KillEntry, KillByPid
  <2>2. jobs' \in [active : JobOrNone, terminal : JobOrNone]
    BY <1>7 DEF GoodStore
  <2> QED  BY <1>1, <1>3, <1>4, <2>1, <2>2 DEF LoopInv, TypeOK, Kill, external
<1>10. RecordsGood'
  <2>1. Good(kill'.job, World')
    BY <1>1, <1>2, NoJobType DEF LoopInv, RecordsGood, Kill, KillEntry, KillByPid, TheJob
  <2> QED  BY <1>1, <1>7, <2>1 DEF LoopInv, RecordsGood
<1>11. NoJobNoWork' /\ ProcFirst' /\ DownIsQuiet' /\ WorkAfterExit'
  BY <1>1, <1>2, <1>7, NoProcNoJob DEF LoopInv, NoJobNoWork, ProcFirst, DownIsQuiet, WorkAfterExit, Kill, external
<1>12. AliveUnfinished'
  <2>1. ASSUME proc = "alive"  PROVE Fresh(jobs'.active, World')
    <3>1. Fresh(TheJob, World) /\ Fresh(jobs.active, World)
      BY <2>1 DEF LoopInv, AliveUnfinished, TheJob, GetByLoopId
    <3> QED  BY <1>1, <1>7, <1>8, <2>1, <3>1
  <2> QED  BY <1>1, <1>7, <2>1 DEF LoopInv, AliveUnfinished, Unfinished, Kill, external
<1>13. Places'
  <2>1. kill'.pc = "pid" => kill'.job \in Job /\ Fresh(kill'.job, World')
    <3>1. CASE kill' = kill
      BY <1>1, <3>1 DEF LoopInv, Places, Fresh
    <3>2. CASE kill' # kill
      BY <1>1, <1>2, <3>2 DEF LoopInv, AliveUnfinished, TheJob, GetByLoopId, Kill, KillEntry, KillByPid
    <3> QED  BY <3>1, <3>2
  <2>2. kill'.pc = "idle" => kill' = Idle
    BY <1>4
  <2>3. list'.pc = "reading" => list'.job \in Job /\ list'.job.status \notin Terminal
    BY <1>1 DEF LoopInv, Places
  <2> QED  BY <1>1, <2>1, <2>2, <2>3 DEF LoopInv, Places
<1>14. Owners'
  <2>1. kill'.pc = "pid" => ~Launched
    <3>1. CASE kill' = kill
      BY <3>1 DEF LoopInv, Owners
    <3>2. CASE kill' # kill /\ kill'.pc = "pid"
      BY <3>2, IdleType DEF LoopInv, Owners, Launched, WorkAfterExit, Kill, KillEntry, KillByPid
    <3> QED  BY <3>1, <3>2
  <2>2. Launched' <=> Launched
    BY <1>1 DEF Launched
  <2>3. /\ entry' = entry \/ entry' = "none"
        /\ child /\ proc = "alive" => entry' = entry
        /\ proc' = proc /\ phase = "serving" /\ watching' = watching
    BY DEF Kill, KillEntry, KillByPid, external
  <2> QED  BY <1>1, <1>7, <1>8, <2>1, <2>2, <2>3 DEF LoopInv, Owners
<1>15. ExitClaims' /\ CleanExit'
  BY <1>1, <1>3 DEF LoopInv, ExitClaims, CleanExit, CleanRun, CleanExitIsNoError, Kill, external
<1>16. CancelHolds'
  <2>1. CASE kill' = kill
    BY <1>3, <2>1, IdleType DEF CancelHolds, Kill
  <2>2. CASE kill'.pc = "entry" /\ kill' # kill
    <3>1. KillEntry /\ proc = "alive"
      BY <2>2 DEF Kill, KillEntry, KillByPid
    <3>2. fin["exit"].pc = "idle" /\ fin["dead"].pc = "idle"
      BY <3>1 DEF LoopInv, WorkAfterExit
    <3> DEFINE j == [TheJob EXCEPT !.status = "CANCEL_PENDING"]
    <3>3. TheJob' = j
      BY <1>1, <1>5, <3>1, WriteJob DEF LoopInv, Later
    <3>4. j.status = "CANCEL_PENDING"
      BY <1>2 DEF Job
    <3> QED  BY <1>1, <1>3, <3>2, <3>3, <3>4 DEF CancelHolds
  <2>3. CASE kill'.pc = "pid"
    BY <1>3, <2>3 DEF CancelHolds
  <2> QED  BY <1>3, <1>4, <2>1, <2>2, <2>3 DEF CancelHolds, Kill, KillEntry, KillByPid
<1> QED
  BY <1>9, <1>10, <1>11, <1>12, <1>13, <1>14, <1>15, <1>16 DEF LoopInv

\* The record the kill read is written back: it had nothing of the end.
LEMMA KillEndsKeeps ==
  ASSUME LoopInv, KillEnds
  PROVE  LoopInv'
<1>1. /\ Later(World, World') /\ Refused' = Refused
      /\ UNCHANGED <<state, cloud, verdict, disk, fin, list, boots, phase, kills, child, launch>>
      /\ proc' # "alive" /\ (proc # "alive" => proc' = proc) /\ (proc = "alive" => proc' = "exited")
      /\ kill' = Idle
  BY DEF KillEnds, World, Later, Refused, Ended
<1>2. /\ TheJob # NoJob /\ proc' = "exited" /\ kills > 0
      /\ kill.pc \in {"entry", "pid"}
  <2>1. TheJob # NoJob /\ kills > 0 /\ kill.pc # "idle"
    BY DEF LoopInv, NoJobNoWork, CancelHolds, Places, KillEnds
  <2>2. proc' = "exited"
    BY <1>1, <2>1, NoProcNoJob
  <2> QED  BY <2>1, <2>2 DEF LoopInv, TypeOK
<1>3. ASSUME kill.pc # "entry"
      PROVE  /\ jobs' = Upsert(jobs, [kill.job EXCEPT !.status = "CANCEL_PENDING"])
             /\ [kill.job EXCEPT !.status = "CANCEL_PENDING"] \in Job
             /\ Good([kill.job EXCEPT !.status = "CANCEL_PENDING"], World')
             /\ Fresh([kill.job EXCEPT !.status = "CANCEL_PENDING"], World')
  <2> DEFINE j == [kill.job EXCEPT !.status = "CANCEL_PENDING"]
  <2>1. kill.job \in Job /\ Fresh(kill.job, World) /\ Good(kill.job, World')
    BY <1>1, <1>2, <1>3, GoodLater DEF LoopInv, Places, RecordsGood
  <2>2. j \in Job
    BY <2>1 DEF Job, Status
  <2>3. Fresh(kill.job, World')
    BY <1>1, <2>1 DEF Fresh, Later
  <2>4. Good(j, World') /\ Fresh(j, World')
    BY <2>1, <2>2, <2>3 DEF Good, Fresh, Job, JobOrNone
  <2> QED  BY <1>3, <2>2, <2>4 DEF KillEnds
<1>4. /\ GoodStore(jobs', World') /\ TheJob' # NoJob
      /\ kill.pc = "entry" => jobs' = jobs
      /\ kill.pc # "entry" => Fresh(TheJob', World')
  <2>1. CASE kill.pc = "entry"
    BY <1>1, <1>2, <2>1, StoreLater DEF KillEnds, LoopInv, RecordsGood, TheJob
  <2>2. CASE kill.pc # "entry"
    BY <1>1, <1>3, <2>2, WriteJob DEF LoopInv
  <2> QED  BY <2>1, <2>2
<1>5. Fresh(TheJob, World) => Fresh(TheJob', World')
  BY <1>1, <1>4 DEF Fresh, Later, TheJob
<1>6. TypeOK'
  <2>1. /\ pending' \in BOOLEAN /\ entry' \in {"none", "sentinel", "spawned", "recovered"}
        /\ outcome' \in {"none", "failed", "done", "idle"}
    BY DEF LoopInv, TypeOK, KillEnds
  <2>2. jobs' \in [active : JobOrNone, terminal : JobOrNone]
    BY <1>4 DEF GoodStore
  <2>3. kill' \in [pc : {"idle", "entry", "pid"}, job : JobOrNone]
    BY <1>1, NoJobType DEF Idle
  <2> QED  BY <1>1, <1>2, <2>1, <2>2, <2>3 DEF LoopInv, TypeOK, KillEnds
<1>7. RecordsGood'
  BY <1>1, <1>4, GoodLater, IdleType, NoJobType DEF LoopInv, RecordsGood
<1>8. NoJobNoWork' /\ ProcFirst' /\ AliveUnfinished' /\ DownIsQuiet' /\ WorkAfterExit'
  BY <1>1, <1>2, <1>4 DEF LoopInv, NoJobNoWork, ProcFirst, AliveUnfinished, DownIsQuiet, WorkAfterExit, KillEnds
<1>9. Places'
  BY <1>1, IdleType DEF LoopInv, Places
<1>10. Owners'
  <2>1. Launched' <=> Launched
    BY <1>1 DEF Launched
  <2>2. kill'.pc = "idle" /\ phase # "booting"
    BY <1>1, <1>2, IdleType DEF LoopInv, Owners, KillEnds
  <2>3. watching' = watching /\ (entry' = entry \/ entry' = "none")
    BY DEF KillEnds
  <2>4. fin["exit"].pc # "idle" => TheJob'.exit
    BY <1>2, <1>4, <2>1 DEF LoopInv, Owners, Launched, TheJob
  <2>5. Fresh(TheJob', World') \/ ~Fresh(TheJob, World)
    BY <1>5
  <2> QED  BY <1>1, <1>2, <2>1, <2>2, <2>3, <2>4, <2>5 DEF LoopInv, Owners
<1>11. ExitClaims' /\ CleanExit' /\ CancelHolds'
  <2>1. kills' > 0 /\ kills' # 0
    BY <1>1, <1>2
  <2>2. fin'["exit"].pc = "failing" => outcome' = "failed" /\ fin'["exit"].job # NoJob
    BY <1>1 DEF LoopInv, CleanExit, KillEnds
  <2> QED  BY <1>1, <2>1, <2>2, IdleType DEF ExitClaims, CleanExit, CleanRun, CleanExitIsNoError, CancelHolds
<1> QED
  BY <1>6, <1>7, <1>8, <1>9, <1>10, <1>11 DEF LoopInv

LEMMA ListKeeps ==
  ASSUME LoopInv, List
  PROVE  LoopInv'
<1>1. World' = World /\ Refused' = Refused /\ UNCHANGED <<jobs, disk, fin, kill>>
  BY WorldSame DEF List, stored
<1>2. /\ list' = [pc |-> "reading", job |-> jobs.active, running |-> proc = "alive"]
      /\ jobs.active \in Job /\ jobs.active.status \notin Terminal
  BY DEF List, LoopInv, RecordsGood, GoodStore, JobOrNone
<1>3. TheJob # NoJob
  BY DEF List, TheJob, GetByLoopId
<1>4. TypeOK'
  <2>1. list' \in [pc : {"idle", "reading"}, job : JobOrNone, running : BOOLEAN]
    BY <1>2 DEF JobOrNone
  <2> QED  BY <2>1 DEF LoopInv, TypeOK, List, external, stored, handles
<1>5. RecordsGood' /\ ProcFirst' /\ AliveUnfinished'
  BY <1>1 DEF LoopInv, RecordsGood, ProcFirst, AliveUnfinished, Unfinished, List, external
<1>6. NoJobNoWork' /\ Owners' /\ DownIsQuiet'
  BY <1>1, <1>3 DEF LoopInv, NoJobNoWork, Owners, Launched, DownIsQuiet, TheJob, List, external, handles, Awake
<1>7. WorkAfterExit' /\ Places'
  <2>1. list'.job = jobs.active /\ (~list'.running => proc = "exited")
    BY <1>2, <1>3, NoProcNoJob
  <2>2. proc' = proc
    BY DEF List, external
  <2>3. WorkAfterExit'
    BY <1>1, <2>1, <2>2 DEF LoopInv, WorkAfterExit
  <2>4. Places'
    BY <1>1, <1>2, <2>1 DEF LoopInv, Places
  <2> QED  BY <2>3, <2>4
<1>8. ExitClaims' /\ CleanExit' /\ CancelHolds'
  BY <1>1 DEF LoopInv, ExitClaims, CleanExit, CleanRun, CleanExitIsNoError, CancelHolds, TheJob,
     List, external, handles
<1> QED
  BY <1>4, <1>5, <1>6, <1>7, <1>8 DEF LoopInv

\* What the job list may write: nothing of a process that ran when it looked.
LEMMA SnapshotEnds ==
  ASSUME LoopInv, Snapshot \in Terminal, list.pc = "reading"
  PROVE  /\ proc = "exited"
         /\ Snapshot \in {state, "CANCELLED", "STOPPED"}
         /\ Snapshot \in {"COMPLETED", "FAILED", "CANCELLED", "STOPPED"}
         /\ Snapshot = "STOPPED" => state = "STOPPED" \/ ~pending
         /\ Snapshot = "FAILED" => state = "FAILED"
         /\ Snapshot = "COMPLETED" => state = "COMPLETED"
<1>1. list.job.status \notin Terminal /\ (~list.running => proc = "exited")
  BY DEF LoopInv, Places, WorkAfterExit
<1>2. state \in Terminal => state \in {"COMPLETED", "FAILED", "CANCELLED", "STOPPED"}
  BY StateAssumption DEF LoopInv, TypeOK, Terminal
<1> QED  BY <1>1, <1>2 DEF Snapshot, Terminal

\* The list records a terminal snapshot on the job as it is then.
LEMMA ListedKeeps ==
  ASSUME LoopInv, Listed
  PROVE  LoopInv'
<1>1. World' = World /\ Later(World, World') /\ Refused' = Refused /\ UNCHANGED <<disk, fin, kill>>
  BY WorldSame DEF Listed
<1>2. list'.pc = "idle" /\ list' \in [pc : {"idle", "reading"}, job : JobOrNone, running : BOOLEAN]
  BY NoJobType DEF Listed
<1>3. TheJob # NoJob
  BY DEF LoopInv, NoJobNoWork, Listed
<1>4. TheJob \in Job /\ Good(TheJob, World)
  BY <1>3, StoredJob DEF LoopInv, RecordsGood, TheJob
<1>5. \/ jobs' = jobs
      \/ /\ Snapshot \in Terminal /\ ~TheJob.exit
         /\ jobs' = Upsert(jobs, [TheJob EXCEPT !.status = Snapshot])
  BY DEF Listed, Claimed, TheJob
<1>6. ASSUME jobs' # jobs
      PROVE  /\ proc = "exited" /\ ~TheJob.exit /\ Snapshot \in {"COMPLETED", "FAILED", "CANCELLED", "STOPPED"}
             /\ GoodStore(jobs', World') /\ TheJob' # NoJob
             /\ TheJob' = [TheJob EXCEPT !.status = Snapshot]
             /\ TheJob'.exit = TheJob.exit /\ TheJob'.final = TheJob.final
             /\ TheJob'.persisted = TheJob.persisted /\ TheJob'.status = Snapshot
  <2> DEFINE j == [TheJob EXCEPT !.status = Snapshot]
  <2>1. /\ Snapshot \in {"COMPLETED", "FAILED", "CANCELLED", "STOPPED"}
        /\ proc = "exited" /\ ~TheJob.exit
    BY <1>5, <1>6, SnapshotEnds DEF Listed
  <2>2. j \in Job
    BY <1>4, <2>1 DEF Job, Status, Terminal
  <2>3. /\ j.exit = TheJob.exit /\ j.final = TheJob.final /\ j.persisted = TheJob.persisted
        /\ j.status = Snapshot
    BY <1>4 DEF Job
  <2>4. Good(j, World')
    BY <1>1, <1>4, <2>1, <2>2 DEF Good, Job, JobOrNone
  <2>5. GoodStore(jobs', World') /\ TheJob' = j /\ j # NoJob
    BY <1>1, <1>5, <1>6, <2>2, <2>4, WriteJob DEF LoopInv
  <2> HIDE DEF j
  <2> QED  BY <2>1, <2>3, <2>5 DEF j
<1>7. /\ GoodStore(jobs', World') /\ TheJob' # NoJob
      /\ TheJob'.exit = TheJob.exit /\ TheJob'.final = TheJob.final
      /\ TheJob'.persisted = TheJob.persisted
      /\ proc = "alive" => jobs' = jobs
  <2>1. CASE jobs' = jobs
    BY <1>1, <1>3, <2>1 DEF LoopInv, RecordsGood, TheJob
  <2>2. CASE jobs' # jobs
    BY <1>6, <2>2
  <2> QED  BY <2>1, <2>2
<1>8. Fresh(TheJob', World') <=> Fresh(TheJob, World)
  BY <1>1, <1>7 DEF Fresh
<1>9. TypeOK'
  BY <1>2, <1>7 DEF LoopInv, TypeOK, GoodStore, Listed, external, handles
<1>10. RecordsGood' /\ NoJobNoWork'
  BY <1>1, <1>7 DEF LoopInv, RecordsGood, NoJobNoWork
<1>11. ProcFirst' /\ AliveUnfinished'
  BY <1>1, <1>3, <1>7, NoProcNoJob DEF LoopInv, ProcFirst, AliveUnfinished, Unfinished, Listed, external
<1>12. WorkAfterExit' /\ Places' /\ DownIsQuiet'
  BY <1>1, <1>2 DEF LoopInv, WorkAfterExit, Places, DownIsQuiet, Listed, external, handles
<1>13. Owners'
  BY <1>1, <1>7, <1>8 DEF LoopInv, Owners, Launched, Listed, external, handles
<1>14. ExitClaims'
  BY <1>1, <1>7 DEF LoopInv, ExitClaims, Listed, external, handles
<1>15. CleanExit'
  <2>1. ASSUME CleanRun, jobs' # jobs
        PROVE  TheJob'.status \notin {"FAILED", "STOPPED", "UNKNOWN"} \/ (~child /\ fin["exit"].pc = "idle")
    <3>1. phase = "serving"
      BY <2>1 DEF CleanRun, Listed, Awake, LoopInv, Owners, TypeOK
    <3>2. ~child => TheJob.exit
      BY <1>3, <2>1, <3>1, NoProcNoJob DEF LoopInv, ExitClaims, CleanRun
    <3>3. pending
      BY <1>3, <1>6, <2>1, <3>1, <3>2, NoProcNoJob DEF LoopInv, ExitClaims, CleanRun
    <3> QED  BY <1>6, <2>1, <3>3, SnapshotEnds DEF CleanRun, Listed
  <2>2. CleanRun' = CleanRun /\ UNCHANGED <<verdict, outcome, child>>
    BY DEF CleanRun, Listed, external, handles
  <2>3. CleanExitIsNoError' = CleanExitIsNoError
    BY <2>2 DEF CleanExitIsNoError, Listed, external
  <2> QED  BY <1>1, <2>1, <2>2, <2>3 DEF LoopInv, CleanExit, TheJob
<1>16. CancelHolds'
  <2>1. jobs' # jobs => TheJob'.status # "RUNNING" /\ (state # "COMPLETED" => TheJob'.status # "COMPLETED")
    BY <1>5, <1>6, SnapshotEnds DEF Listed
  <2> QED  BY <1>1, <2>1 DEF LoopInv, CancelHolds, TheJob, Listed, external
<1> QED
  BY <1>9, <1>10, <1>11, <1>12, <1>13, <1>14, <1>15, <1>16 DEF LoopInv

-----------------------------------------------------------------------------
(* A step of a finalizer, of any of them, after the process exited.        *)

Elsewhere == UNCHANGED <<proc, outcome, state, cloud, phase, boots, kills, disk, torn, child,
                         pending, watching, launch, kill, list>>

\* What such a step may record, and where the finalizer goes on.
Recorder(f, r) ==
  /\ fin[f].pc \notin {"idle", "reattaching"} /\ proc = "exited"
  /\ r \in [pc : Pcs, job : JobOrNone] /\ fin' = [fin EXCEPT ![f] = r]
  /\ Elsewhere
  /\ Later(World, World') /\ (Refused => Refused')
  /\ verdict' \in {"none", "completed", "error", "cancelled"}
  /\ {token', beating', muted'} \subseteq BOOLEAN /\ entry' \in {entry, "none"}
  /\ GoodStore(jobs', World') /\ Good(r.job, World')
  /\ TheJob' # NoJob /\ (f # "dead" /\ TheJob.exit => TheJob'.exit)
  /\ \/ r.pc \in {"idle", "pushing", "completed", "error"}
     \/ f = "exit" /\ r.pc \in {"failing", "git", "challenged"}
  /\ r.pc \in {"completed", "error"} => r.job \in Job
  /\ f = "exit" /\ r.pc = "error" => r.job.status \in {"FAILED", "STOPPED", "UNKNOWN"}
  /\ f = "exit" /\ entry' # "none" => r.pc \in {"idle", "git"}
  /\ (Launched' \/ entry' \in {"spawned", "recovered"} \/ phase = "booting")
       => Fresh(TheJob', World')

\* What it tells the cloud of an exit that nobody disturbed, or of a loop that
\* was told to be running when it was killed.
Honest(f, r) ==
  /\ r.pc = "failing" => outcome = "failed" /\ r.job # NoJob
  /\ CleanRun => verdict' # "error"
  /\ CleanRun /\ verdict' = "none" =>
       /\ r.pc # "error"
       /\ child \/ fin'["exit"].pc \in {"flushing", "git"}
            => TheJob'.status \notin {"FAILED", "STOPPED", "UNKNOWN"}
  /\ kill.pc = "entry" /\ state # "COMPLETED" =>
       /\ TheJob'.status \notin {"RUNNING", "COMPLETED"}
       /\ f = "exit" => r.pc \notin {"pushing", "completed"}

\* One step of any finalizer that records what it may (Recorder, Honest).
LEMMA FinalizerStep ==
  ASSUME LoopInv, NEW f \in Finalizers, NEW r, Recorder(f, r), Honest(f, r)
  PROVE  LoopInv'
<1>1. /\ fin' \in FinType /\ fin'[f] = r
      /\ \A g \in Finalizers : g # f => fin'[g] = fin[g]
  BY FinStep DEF LoopInv, TypeOK, FinType, Recorder
<1>2. /\ f # "exit" => fin'["exit"] = fin["exit"]
      /\ f # "dead" => fin'["dead"] = fin["dead"]
      /\ f # "watch" => fin'["watch"] = fin["watch"]
  BY <1>1, FinalizerNames
<1>3. TheJob # NoJob /\ phase # "down"
  BY IdleType DEF LoopInv, NoJobNoWork, DownIsQuiet, Recorder
<1>4. Launched' => Launched
  BY <1>1, <1>2 DEF Launched, Recorder, Elsewhere
<1>5. TypeOK'
  <2>1. jobs' \in [active : JobOrNone, terminal : JobOrNone]
    BY DEF Recorder, GoodStore
  <2>2. entry' \in {"none", "sentinel", "spawned", "recovered"}
    BY DEF LoopInv, TypeOK, Recorder
  <2> QED  BY <1>1, <2>1, <2>2 DEF LoopInv, TypeOK, FinType, Recorder, Elsewhere
<1>6. RecordsGood'
  <2>1. \A g \in Finalizers : Good(fin'[g].job, World')
    BY <1>1, GoodLater DEF LoopInv, RecordsGood, Recorder
  <2>2. Good(disk', World') /\ Good(kill'.job, World')
    BY GoodLater DEF LoopInv, RecordsGood, Recorder, Elsewhere
  <2> QED  BY <2>1, <2>2 DEF LoopInv, RecordsGood, Recorder, Elsewhere
<1>7. NoJobNoWork' /\ ProcFirst' /\ AliveUnfinished' /\ DownIsQuiet'
  BY <1>3 DEF LoopInv, NoJobNoWork, ProcFirst, AliveUnfinished, DownIsQuiet, Recorder, Elsewhere
<1>8. WorkAfterExit'
  BY DEF LoopInv, WorkAfterExit, Recorder, Elsewhere
<1>9. Places'
  <2>1. Fresh(kill.job, World) => Fresh(kill'.job, World')
    BY DEF Fresh, Later, Recorder, Elsewhere
  <2>2. /\ fin'["exit"].pc \in {"idle", "flushing", "failing", "git", "challenged", "pushing",
                                "completed", "error"}
        /\ fin'["dead"].pc \in {"idle", "reconciling", "pushing", "completed", "error"}
        /\ fin'["watch"].pc \in {"idle", "reattaching", "flushing", "pushing",
                                "completed", "error"}
        /\ \A b \in Beats : fin'[b].pc \in {"idle", "waiting", "pushing", "completed", "error"}
    BY <1>1, <1>2, FinalizerNames DEF LoopInv, Places, Recorder
  <2>3. fin'["dead"].pc = "reconciling" =>
          fin'["dead"].job \in Job /\ fin'["dead"].job.attempts < MaxRecoveryAttempts
    BY <1>1, <1>2 DEF LoopInv, Places, Recorder
  <2>4. fin'["exit"].pc = "error" => fin'["exit"].job.status \in {"FAILED", "STOPPED", "UNKNOWN"}
    BY <1>1, <1>2 DEF LoopInv, Places, Recorder
  <2>5. \A g \in Finalizers : fin'[g].pc \in {"completed", "error"} => fin'[g].job \in Job
    BY <1>1 DEF LoopInv, Places, Recorder
  <2>6. kill' = kill /\ list' = list
    BY DEF Recorder, Elsewhere
  <2> QED  BY <2>1, <2>2, <2>3, <2>4, <2>5, <2>6 DEF LoopInv, Places
<1>10. Owners'
  <2>1. UNCHANGED <<phase, watching, child, proc, boots, launch, kill>> /\ proc = "exited"
    BY DEF Recorder, Elsewhere
  <2>2. entry = "none" => entry' = "none"
    BY DEF Recorder
  <2>3. Launched' => /\ phase' = "serving" /\ ~watching' /\ Fresh(TheJob', World')
                     /\ fin'["watch"].pc = "idle" /\ fin'["dead"].pc = "idle"
    BY <1>2, <1>4, <2>1 DEF LoopInv, Owners, Recorder
  <2>7. f = "dead" => ~Launched /\ boots # 1
    BY DEF LoopInv, Owners, Recorder
  <2>4. /\ kill'.pc = "pid" => ~Launched'
        /\ child' => fin'["exit"].pc = "idle"
        /\ fin'["exit"].pc # "idle" => TheJob'.exit
        /\ fin'["exit"].pc \in {"failing", "challenged", "pushing", "completed", "error"} => entry' = "none"
    BY <1>1, <1>2, <1>4, <2>1, <2>2, <2>7 DEF LoopInv, Owners, Recorder, Launched
  <2>5. /\ fin'["watch"].pc # "idle" => entry' = "none" /\ fin'["dead"].pc = "idle"
        /\ fin'["watch"].pc = "reattaching" => phase' = "booting"
        /\ fin'["watch"].pc \notin {"idle", "reattaching"} => phase' = "serving"
        /\ fin'["dead"].pc # "idle" => phase' = "serving" /\ entry' = "none" /\ ~watching'
    BY <1>1, <1>2, <2>1, <2>2 DEF LoopInv, Owners, Recorder
  <2>6. /\ phase' = "booting" => entry' = "none" /\ ~watching' /\ ~child' /\ fin'["dead"].pc = "idle"
             /\ launch' = "none" /\ kill' = Idle /\ Fresh(TheJob', World')
        /\ entry' \in {"spawned", "recovered"} => Fresh(TheJob', World')
        /\ boots' = 1 => phase' # "booting" /\ ~watching' /\ fin'["watch"].pc = "idle"
                         /\ fin'["dead"].pc = "idle"
    BY <1>1, <1>2, <2>1, <2>2 DEF LoopInv, Owners, Recorder
  <2> QED  BY <2>1, <2>3, <2>4, <2>5, <2>6 DEF Owners
<1>11. ExitClaims'
  <2>1. f = "dead" => boots # 1
    BY DEF LoopInv, Owners, Recorder
  <2> QED  BY <2>1 DEF LoopInv, ExitClaims, Recorder, Elsewhere
<1>12. CleanExit'
  <2>1. CleanRun' = CleanRun /\ outcome' = outcome /\ child' = child
    BY DEF CleanRun, Recorder, Elsewhere
  <2>2. CleanExitIsNoError'
    BY <2>1 DEF CleanExitIsNoError, CleanRun, Honest, Recorder, Elsewhere
  <2>3. verdict' = "none" => verdict = "none"
    BY DEF Recorder, Later, World
  <2>4. fin'["exit"].pc = "failing" => outcome = "failed" /\ fin'["exit"].job # NoJob
    BY <1>1, <1>2 DEF LoopInv, CleanExit, Honest
  <2>5. CleanRun /\ verdict' = "none" => \A g \in Finalizers : fin'[g].pc # "error"
    BY <1>1, <2>3 DEF LoopInv, CleanExit, Honest
  <2> QED  BY <2>1, <2>2, <2>4, <2>5 DEF CleanExit, Honest
<1>13. CancelHolds'
  BY <1>1, <1>2 DEF LoopInv, CancelHolds, Recorder, Elsewhere, Honest
<1> QED
  BY <1>5, <1>6, <1>7, <1>8, <1>9, <1>10, <1>11, <1>12, <1>13 DEF LoopInv

-----------------------------------------------------------------------------
(* The exit handler.                                                       *)

LEMMA ExitKeeps ==
  ASSUME LoopInv, Exit
  PROVE  LoopInv'
<1>1. World' = World /\ Later(World, World') /\ Refused' = Refused /\ UNCHANGED <<disk, kill, list>>
  BY WorldSame DEF Exit
<1>2. TheJob # NoJob /\ TheJob \in Job /\ Good(TheJob, World) /\ Fresh(TheJob, World)
      /\ fin["exit"].pc = "idle" /\ fin["watch"].pc = "idle" /\ fin["dead"].pc = "idle"
  <2>1. TheJob # NoJob
    BY DEF LoopInv, NoJobNoWork, Exit
  <2> QED  BY <2>1, StoredJob DEF LoopInv, RecordsGood, TheJob, Owners, Launched, Exit
<1>3. /\ fin' \in FinType /\ fin'["exit"].pc = "flushing" /\ fin'["exit"].job = fin["exit"].job
      /\ \A g \in Finalizers : g # "exit" => fin'[g] = fin[g]
  BY PcStep, FinalizerNames DEF LoopInv, TypeOK, FinType, Exit, Pcs
<1>4. fin'["dead"] = fin["dead"] /\ fin'["watch"] = fin["watch"]
      /\ \A b \in Beats : fin'[b] = fin[b]
  BY <1>3, FinalizerNames
<1> DEFINE j == [TheJob EXCEPT !.exit = TRUE]
<1>5. /\ jobs' = Upsert(jobs, j) /\ j \in Job /\ Good(j, World') /\ j.status = TheJob.status
      /\ j.exit /\ Fresh(j, World')
  <2>1. j \in Job /\ jobs' = Upsert(jobs, j)
    BY <1>2 DEF Job, Exit, TheJob
  <2> QED  BY <1>1, <1>2, <2>1 DEF Good, Fresh, Job, JobOrNone
<1> HIDE DEF j
<1>6. GoodStore(jobs', World') /\ TheJob' = j /\ TheJob' # NoJob
  BY <1>1, <1>5, WriteJob DEF LoopInv
<1>7. TypeOK'
  <2>1. jobs' \in [active : JobOrNone, terminal : JobOrNone]
    BY <1>6 DEF GoodStore
  <2>2. /\ {child', pending'} \subseteq BOOLEAN
        /\ UNCHANGED <<proc, outcome, state, cloud, verdict, phase, boots, kills, disk, torn, token,
                       entry, beating, muted, watching, launch, kill, list>>
    BY DEF Exit, external
  <2> QED  BY <1>3, <2>1, <2>2 DEF LoopInv, TypeOK, FinType
<1>8. RecordsGood'
  BY <1>1, <1>3, <1>6 DEF LoopInv, RecordsGood
<1>9. NoJobNoWork' /\ ProcFirst' /\ AliveUnfinished' /\ DownIsQuiet'
  BY <1>6 DEF LoopInv, NoJobNoWork, ProcFirst, AliveUnfinished, DownIsQuiet, Exit, Awake, external
<1>10. WorkAfterExit' /\ Places'
  BY <1>1, <1>3, <1>4, FinalizerNames DEF LoopInv, WorkAfterExit, Places, Exit, external
<1>11. Owners'
  BY <1>1, <1>2, <1>3, <1>4, <1>5, <1>6 DEF LoopInv, Owners, Launched, Exit, external
<1>12. ExitClaims' /\ CancelHolds'
  BY <1>1, <1>2, <1>3, <1>4, <1>5, <1>6 DEF LoopInv, ExitClaims, CancelHolds, Exit, external
<1>13. CleanExit'
  <2>1. CleanRun' = CleanRun /\ CleanExitIsNoError' = CleanExitIsNoError /\ verdict' = verdict
    BY DEF CleanRun, CleanExitIsNoError, Exit, external
  <2>2. verdict = "none" /\ CleanRun => \A g \in Finalizers : fin'[g].pc # "error"
    BY <1>3 DEF LoopInv, CleanExit
  <2>3. verdict = "none" /\ CleanRun => TheJob'.status \notin {"FAILED", "STOPPED", "UNKNOWN"}
    BY <1>5, <1>6 DEF LoopInv, CleanExit, Exit
  <2> QED  BY <1>3, <2>1, <2>2, <2>3 DEF LoopInv, CleanExit
<1> QED
  BY <1>7, <1>8, <1>9, <1>10, <1>11, <1>12, <1>13 DEF LoopInv

\* What the handler finds.
LEMMA ExitFinds ==
  ASSUME LoopInv, fin["exit"].pc # "idle"
  PROVE  /\ "exit" \in Finalizers /\ "exit" \notin Beats
         /\ proc = "exited" /\ ~child /\ phase = "serving"
         /\ TheJob \in Job /\ TheJob # NoJob /\ Good(TheJob, World)
         /\ TheJob.exit /\ Fresh(TheJob, World)
         /\ {token, beating, muted} \subseteq BOOLEAN
         /\ verdict \in {"none", "completed", "error", "cancelled"}
         /\ Good(fin["exit"].job, World) /\ fin["exit"].job \in JobOrNone
<1>1. "exit" \in Finalizers /\ "exit" \notin Beats
  BY FinalizerNames
<1>2. TheJob # NoJob
  BY <1>1, IdleType DEF LoopInv, NoJobNoWork
<1>3. TheJob \in Job /\ Good(TheJob, World)
  BY <1>2, StoredJob DEF LoopInv, RecordsGood, TheJob
<1>4. Good(fin["exit"].job, World)
  BY <1>1 DEF LoopInv, RecordsGood
<1> QED
  BY <1>1, <1>2, <1>3, <1>4 DEF LoopInv, TypeOK, WorkAfterExit, Owners, Launched, Good

\* A step of the handler that writes the job of the loop.
LEMMA ExitRecords ==
  ASSUME LoopInv, fin["exit"].pc # "idle",
         NEW r \in [pc : Pcs, job : JobOrNone], fin' = [fin EXCEPT !["exit"] = r],
         NEW j \in Job, jobs' = Upsert(jobs, j) \/ (jobs' = jobs /\ j = TheJob),
         Elsewhere, Later(World, World'), Refused => Refused',
         verdict' \in {"none", "completed", "error", "cancelled"},
         {token', beating', muted'} \subseteq BOOLEAN, entry' \in {entry, "none"},
         Good(j, World'), j.exit, Good(r.job, World'),
         r.pc \in {"idle", "pushing", "completed", "error", "failing", "git", "challenged"},
         r.pc \in {"completed", "error"} => r.job \in Job,
         r.pc = "error" => r.job.status \in {"FAILED", "STOPPED", "UNKNOWN"},
         entry' # "none" => r.pc \in {"idle", "git"},
         r.pc # "idle" \/ entry' \in {"spawned", "recovered"} => Fresh(j, World')
  PROVE  Recorder("exit", r) /\ TheJob' = j
<1>1. GoodStore(jobs', World') /\ TheJob' = j /\ TheJob' # NoJob
  <2>1. CASE jobs' = Upsert(jobs, j)
    BY <2>1, WriteJob DEF LoopInv
  <2>2. CASE jobs' = jobs /\ j = TheJob
    BY <2>2, ExitFinds, StoreLater DEF LoopInv, RecordsGood, TheJob
  <2> QED  BY <2>1, <2>2
<1>2. fin'["exit"] = r
  BY FinStep, FinalizerNames DEF LoopInv, TypeOK, FinType
<1>3. Launched' => r.pc # "idle"
  BY <1>2, ExitFinds DEF Launched, Elsewhere
<1>4. fin["exit"].pc # "reattaching" /\ phase # "booting"
  BY ExitFinds DEF LoopInv, Places
<1>5. (Launched' \/ entry' \in {"spawned", "recovered"} \/ phase = "booting") => Fresh(TheJob', World')
  BY <1>1, <1>3, <1>4
<1>6. proc = "exited" /\ TheJob'.exit
  BY <1>1, ExitFinds
<1> QED  BY <1>1, <1>4, <1>5, <1>6 DEF Recorder

\* The exit of a job that was cancelled meanwhile ends it as cancelled.
LEMMA ExitCancelledRecords ==
  ASSUME LoopInv, fin["exit"].pc # "idle", ExitCancelled, UNCHANGED <<external, muted>>, Elsewhere
  PROVE  Recorder("exit", Idle) /\ Honest("exit", Idle) /\ TheJob'.status = "CANCELLED"
<1> DEFINE j == [TheJob EXCEPT !.status = "CANCELLED"]
<1>1. World' = World /\ Later(World, World') /\ Refused' = Refused /\ verdict' = verdict
  BY WorldSame DEF external
<1>2. j \in Job /\ j.exit /\ Good(j, World') /\ j.status = "CANCELLED"
  <2>1. j \in Job /\ j.exit /\ j.status = "CANCELLED"
    BY ExitFinds DEF Job, Status, Terminal
  <2> QED  BY <1>1, <2>1, ExitFinds DEF Good, Job, JobOrNone
<1>3. jobs' = Upsert(jobs, j) /\ fin' = [fin EXCEPT !["exit"] = Idle] /\ entry' = "none"
  BY DEF ExitCancelled, TheJob
<1>4. {token', beating', muted'} \subseteq BOOLEAN
  BY ExitFinds DEF ExitCancelled, Release
<1> HIDE DEF j
<1>5. Recorder("exit", Idle) /\ TheJob' = j
  BY <1>1, <1>2, <1>3, <1>4, ExitRecords, ExitFinds, IdleType, NoJobType
<1>6. Honest("exit", Idle)
  <2>1. CleanRun => verdict # "error"
    BY DEF LoopInv, CleanExit, CleanExitIsNoError, CleanRun
  <2> QED  BY <1>1, <1>2, <1>5, <2>1, IdleType DEF Honest
<1> QED  BY <1>2, <1>5, <1>6

\* What the handler says of the exit stays true while nothing is told.
LEMMA ExitHonest ==
  ASSUME LoopInv, NEW r, verdict' = verdict, Elsewhere,
         fin' = [fin EXCEPT !["exit"] = r],
         r.pc = "failing" => outcome = "failed" /\ r.job # NoJob,
         r.pc \notin {"error", "pushing", "completed"},
         TheJob'.status = TheJob.status, r.pc # "idle" => fin["exit"].pc \in {"flushing", "git"}
  PROVE  Honest("exit", r)
<1>1. fin'["exit"] = r
  BY FinStep, FinalizerNames DEF LoopInv, TypeOK, FinType
<1> QED  BY <1>1 DEF Honest, LoopInv, CleanExit, CleanExitIsNoError, CleanRun, CancelHolds

LEMMA ExitFlushedKeeps ==
  ASSUME LoopInv, ExitFlushed
  PROVE  LoopInv'
<1>1. /\ World' = World /\ Later(World, World') /\ Refused' = Refused /\ Elsewhere
      /\ UNCHANGED <<verdict, muted, external>>
  BY WorldSame DEF ExitFlushed, Elsewhere, external
<1>2. fin["exit"].pc = "flushing"
  BY DEF ExitFlushed
<1>3. Fresh(TheJob, World') /\ Good(TheJob, World')
  BY <1>1, <1>2, ExitFinds
<1>4. CASE outcome = "failed"
  <2> DEFINE r == [pc |-> "failing", job |-> TheJob]
  <2>1. r \in [pc : Pcs, job : JobOrNone] /\ r.pc = "failing" /\ r.job = TheJob
    BY <1>2, ExitFinds DEF Pcs, JobOrNone
  <2>2. /\ fin' = [fin EXCEPT !["exit"] = r] /\ jobs' = jobs /\ entry' = "none"
        /\ token' = token /\ beating' = beating
    BY <1>4 DEF ExitFlushed, TheJob
  <2> HIDE DEF r
  <2>3. Recorder("exit", r) /\ TheJob' = TheJob
    BY <1>1, <1>2, <1>3, <2>1, <2>2, ExitRecords, ExitFinds
  <2>4. Honest("exit", r)
    BY <1>1, <1>2, <1>4, <2>1, <2>2, <2>3, ExitFinds, ExitHonest
  <2> QED  BY <2>3, <2>4, FinalizerStep, FinalizerNames
<1>5. CASE outcome # "failed" /\ IsCancelled
  BY <1>1, <1>2, <1>5, ExitCancelledRecords, FinalizerStep, FinalizerNames DEF ExitFlushed
<1>6. CASE outcome # "failed" /\ ~IsCancelled
  <2> DEFINE r == [fin["exit"] EXCEPT !.pc = "git"]
  <2>1. r \in [pc : Pcs, job : JobOrNone] /\ r.pc = "git" /\ r.job = fin["exit"].job
    BY FinalizerNames DEF LoopInv, TypeOK, Pcs
  <2>2. /\ fin' = [fin EXCEPT !["exit"] = r] /\ jobs' = jobs /\ entry' = entry
        /\ token' = token /\ beating' = beating
    BY <1>6, FinalizerNames DEF ExitFlushed, LoopInv, TypeOK
  <2> HIDE DEF r
  <2>3. Recorder("exit", r) /\ TheJob' = TheJob
    BY <1>1, <1>2, <1>3, <2>1, <2>2, ExitRecords, ExitFinds
  <2>4. Honest("exit", r)
    BY <1>1, <1>2, <2>1, <2>2, <2>3, ExitHonest
  <2> QED  BY <2>3, <2>4, FinalizerStep, FinalizerNames
<1> QED  BY <1>4, <1>5, <1>6

LEMMA ExitChallengeKeeps ==
  ASSUME LoopInv, ExitChallenge
  PROVE  LoopInv'
<1>1. /\ World' = World /\ Later(World, World') /\ Refused' = Refused /\ Elsewhere
      /\ UNCHANGED <<verdict, muted, jobs, token, beating>>
  BY WorldSame DEF ExitChallenge, Elsewhere, external, stored
<1>2. fin["exit"].pc = "git"
  BY DEF ExitChallenge
<1> DEFINE r == [fin["exit"] EXCEPT !.pc = "challenged"]
<1>3. r \in [pc : Pcs, job : JobOrNone] /\ r.pc = "challenged" /\ r.job = fin["exit"].job
  BY FinalizerNames DEF LoopInv, TypeOK, Pcs
<1>4. fin' = [fin EXCEPT !["exit"] = r] /\ entry' = "none"
  BY FinalizerNames DEF ExitChallenge, LoopInv, TypeOK
<1> HIDE DEF r
<1>5. Recorder("exit", r) /\ TheJob' = TheJob
  BY <1>1, <1>2, <1>3, <1>4, ExitRecords, ExitFinds
<1>6. Honest("exit", r)
  BY <1>1, <1>2, <1>3, <1>4, <1>5, ExitHonest
<1> QED  BY <1>5, <1>6, FinalizerStep, FinalizerNames

LEMMA ExitThrowsKeeps ==
  ASSUME LoopInv, ExitThrows
  PROVE  LoopInv'
<1>1. /\ World' = World /\ Later(World, World') /\ Refused' = Refused /\ Elsewhere
      /\ UNCHANGED <<verdict, muted, token, beating>>
  BY WorldSame DEF ExitThrows, Elsewhere, external
<1>2. fin["exit"].pc \in {"git", "pushing"} /\ entry' = "none" /\ fin' = [fin EXCEPT !["exit"] = Idle]
  BY DEF ExitThrows
<1> DEFINE j == IF TheJob.status = "RUNNING" THEN [TheJob EXCEPT !.status = "FAILED"] ELSE TheJob
<1>3. /\ j \in Job /\ j.exit /\ j.final = TheJob.final /\ j.persisted = TheJob.persisted
      /\ j.posted = TheJob.posted /\ j.attempts = TheJob.attempts
      /\ j.status \in {TheJob.status, "FAILED"} /\ j.status # "RUNNING"
      /\ jobs' = Upsert(jobs, j) \/ (jobs' = jobs /\ j = TheJob)
  BY <1>2, ExitFinds DEF Job, Status, Terminal, ExitThrows, TheJob
<1>4. Good(j, World')
  BY <1>1, <1>2, <1>3, ExitFinds DEF Good, Fresh, JobOrNone
<1> HIDE DEF j
<1>5. Recorder("exit", Idle) /\ TheJob' = j
  BY <1>1, <1>2, <1>3, <1>4, ExitRecords, ExitFinds, IdleType, NoJobType
<1>6. Honest("exit", Idle)
  <2>1. fin'["exit"].pc = "idle" /\ ~child
    BY <1>2, FinStep, FinalizerNames, IdleType, ExitFinds DEF LoopInv, TypeOK, FinType
  <2> QED
    BY <1>1, <1>3, <1>5, <2>1, IdleType DEF Honest, LoopInv, CleanExit, CleanExitIsNoError, CleanRun, CancelHolds
<1> QED  BY <1>5, <1>6, FinalizerStep, FinalizerNames

LEMMA ExitFailedKeeps ==
  ASSUME LoopInv, ExitFailed
  PROVE  LoopInv'
<1> DEFINE cancelled == fin["exit"].job.status \in {"CANCEL_PENDING", "CANCELLED"}
           event     == IF cancelled THEN "cancelled" ELSE "error"
           answered(o) == [TheJob EXCEPT !.posted = @ \/ o.posted,
                                         !.final = @ \/ o.posted,
                                         !.error = o.error,
                                         !.status = IF cancelled THEN "CANCELLED" ELSE "FAILED",
                                         !.exit = TRUE,
                                         !.persisted = @ \/ ~cancelled]
<1>1. fin["exit"].pc = "failing" /\ fin' = [fin EXCEPT !["exit"] = Idle]
      /\ beating' = FALSE /\ entry' = entry /\ muted' = muted /\ entry = "none"
  BY DEF ExitFailed, LoopInv, Owners
<1>2. outcome = "failed" /\ ~CleanRun
  BY <1>1 DEF LoopInv, CleanExit, CleanRun
<1>3. PICK o \in Outcomes("error", FALSE) :
        /\ Accept(event, o)
        /\ jobs' = IF fin["exit"].job = NoJob THEN jobs ELSE Upsert(jobs, answered(o))
        /\ token' = (token /\ ~cancelled /\ o.error = "retryable")
  <2>1. TheJob = Current(jobs, fin["exit"].job)
    BY <1>1, ExitFinds, CurrentIsStored DEF TheJob
  <2> QED  BY <2>1 DEF ExitFailed
<1>4. event \in {"cancelled", "error"} /\ event # "none"
  OBVIOUS
<1>5. /\ Later(World, World') /\ (Refused => Refused')
      /\ o.error \in Errors /\ o.posted \in BOOLEAN
      /\ o.posted => World'.told /\ World'.refused
  <2>1. o.posted \in BOOLEAN
    BY <1>3 DEF Outcomes
  <2> HIDE DEF event
  <2> QED  BY <1>3, <1>4, <2>1, WorldAnswers
<1>6. Elsewhere /\ verdict' \in {verdict, "cancelled", "error"}
  BY <1>3 DEF ExitFailed, Elsewhere, Accept
<1> DEFINE j == IF fin["exit"].job = NoJob THEN TheJob ELSE answered(o)
<1>7. j \in Job /\ j.exit /\ Good(j, World')
  <2>1. CASE fin["exit"].job = NoJob
    BY <1>1, <1>5, <2>1, ExitFinds, GoodLater
  <2>2. CASE fin["exit"].job # NoJob
    <3> DEFINE posted == TheJob.posted \/ o.posted
               final  == TheJob.final \/ o.posted
               persisted == TheJob.persisted \/ ~cancelled
               status == IF cancelled THEN "CANCELLED" ELSE "FAILED"
    <3>1. TheJob \in Job /\ Good(TheJob, World') /\ Fresh(TheJob, World)
      BY <1>1, <1>5, ExitFinds, GoodLater
    <3>2. answered(o) \in Job
      BY <1>5, <3>1 DEF Job, Status, Terminal
    <3>3. /\ answered(o).posted = posted /\ answered(o).final = final
          /\ answered(o).status = status /\ answered(o).exit
      BY <3>1 DEF Job
    <3>4. /\ posted => World'.told
          /\ final => World'.refused
      BY <1>5, <3>1 DEF Good, Fresh, Later
    <3>5. status \in {"CANCELLED", "FAILED"}
      OBVIOUS
    <3> HIDE DEF answered, posted, final, status
    <3>6. Good(answered(o), World')
      BY <3>2, <3>3, <3>4, <3>5 DEF Good, JobOrNone
    <3> QED  BY <2>2, <3>2, <3>3, <3>6
  <2> QED  BY <2>1, <2>2
<1>8. jobs' = Upsert(jobs, j) \/ (jobs' = jobs /\ j = TheJob)
  BY <1>3
<1>9. {token', beating', muted'} \subseteq BOOLEAN
  BY <1>1, <1>3, ExitFinds
<1>10. verdict' \in {"none", "completed", "error", "cancelled"}
  BY <1>1, <1>6, ExitFinds
<1>11. fin["exit"].job # NoJob => j.status \in {"CANCELLED", "FAILED"}
  BY <1>1, ExitFinds DEF Job
<1> HIDE DEF j, answered, event, cancelled
<1>12. Recorder("exit", Idle) /\ TheJob' = j
  BY <1>1, <1>5, <1>6, <1>7, <1>8, <1>9, <1>10, ExitRecords, IdleType, NoJobType
<1>13. Honest("exit", Idle)
  BY <1>2, <1>11, <1>12, IdleType DEF Honest, LoopInv, CancelHolds, j
<1> QED  BY <1>12, <1>13, FinalizerStep, FinalizerNames

LEMMA ExitChallengedKeeps ==
  ASSUME LoopInv, ExitChallenged
  PROVE  LoopInv'
<1>1. /\ fin["exit"].pc = "challenged" /\ fin' = [fin EXCEPT !["exit"] = Idle]
      /\ entry' = entry /\ muted' = muted /\ entry = "none"
  BY DEF ExitChallenged, LoopInv, Owners
<1>2. PICK o \in Outcomes("error", FALSE) : Accept("cancelled", o)
  BY DEF ExitChallenged
<1>3. /\ Later(World, World') /\ (Refused => Refused')
      /\ Elsewhere /\ verdict' \in {verdict, "cancelled"}
      /\ verdict' = "none" => verdict = "none"
  BY <1>2, WorldAnswers DEF ExitChallenged, Elsewhere, Accept
<1> DEFINE j == [TheJob EXCEPT !.status = "FAILED", !.persisted = TRUE]
<1>4. /\ j \in Job /\ j.exit /\ j.status = "FAILED" /\ j.final = TheJob.final
      /\ j.posted = TheJob.posted /\ jobs' = Upsert(jobs, j)
  BY <1>1, ExitFinds DEF Job, Status, Terminal, ExitChallenged, TheJob
<1>5. Good(j, World')
  BY <1>1, <1>3, <1>4, ExitFinds DEF Good, Fresh, Later, JobOrNone
<1>6. {token', beating', muted'} \subseteq BOOLEAN
  BY <1>1, ExitFinds DEF ExitChallenged, Release
<1> HIDE DEF j
<1>7. Recorder("exit", Idle) /\ TheJob' = j
  BY <1>1, <1>3, <1>4, <1>5, <1>6, ExitRecords, ExitFinds, IdleType, NoJobType
<1>8. Honest("exit", Idle)
  <2>1. fin'["exit"].pc = "idle" /\ ~child
    BY <1>1, FinStep, FinalizerNames, IdleType, ExitFinds DEF LoopInv, TypeOK, FinType
  <2> QED
    BY <1>3, <1>4, <1>7, <2>1, IdleType DEF Honest, LoopInv, CleanExit, CleanExitIsNoError, CleanRun
<1> QED  BY <1>7, <1>8, FinalizerStep, FinalizerNames

-----------------------------------------------------------------------------
(* Boot recovery.                                                          *)

\* What any finalizer finds after the process exited.
LEMMA FinalizerFinds ==
  ASSUME LoopInv, NEW f \in Finalizers, fin[f].pc \notin {"idle", "waiting", "reattaching"}
  PROVE  /\ proc = "exited" /\ TheJob \in Job /\ TheJob # NoJob /\ Good(TheJob, World)
         /\ Good(fin[f].job, World) /\ fin[f].job \in JobOrNone
         /\ \A j : Current(jobs, j) = TheJob
         /\ {token, beating, muted} \subseteq BOOLEAN
         /\ verdict \in {"none", "completed", "error", "cancelled"}
<1>1. proc = "exited"
  BY FinalizerNames DEF LoopInv, WorkAfterExit
<1>2. TheJob # NoJob
  BY IdleType DEF LoopInv, NoJobNoWork
<1>3. TheJob \in Job /\ Good(TheJob, World)
  BY <1>2, StoredJob DEF LoopInv, RecordsGood, TheJob
<1>4. \A j : Current(jobs, j) = TheJob
  BY <1>2, CurrentIsStored DEF TheJob
<1>5. Good(fin[f].job, World)
  BY DEF LoopInv, RecordsGood
<1> QED  BY <1>1, <1>2, <1>3, <1>4, <1>5 DEF LoopInv, TypeOK, Good

\* A recovery that ends with a loop the cloud has ended.
LEMMA DeadTimedOutKeeps ==
  ASSUME LoopInv, DeadTimedOut
  PROVE  LoopInv'
<1>1. /\ World' = World /\ Later(World, World') /\ Refused' = Refused /\ Refused /\ Elsewhere
      /\ UNCHANGED <<verdict, muted, entry, beating>>
      /\ fin["dead"].pc = "reconciling" /\ fin' = [fin EXCEPT !["dead"] = Idle] /\ token' = FALSE
  BY WorldSame DEF DeadTimedOut, Elsewhere, external, handles, Refused
<1> DEFINE j == [TheJob EXCEPT !.status = "TIMED_OUT", !.final = TRUE]
<1>2. /\ TheJob \in Job /\ Good(TheJob, World) /\ proc = "exited" /\ "dead" \in Finalizers
      /\ {token', beating', muted'} \subseteq BOOLEAN /\ verdict' \in {"none", "completed", "error", "cancelled"}
      /\ jobs' = Upsert(jobs, j)
  BY <1>1, FinalizerFinds, FinalizerNames DEF DeadTimedOut, Terminated
<1>3. j \in Job /\ j.exit = TheJob.exit /\ j.status = "TIMED_OUT" /\ j.posted = TheJob.posted /\ j.persisted = TheJob.persisted
  BY <1>2 DEF Job, Status, Terminal
<1>4. Good(j, World') /\ Fresh(j, World')
  BY <1>1, <1>2, <1>3 DEF Good, Fresh, JobOrNone, World
<1> HIDE DEF j
<1>5. GoodStore(jobs', World') /\ TheJob' = j /\ j # NoJob
  BY <1>1, <1>2, <1>3, <1>4, WriteJob DEF LoopInv
<1>6. Recorder("dead", Idle)
  BY <1>1, <1>2, <1>3, <1>4, <1>5, IdleType, NoJobType DEF Recorder
<1>7. Honest("dead", Idle)
  BY <1>1, <1>3, <1>5, IdleType DEF Honest, LoopInv, CleanExit, CleanExitIsNoError, CleanRun, Owners
<1> QED  BY <1>2, <1>6, <1>7, FinalizerStep

\* What a boot finds that looks at a live job first.
LEMMA BootingFinds ==
  ASSUME LoopInv, phase = "booting"
  PROVE  /\ TheJob # NoJob /\ TheJob \in Job /\ Good(TheJob, World)
         /\ boots # 1 /\ ~Launched /\ proc # "none"
         /\ fin["exit"].pc = "idle" /\ fin["dead"].pc = "idle"
         /\ Fresh(TheJob, World) /\ boots \in Nat /\ boots > 1
<1>1. TheJob # NoJob /\ boots # 1 /\ ~Launched /\ boots \in 1..MaxBoots
  BY DEF LoopInv, NoJobNoWork, Owners, TypeOK
<1>2. boots \in Nat /\ boots > 1
  BY <1>1, BootsAssumption
<1> QED
  BY <1>1, <1>2, StoredJob, NoProcNoJob DEF LoopInv, RecordsGood, Owners, Launched, TheJob

LEMMA ReattachKeeps ==
  ASSUME LoopInv, Reattach
  PROVE  LoopInv'
<1>1. World' = World /\ Refused' = Refused /\ UNCHANGED <<proc, jobs, disk, kill, list>>
  BY WorldSame DEF Reattach, stored, external
<1>2. phase = "booting" /\ TheJob # NoJob /\ TheJob \in Job /\ Good(TheJob, World) /\ boots # 1
      /\ ~Launched /\ fin["exit"].pc = "idle" /\ fin["dead"].pc = "idle" /\ fin["watch"].pc = "idle"
      /\ (proc # "alive" => proc = "exited") /\ Fresh(TheJob, World)
  BY BootingFinds, NoProcNoJob DEF Reattach
<1>3. /\ fin' \in FinType /\ Good(fin'["watch"].job, World)
      /\ \A g \in Finalizers : g # "watch" => fin'[g] = fin[g]
      /\ \/ proc = "alive" /\ fin'["watch"].pc = "reattaching" /\ phase' = "booting"
         \/ proc = "exited" /\ fin'["watch"].pc = "flushing" /\ phase' = "serving"
  <2>1. CASE proc = "alive"
    <3> DEFINE r == [pc |-> "reattaching", job |-> TheJob]
    <3>1. r \in [pc : Pcs, job : JobOrNone] /\ r.pc = "reattaching" /\ r.job = TheJob
      BY <1>2 DEF Pcs, JobOrNone
    <3>2. fin' = [fin EXCEPT !["watch"] = r] /\ phase' = "booting"
      BY <1>2, <2>1 DEF Reattach, TheJob
    <3> HIDE DEF r
    <3> QED  BY <1>2, <2>1, <3>1, <3>2, FinStep, FinalizerNames DEF LoopInv, TypeOK, FinType
  <2>2. CASE proc # "alive"
    BY <1>2, <2>2, PcStep, FinalizerNames DEF Reattach, LoopInv, TypeOK, FinType, Pcs, RecordsGood
  <2> QED  BY <2>1, <2>2
<1>4. fin'["exit"] = fin["exit"] /\ fin'["dead"] = fin["dead"] /\ \A b \in Beats : fin'[b] = fin[b]
  BY <1>3, FinalizerNames
<1>5. TypeOK'
  BY <1>3 DEF LoopInv, TypeOK, FinType, Reattach, external, stored, handles
<1>6. RecordsGood'
  BY <1>1, <1>3 DEF LoopInv, RecordsGood
<1>7. NoJobNoWork' /\ ProcFirst' /\ AliveUnfinished' /\ DownIsQuiet'
  BY <1>1, <1>2, <1>3 DEF LoopInv, NoJobNoWork, ProcFirst, AliveUnfinished, Unfinished, DownIsQuiet, TheJob,
     Reattach, external
<1>8. WorkAfterExit' /\ Places'
  BY <1>1, <1>3, <1>4, FinalizerNames DEF LoopInv, WorkAfterExit, Places
<1>9. Owners'
  BY <1>1, <1>2, <1>3, <1>4 DEF LoopInv, Owners, Launched, TheJob, Reattach, external, handles
<1>10. ExitClaims' /\ CleanExit' /\ CancelHolds'
  BY <1>1, <1>2, <1>4 DEF LoopInv, ExitClaims, CleanExit, CleanRun, CleanExitIsNoError, CancelHolds,
     TheJob, Reattach, external, handles
<1> QED
  BY <1>5, <1>6, <1>7, <1>8, <1>9, <1>10 DEF LoopInv

LEMMA ReattachLiveKeeps ==
  ASSUME LoopInv, ReattachLive
  PROVE  LoopInv'
<1>1. World' = World /\ Refused' = Refused /\ UNCHANGED <<proc, jobs, disk, kill, list>>
  BY WorldSame DEF ReattachLive, stored, external
<1>2. phase = "booting"
  BY DEF LoopInv, Owners, ReattachLive
<1>3. /\ fin' \in FinType /\ fin'["watch"] = Idle
      /\ \A g \in Finalizers : g # "watch" => fin'[g] = fin[g]
  BY FinStep, FinalizerNames, IdleType DEF LoopInv, TypeOK, FinType, ReattachLive
<1>4. fin'["exit"] = fin["exit"] /\ fin'["dead"] = fin["dead"] /\ \A b \in Beats : fin'[b] = fin[b]
  BY <1>3, FinalizerNames
<1>5. TypeOK'
  <2>1. {beating', watching'} \subseteq BOOLEAN /\ entry' = "recovered" /\ phase' = "serving"
    BY DEF ReattachLive, Reattached
  <2> QED  BY <1>3, <2>1 DEF LoopInv, TypeOK, FinType, ReattachLive, external, stored
<1>6. RecordsGood'
  BY <1>1, <1>3, IdleType, NoJobType DEF LoopInv, RecordsGood
<1>7. NoJobNoWork' /\ ProcFirst' /\ AliveUnfinished' /\ DownIsQuiet'
  BY <1>1, <1>2, BootingFinds DEF LoopInv, NoJobNoWork, ProcFirst, AliveUnfinished, Unfinished, DownIsQuiet, TheJob,
     ReattachLive, external
<1>8. WorkAfterExit' /\ Places'
  BY <1>1, <1>3, <1>4, FinalizerNames, IdleType DEF LoopInv, WorkAfterExit, Places
<1>9. Owners'
  BY <1>1, <1>2, <1>3, <1>4, BootingFinds, IdleType DEF LoopInv, Owners, Launched, TheJob,
     ReattachLive, Reattached, external
<1>10. ExitClaims' /\ CleanExit' /\ CancelHolds'
  BY <1>1, <1>2, <1>4, BootingFinds DEF LoopInv, ExitClaims, CleanExit, CleanRun, CleanExitIsNoError, CancelHolds,
     TheJob, ReattachLive, external
<1> QED
  BY <1>5, <1>6, <1>7, <1>8, <1>9, <1>10 DEF LoopInv

\* A loop that the cloud refuses at boot is written off.
LEMMA ReattachEndedKeeps ==
  ASSUME LoopInv, ReattachEnded
  PROVE  LoopInv'
<1>1. /\ World' = World /\ Later(World, World') /\ Refused' = Refused /\ Refused
      /\ UNCHANGED <<proc, disk, kill, list, entry, child, watching, launch, boots, verdict, outcome, state>>
  BY WorldSame DEF ReattachEnded, external, handles
<1>2. phase = "booting" /\ phase' = "serving"
  BY DEF LoopInv, Owners, ReattachEnded
<1>3. /\ fin' \in FinType /\ fin'["watch"] = Idle
      /\ \A g \in Finalizers : g # "watch" => fin'[g] = fin[g]
  BY FinStep, FinalizerNames, IdleType DEF LoopInv, TypeOK, FinType, ReattachEnded
<1>4. fin'["exit"] = fin["exit"] /\ fin'["dead"] = fin["dead"] /\ \A b \in Beats : fin'[b] = fin[b]
  BY <1>3, FinalizerNames
<1>5. PICK status \in {"TIMED_OUT", "UNKNOWN"} :
        jobs' = Upsert(jobs, [TheJob EXCEPT !.status = status, !.final = TRUE])
  BY <1>2, BootingFinds, CurrentIsStored DEF ReattachEnded, Terminated, TheJob
<1> DEFINE j == [TheJob EXCEPT !.status = status, !.final = TRUE]
<1>6. /\ j \in Job /\ j.status = status /\ j.final /\ j.exit = TheJob.exit
      /\ j.posted = TheJob.posted /\ j.persisted = TheJob.persisted
  BY <1>2, BootingFinds DEF Job, Status, Terminal
<1>7. Good(j, World')
  BY <1>1, <1>2, <1>6, BootingFinds DEF Good, JobOrNone, World
<1> HIDE DEF j
<1>8. GoodStore(jobs', World') /\ TheJob' = j /\ j # NoJob
  BY <1>1, <1>5, <1>6, <1>7, WriteJob DEF LoopInv, j
<1>9. jobs' = [active |-> NoJob, terminal |-> j]
  BY <1>5, <1>6 DEF Upsert, Terminal, j
<1>10. \A i : Fresh(i, World')
  BY <1>1 DEF Fresh, World
<1>11. TypeOK'
  <2>1. token' \in BOOLEAN /\ jobs' \in [active : JobOrNone, terminal : JobOrNone]
    BY <1>8 DEF ReattachEnded, GoodStore
  <2> QED  BY <1>2, <1>3, <2>1 DEF LoopInv, TypeOK, FinType, ReattachEnded, external, handles
<1>12. RecordsGood'
  BY <1>1, <1>3, <1>8, IdleType, NoJobType DEF LoopInv, RecordsGood
<1>13. NoJobNoWork' /\ ProcFirst' /\ DownIsQuiet'
  BY <1>1, <1>2, <1>8, BootingFinds DEF LoopInv, NoJobNoWork, ProcFirst, DownIsQuiet, ReattachEnded
<1>14. AliveUnfinished'
  BY <1>1, <1>2, <1>6, <1>9, <1>10, BootingFinds, NoJobType DEF LoopInv, AliveUnfinished, Unfinished
<1>15. WorkAfterExit' /\ Places'
  BY <1>1, <1>3, <1>4, <1>10, FinalizerNames, IdleType DEF LoopInv, WorkAfterExit, Places
<1>16. Owners'
  BY <1>1, <1>2, <1>3, <1>4, <1>10, BootingFinds, IdleType DEF LoopInv, Owners, Launched
<1>17. ExitClaims' /\ CleanExit' /\ CancelHolds'
  BY <1>1, <1>2, <1>4, BootingFinds, IdleType DEF LoopInv, ExitClaims, CleanExit, CleanRun, CleanExitIsNoError, CancelHolds,
     ReattachEnded, external, Owners
<1> QED
  BY <1>11, <1>12, <1>13, <1>14, <1>15, <1>16, <1>17 DEF LoopInv

LEMMA WatchKeeps ==
  ASSUME LoopInv, Watch
  PROVE  LoopInv'
<1>1. World' = World /\ Refused' = Refused /\ UNCHANGED <<proc, jobs, disk, kill, list>>
  BY WorldSame DEF Watch, stored, external
<1>2. /\ TheJob # NoJob /\ ~Launched /\ phase = "serving" /\ boots # 1 /\ proc = "exited"
      /\ fin["dead"].pc = "idle"
  BY DEF LoopInv, NoJobNoWork, DownIsQuiet, Owners, TypeOK, Watch
<1>3. /\ fin' \in FinType /\ fin'["watch"].pc = "flushing" /\ fin'["watch"].job = fin["watch"].job
      /\ \A g \in Finalizers : g # "watch" => fin'[g] = fin[g]
  BY PcStep, FinalizerNames DEF LoopInv, TypeOK, FinType, Watch, Pcs
<1>4. fin'["exit"] = fin["exit"] /\ fin'["dead"] = fin["dead"] /\ \A b \in Beats : fin'[b] = fin[b]
  BY <1>3, FinalizerNames
<1>5. TypeOK'
  <2>1. {beating', watching', pending'} \subseteq BOOLEAN /\ entry' = "none"
    BY DEF Watch
  <2> QED  BY <1>3, <2>1 DEF LoopInv, TypeOK, FinType, Watch, external, stored
<1>6. RecordsGood'
  BY <1>1, <1>3 DEF LoopInv, RecordsGood
<1>7. NoJobNoWork' /\ ProcFirst' /\ AliveUnfinished' /\ DownIsQuiet'
  BY <1>1, <1>2 DEF LoopInv, NoJobNoWork, ProcFirst, AliveUnfinished, Unfinished, DownIsQuiet, TheJob,
     Watch, external
<1>8. WorkAfterExit' /\ Places'
  BY <1>1, <1>2, <1>3, <1>4, FinalizerNames DEF LoopInv, WorkAfterExit, Places
<1>9. Owners'
  BY <1>1, <1>2, <1>3, <1>4 DEF LoopInv, Owners, Launched, TheJob, Watch, external
<1>10. ExitClaims' /\ CleanExit' /\ CancelHolds'
  BY <1>1, <1>2, <1>4 DEF LoopInv, ExitClaims, CleanExit, CleanRun, CleanExitIsNoError, CancelHolds,
     TheJob, Watch, external
<1> QED
  BY <1>5, <1>6, <1>7, <1>8, <1>9, <1>10 DEF LoopInv

\* The jobs as a boot reconciles them.
LEMMA ReconcileGood ==
  ASSUME LoopInv
  PROVE  /\ GoodStore(Reconcile(jobs), World)
         /\ TheJob = NoJob => Reconcile(jobs) = jobs
         /\ TheJob # NoJob => GetByLoopId(Reconcile(jobs)) # NoJob
         /\ proc = "alive" => Reconcile(jobs) = jobs
<1>1. GoodStore(jobs, World)
  BY DEF LoopInv, RecordsGood
<1>2. CASE jobs.active = NoJob \/ proc = "alive"
  BY <1>1, <1>2 DEF Reconcile, TheJob
<1>3. CASE jobs.active # NoJob /\ proc # "alive"
  <2>1. TheJob = jobs.active /\ TheJob # NoJob /\ TheJob \in Job /\ Good(TheJob, World) /\ proc = "exited"
    BY <1>1, <1>3, NoProcNoJob, StoredJob DEF TheJob, GetByLoopId
  <2> DEFINE status == IF state \notin {"none", "RUNNING"} THEN state
                       ELSE IF TheJob.status = "CANCEL_PENDING" THEN "CANCELLED" ELSE "UNKNOWN"
             j == [TheJob EXCEPT !.status = status]
  <2>2. Reconcile(jobs) = Upsert(jobs, j)
    BY <1>3, <2>1 DEF Reconcile
  <2>3. /\ status \in {"AWAITING_USER", "COMPLETED", "FAILED", "CANCELLED", "STOPPED", "UNKNOWN"}
        /\ status = "AWAITING_USER" => state = "AWAITING_USER"
        /\ state = "AWAITING_USER" => status = "AWAITING_USER"
    BY StateAssumption DEF LoopInv, TypeOK
  <2>4. TheJob.status \notin Terminal
    BY <1>1, <2>1 DEF GoodStore
  <2> HIDE DEF status
  <2>5. /\ j \in Job /\ j.status = status /\ j.final = TheJob.final /\ j.exit = TheJob.exit
        /\ j.posted = TheJob.posted /\ j.persisted = TheJob.persisted /\ j.attempts = TheJob.attempts
    BY <2>1, <2>3 DEF Job, Status, Terminal
  <2> HIDE DEF j
  <2>6. Good(j, World)
    BY <2>1, <2>3, <2>4, <2>5 DEF Good, JobOrNone, World, Terminal
  <2> QED  BY <1>1, <1>3, <2>1, <2>2, <2>5, <2>6, UpsertGood
<1> QED  BY <1>2, <1>3

\* A boot reconciles the two lists, gives up a job without attempts left, or
\* takes one over.
LEMMA BootKeeps ==
  ASSUME LoopInv, Boot
  PROVE  LoopInv'
<1> DEFINE js == Reconcile(jobs)
           alive == js.active # NoJob /\ proc = "alive"
<1>1. /\ World' = World /\ Later(World, World') /\ Refused' = Refused
      /\ UNCHANGED <<proc, outcome, state, cloud, verdict, disk, entry, child, pending, beating, watching,
                     launch, kill, list, kills>>
  BY WorldSame DEF Boot, external, handles
<1>2. /\ phase = "down" /\ boots < MaxBoots /\ boots' = boots + 1
      /\ boots' \in 1..MaxBoots /\ boots' > 1 /\ boots' # 1
  BY BootsAssumption DEF Boot, LoopInv, DownIsQuiet, TypeOK
<1>3. /\ entry = "none" /\ ~child /\ ~beating /\ ~watching /\ launch = "none" /\ kill = Idle
      /\ list.pc = "idle" /\ \A f \in Finalizers : fin[f] = Idle
  BY <1>2 DEF LoopInv, DownIsQuiet
<1>4. /\ GoodStore(js, World) /\ (TheJob = NoJob => js = jobs)
      /\ (TheJob # NoJob => GetByLoopId(js) # NoJob) /\ (proc = "alive" => js = jobs)
  BY ReconcileGood
<1> HIDE DEF js
<1>5. CASE alive /\ token
  <2>1. phase' = "booting" /\ jobs' = js /\ token' = token /\ fin' = fin
    BY <1>5 DEF Boot, js
  <2>2. jobs' = jobs /\ TheJob # NoJob /\ Fresh(TheJob, World)
    BY <1>4, <1>5, <2>1 DEF LoopInv, AliveUnfinished, TheJob, GetByLoopId
  <2>3. TypeOK'
    BY <1>2, <2>1, <2>2 DEF LoopInv, TypeOK, Boot, external, handles
  <2>4. RecordsGood' /\ ProcFirst' /\ WorkAfterExit' /\ Places' /\ CancelHolds' /\ DownIsQuiet'
    BY <1>1, <2>1, <2>2 DEF LoopInv, RecordsGood, ProcFirst, WorkAfterExit, Places, CancelHolds, DownIsQuiet, TheJob
  <2>5. NoJobNoWork' /\ AliveUnfinished' /\ Owners'
    BY <1>1, <1>2, <1>3, <1>5, <2>1, <2>2, FinalizerNames, IdleType DEF LoopInv, NoJobNoWork, AliveUnfinished, Unfinished,
       Owners, Launched, TheJob
  <2>6. ExitClaims' /\ CleanExit'
    BY <1>1, <1>2, <2>1 DEF LoopInv, ExitClaims, CleanExit, CleanRun, CleanExitIsNoError
  <2> QED  BY <2>3, <2>4, <2>5, <2>6 DEF LoopInv
<1>6. CASE ~(alive /\ token)
  <2>1. phase' = "serving" /\ BeginDead(js, js.terminal # jobs.terminal)
    BY <1>6 DEF Boot, js
  \* Either nothing begins, or a last record is made, or a finalizer starts.
  <2>2. \/ jobs' = js /\ fin' = fin /\ token' = token
        \/ /\ js.terminal # NoJob /\ ~js.terminal.final
           /\ GetByLoopId(js).attempts >= MaxRecoveryAttempts
           /\ jobs' = Upsert(js, [GetByLoopId(js) EXCEPT !.final = TRUE]) /\ fin' = fin /\ token' = FALSE
        \/ /\ js.terminal # NoJob /\ ~js.terminal.final
           /\ ~(GetByLoopId(js).attempts >= MaxRecoveryAttempts)
           /\ jobs' = js /\ token' = token
           /\ fin' = [fin EXCEPT !["dead"] = [pc |-> "reconciling", job |-> GetByLoopId(js)]]
    BY <2>1 DEF BeginDead, GiveUp
  <2>3. js.terminal # NoJob /\ ~js.terminal.final => proc = "exited"
    <3>1. ASSUME js.terminal # NoJob, ~js.terminal.final  PROVE proc # "alive" /\ proc # "none"
      BY <1>4, <3>1 DEF LoopInv, AliveUnfinished, Unfinished, ProcFirst, TheJob, GetByLoopId
    <3> QED  BY <3>1 DEF LoopInv, TypeOK
  <2>4. js.terminal # NoJob => GetByLoopId(js) # NoJob /\ GetByLoopId(js) \in Job /\ Good(GetByLoopId(js), World)
    BY <1>4, StoredJob DEF GetByLoopId
  <2>5. ASSUME js.terminal # NoJob, GetByLoopId(js).attempts >= MaxRecoveryAttempts
        PROVE  /\ [GetByLoopId(js) EXCEPT !.final = TRUE] \in Job
               /\ Good([GetByLoopId(js) EXCEPT !.final = TRUE], World)
    <3> DEFINE i == GetByLoopId(js)
               j == [i EXCEPT !.final = TRUE]
    <3>1. i \in Job /\ Good(i, World) /\ i.attempts \in 0..MaxRecoveryAttempts
      BY <2>4, <2>5 DEF Job
    <3>2. i.attempts = MaxRecoveryAttempts
      BY <2>5, <3>1, RecoveryAssumption
    <3> HIDE DEF i
    <3>3. /\ j \in Job /\ j.final /\ j.attempts = i.attempts /\ j.status = i.status /\ j.exit = i.exit
          /\ j.posted = i.posted /\ j.persisted = i.persisted
      BY <3>1 DEF Job
    <3>4. Good(j, World)
      BY <3>1, <3>2, <3>3 DEF Good, JobOrNone
    <3> QED  BY <3>3, <3>4 DEF i
  <2>6. /\ GoodStore(jobs', World')
        /\ TheJob # NoJob => TheJob' # NoJob
        /\ TheJob = NoJob => jobs' = jobs
        /\ proc = "alive" => jobs' = jobs /\ fin' = fin
    <3>1. TheJob = NoJob => js = jobs /\ js.terminal = NoJob
      BY <1>4 DEF TheJob, GetByLoopId
    <3>2. CASE jobs' = js
      BY <1>1, <1>4, <2>2, <2>3, <3>1, <3>2 DEF TheJob
    <3>3. CASE jobs' = Upsert(js, [GetByLoopId(js) EXCEPT !.final = TRUE]) /\ jobs' # js
      BY <1>1, <1>4, <2>2, <2>3, <2>5, <3>1, <3>3, UpsertGood DEF TheJob
    <3> QED  BY <2>2, <3>2, <3>3
  <2>7. /\ fin' \in FinType /\ \A g \in Finalizers : g # "dead" => fin'[g] = fin[g]
        /\ \/ fin'["dead"] = Idle
           \/ /\ fin'["dead"].pc = "reconciling" /\ proc = "exited" /\ TheJob # NoJob
              /\ fin'["dead"].job \in Job /\ fin'["dead"].job.attempts < MaxRecoveryAttempts
              /\ Good(fin'["dead"].job, World')
    <3>1. CASE fin' = fin
      BY <1>3, <3>1, FinalizerNames DEF LoopInv, TypeOK, FinType
    <3>2. CASE fin' # fin
      <4> DEFINE r == [pc |-> "reconciling", job |-> GetByLoopId(js)]
      <4>1. /\ fin' = [fin EXCEPT !["dead"] = r] /\ js.terminal # NoJob /\ proc = "exited"
            /\ ~(GetByLoopId(js).attempts >= MaxRecoveryAttempts)
        BY <2>2, <2>3, <3>2
      <4>2. r \in [pc : Pcs, job : JobOrNone] /\ r.pc = "reconciling" /\ r.job = GetByLoopId(js)
        BY <2>4, <4>1 DEF Pcs, JobOrNone
      <4>3. GetByLoopId(js).attempts < MaxRecoveryAttempts
        BY <2>4, <4>1, RecoveryAssumption DEF Job
      <4>4. TheJob # NoJob
        BY <1>4, <4>1 DEF TheJob, GetByLoopId
      <4> HIDE DEF r
      <4> QED  BY <1>1, <2>4, <4>1, <4>2, <4>3, <4>4, FinStep, FinalizerNames DEF LoopInv, TypeOK, FinType
    <3> QED  BY <3>1, <3>2
  <2>8. fin'["exit"] = Idle /\ fin'["watch"] = Idle /\ \A b \in Beats : fin'[b] = Idle
    BY <1>3, <2>7, FinalizerNames
  <2>9. TypeOK'
    <3>1. token' \in BOOLEAN /\ jobs' \in [active : JobOrNone, terminal : JobOrNone]
      BY <2>2, <2>6 DEF LoopInv, TypeOK, GoodStore
    <3> QED  BY <1>2, <2>1, <2>7, <3>1 DEF LoopInv, TypeOK, FinType, Boot, external, handles
  <2>10. RecordsGood'
    <3>1. \A f \in Finalizers : Good(fin'[f].job, World')
      BY <1>3, <2>7, IdleType, NoJobType
    <3> QED  BY <1>1, <2>6, <3>1 DEF LoopInv, RecordsGood
  <2>11. NoJobNoWork' /\ DownIsQuiet'
    <3>1. TheJob = NoJob => \A f \in Finalizers : fin'[f] = Idle
      BY <1>3, <2>7
    <3> QED  BY <1>1, <1>3, <2>1, <2>6, <3>1 DEF NoJobNoWork, DownIsQuiet
  <2>12. ProcFirst' /\ AliveUnfinished'
    BY <1>1, <1>2, <2>6, NoProcNoJob DEF LoopInv, ProcFirst, AliveUnfinished, Unfinished
  <2>13. WorkAfterExit' /\ Places'
    BY <1>1, <1>3, <2>7, <2>8, IdleType, FinalizerNames DEF LoopInv, WorkAfterExit, Places
  <2>14. Owners'
    BY <1>1, <1>2, <1>3, <2>1, <2>8, IdleType DEF Owners, Launched
  <2>15. ExitClaims' /\ CleanExit' /\ CancelHolds'
    BY <1>1, <1>2, <1>3, <2>8, IdleType DEF LoopInv, ExitClaims, CleanExit, CleanRun, CleanExitIsNoError, CancelHolds
  <2> QED  BY <2>9, <2>10, <2>11, <2>12, <2>13, <2>14, <2>15 DEF LoopInv
<1> QED  BY <1>5, <1>6

-----------------------------------------------------------------------------
(* The beginning of a finalization.                                        *)

\* The status that is finalized, of a process that exited.
LEMMA ResolveGood ==
  ASSUME LoopInv, proc = "exited", NEW j \in Job, Good(j, World), NEW live \in BOOLEAN
  PROVE  /\ Resolve(j, live) \in Job /\ Good(Resolve(j, live), World)
         /\ Resolve(j, live).status # "CANCEL_PENDING"
         /\ Resolve(j, live).persisted = j.persisted /\ Resolve(j, live).exit = j.exit
         /\ j.status \notin {"RUNNING", "COMPLETED"}
              => Resolve(j, live).status \notin {"RUNNING", "COMPLETED"}
         /\ j.status \in {"CANCELLED", "AWAITING_USER"} => Resolve(j, live).status = j.status
         /\ live /\ j.status # "CANCEL_PENDING" /\ outcome # "idle"
              => Resolve(j, live).status = j.status
<1> DEFINE confirmed == IF j.status = "CANCEL_PENDING" THEN "CANCELLED" ELSE j.status
           derived == IF confirmed = "RUNNING" /\ ~live
                      THEN IF state \in Terminal THEN state ELSE "FAILED"
                      ELSE confirmed
           status == IF derived \in {"COMPLETED", "RUNNING"} /\ outcome = "idle"
                     THEN "FAILED" ELSE derived
           r == [j EXCEPT !.status = status]
<1>1. Resolve(j, live) = r
  BY DEF Resolve
<1>2. j.status \in Status
  BY DEF Job
<1>3. state \in {"none", "RUNNING", "AWAITING_USER", "COMPLETED", "FAILED", "CANCELLED", "STOPPED"}
  BY StateAssumption DEF LoopInv, TypeOK
<1>4. /\ status \in Status /\ status # "CANCEL_PENDING"
      /\ status \in {"TIMED_OUT", "RUNNING"} => status = j.status
      /\ status = "AWAITING_USER" => j.status = "AWAITING_USER"
      /\ j.status \notin {"RUNNING", "COMPLETED"} => status \notin {"RUNNING", "COMPLETED"}
      /\ j.status \in {"CANCELLED", "AWAITING_USER"} => status = j.status
      /\ live /\ j.status # "CANCEL_PENDING" /\ outcome # "idle" => status = j.status
  BY <1>2, <1>3 DEF Status, Terminal
<1> HIDE DEF status
<1>5. /\ r \in Job /\ r.status = status /\ r.posted = j.posted /\ r.persisted = j.persisted
      /\ r.final = j.final /\ r.exit = j.exit /\ r.attempts = j.attempts
  BY <1>4 DEF Job
<1> HIDE DEF r
<1>6. Good(r, World)
  BY <1>4, <1>5 DEF Good, JobOrNone
<1> QED  BY <1>1, <1>4, <1>5, <1>6

\* A dead process's state.json decides for a job that is still running only.
LEMMA ResolvedFrom ==
  ASSUME NEW j \in Job, NEW live,
         Resolve(j, live).status \in {"CANCELLED", "AWAITING_USER", "TIMED_OUT"}
  PROVE  \/ j.status \in {"RUNNING", "CANCEL_PENDING"}
         \/ j.status = Resolve(j, live).status
<1> DEFINE confirmed == IF j.status = "CANCEL_PENDING" THEN "CANCELLED" ELSE j.status
           derived == IF confirmed = "RUNNING" /\ ~live
                      THEN IF state \in Terminal THEN state ELSE "FAILED"
                      ELSE confirmed
           status == IF derived \in {"COMPLETED", "RUNNING"} /\ outcome = "idle"
                     THEN "FAILED" ELSE derived
<1>1. Resolve(j, live).status = status
  BY DEF Resolve, Job
<1> QED  BY <1>1

\* The record that the loop has ended.
LEMMA PersistFinalGood ==
  ASSUME NEW w, NEW js, GoodStore(js, w), GetByLoopId(js) \in Job,
         NEW j \in Job, Good(j, w), NEW success \in BOOLEAN,
         j.status = "CANCEL_PENDING" => w.refused \/ success,
         j.status = "RUNNING" => success,
         GetByLoopId(js).final =>
           \/ w.refused
           \/ GetByLoopId(js).attempts = MaxRecoveryAttempts
           \/ j.persisted
           \/ w.exited /\ ~success /\ j.status \in {"CANCELLED", "AWAITING_USER"}
  PROVE  \E k \in Job :
           /\ GoodStore(PersistFinal(js, j, success), w)
           /\ GetByLoopId(PersistFinal(js, j, success)) = k /\ k # NoJob /\ Good(k, w)
           /\ k.final = GetByLoopId(js).final /\ k.posted = GetByLoopId(js).posted
           /\ k.attempts = GetByLoopId(js).attempts /\ k.error = GetByLoopId(js).error
           /\ GetByLoopId(js).exit => k.exit
           /\ \/ j.persisted /\ k = GetByLoopId(js)
              \/ /\ ~j.persisted /\ k.exit /\ k.persisted
                 /\ k.status = IF success THEN "COMPLETED" ELSE j.status
<1> DEFINE i == GetByLoopId(js)
           k == [i EXCEPT !.status = IF success THEN "COMPLETED" ELSE j.status,
                          !.exit = TRUE, !.persisted = TRUE]
<1>1. i # NoJob /\ Good(i, w)
  BY NoJobType, StoredJob
<1>2. CASE j.persisted
  BY <1>1, <1>2 DEF PersistFinal
<1>3. CASE ~j.persisted
  <2>1. PersistFinal(js, j, success) = Upsert(js, k)
    BY <1>1, <1>3, CurrentIsStored DEF PersistFinal
  <2> DEFINE status == IF success THEN "COMPLETED" ELSE j.status
  <2>2. status \in Status
    BY DEF Job, Status, Terminal
  <2>3. /\ status = "COMPLETED" \/ (~success /\ status = j.status)
        /\ success => status = "COMPLETED"
        /\ ~success => status = j.status
    OBVIOUS
  <2> HIDE DEF status
  <2>4. /\ k \in Job /\ k.status = status /\ k.exit /\ k.persisted /\ k.final = i.final
        /\ k.posted = i.posted /\ k.attempts = i.attempts /\ k.error = i.error
    BY <2>2 DEF Job, status
  <2> HIDE DEF k, i
  <2>5. Good(k, w)
    BY <1>1, <1>3, <2>3, <2>4 DEF Good, JobOrNone, i
  <2> QED  BY <1>3, <2>1, <2>3, <2>4, <2>5, UpsertGood DEF i, status
<1> QED  BY <1>2, <1>3

\* What was recorded of the cloud's answer.
LEMMA RecordedGood ==
  ASSUME NEW w, NEW js, GoodStore(js, w), GetByLoopId(js) \in Job, NEW j,
         NEW error \in Errors,
         error = "none" =>
           \/ w.refused
           \/ GetByLoopId(js).attempts = MaxRecoveryAttempts
           \/ /\ w.exited /\ GetByLoopId(js).exit
              /\ GetByLoopId(js).status \in {"CANCELLED", "AWAITING_USER"}
  PROVE  \E k \in Job :
           /\ GoodStore(Recorded(js, j, error), w)
           /\ GetByLoopId(Recorded(js, j, error)) = k /\ k # NoJob /\ Good(k, w)
           /\ k.status = GetByLoopId(js).status /\ k.exit = GetByLoopId(js).exit
           /\ k.persisted = GetByLoopId(js).persisted /\ k.posted = GetByLoopId(js).posted
           /\ k.attempts = GetByLoopId(js).attempts
           /\ k.final => GetByLoopId(js).final \/ error = "none"
           /\ k.error = error /\ (error = "none" => k.final)
<1> DEFINE i == GetByLoopId(js)
           k == [i EXCEPT !.final = @ \/ error = "none", !.error = error]
           final == i.final \/ error = "none"
<1>1. i # NoJob /\ Good(i, w)
  BY NoJobType, StoredJob
<1>2. Recorded(js, j, error) = Upsert(js, k)
  BY <1>1, CurrentIsStored DEF Recorded
<1>3. /\ k \in Job /\ k.status = i.status /\ k.exit = i.exit /\ k.persisted = i.persisted
      /\ k.posted = i.posted /\ k.attempts = i.attempts /\ k.final = final /\ k.error = error
  BY DEF Job
<1> HIDE DEF k
<1>4. Good(k, w)
  BY <1>1, <1>3 DEF Good, JobOrNone
<1> QED  BY <1>2, <1>3, <1>4, UpsertGood

(***************************************************************************)
(* Up to its first await a finalization leaves good records behind: it     *)
(* marks as final only what the cloud refuses or what has no final event,  *)
(* and goes on with a job, to git or to the event that the status calls    *)
(* for.                                                                    *)
(***************************************************************************)
Begun(f, j, i, r) ==
  /\ fin' = [fin EXCEPT ![f] = r]
  /\ GoodStore(jobs', World) /\ Good(r.job, World)
  /\ TheJob' \in Job /\ TheJob' # NoJob /\ (i.exit => TheJob'.exit)
  /\ r.pc # "idle" => r.job \in Job
  /\ r.pc = "error" /\ f = "exit" => r.job.status \in {"FAILED", "STOPPED", "UNKNOWN"}
  /\ r.pc # "idle" /\ f = "exit" => TheJob' = i
  /\ {j.status, i.status} \cap {"RUNNING", "COMPLETED"} = {} =>
       /\ TheJob'.status \notin {"RUNNING", "COMPLETED"}
       /\ r.pc \notin {"pushing", "completed"}
  /\ f = "exit" /\ outcome # "idle" /\ j.status \notin {"FAILED", "STOPPED", "UNKNOWN"}
       => r.pc # "error"

\* The token goes where nothing is left to be reported, or nothing that would
\* be reported again.
TokenKept ==
  token /\ ~token' => \/ TheJob'.final \/ Refused'
                      \/ TheJob'.status = "CANCELLED"
                      \/ TheJob'.error = "fatal"

\* finalizeLoop up to its first await, for each of its callers.
LEMMA BeginFinalizeGood ==
  ASSUME LoopInv, proc = "exited", NEW f \in Finalizers, NEW j \in Job, Good(j, World),
         NEW js, GoodStore(js, World), GetByLoopId(js) \in Job,
         GetByLoopId(js).persisted = j.persisted, GetByLoopId(js).exit = j.exit,
         GetByLoopId(js).status = j.status \/ Refused,
         NEW kept \in BOOLEAN,
         f = "exit" => GetByLoopId(js) = j /\ j.exit /\ j.status \notin {"CANCEL_PENDING", "CANCELLED"},
         BeginFinalize(f, j, js, kept)
  PROVE  /\ {token', beating'} \subseteq BOOLEAN
         /\ kept /\ ~token' => TheJob'.final
         /\ \E r \in [pc : {"idle", "pushing", "completed", "error"}, job : JobOrNone] :
              Begun(f, j, GetByLoopId(js), r)
<1> DEFINE i         == GetByLoopId(js)
           live      == f = "exit"
           resolved  == Resolve(j, live)
           success   == Success(resolved)
           persisted == IF live THEN js ELSE PersistFinal(js, resolved, success)
           latest    == IF live THEN resolved ELSE Current(persisted, resolved)
           event     == IF success THEN "completed" ELSE "error"
           next      == IF event = "completed" /\ ~latest.pushed THEN "pushing" ELSE event
           recorded  == Recorded(persisted, latest, "none")
<1>1. /\ resolved \in Job /\ Good(resolved, World)
      /\ resolved.status # "CANCEL_PENDING"
      /\ resolved.persisted = j.persisted /\ resolved.exit = j.exit
      /\ j.status \notin {"RUNNING", "COMPLETED"} => resolved.status \notin {"RUNNING", "COMPLETED"}
      /\ j.status \in {"CANCELLED", "AWAITING_USER"} => resolved.status = j.status
      /\ live /\ outcome # "idle" => resolved.status = j.status
  <2>1. live \in BOOLEAN
    OBVIOUS
  <2> HIDE DEF live
  <2>2. live => j.status # "CANCEL_PENDING"
    BY DEF live
  <2> QED  BY <2>1, <2>2, ResolveGood
<1>2. success <=> resolved.status \in {"COMPLETED", "RUNNING"}
  BY DEF Success
<1>3. i # NoJob /\ Good(i, World) /\ World.refused = Refused /\ World.exited
  BY StoredJob, NoJobType DEF World
<1> HIDE DEF resolved, success
<1>4. /\ GoodStore(persisted, World)
      /\ \E k \in Job :
           /\ k = GetByLoopId(persisted) /\ k # NoJob /\ Good(k, World) /\ (i.exit => k.exit)
           /\ live => k = i
           /\ ~live => \/ j.persisted /\ k = i
                       \/ ~j.persisted /\ k.exit /\ k.status = IF success THEN "COMPLETED" ELSE resolved.status
  <2>1. CASE live
    BY <1>3, <2>1
  <2>2. CASE ~live
    <3>1. persisted = PersistFinal(js, resolved, success)
      BY <2>2
    <3>2. i.final => \/ Refused
                     \/ i.attempts = MaxRecoveryAttempts
                     \/ ~success /\ resolved.status \in {"CANCELLED", "AWAITING_USER"}
      BY <1>1, <1>2, <1>3 DEF Good
    <3>3. success \in BOOLEAN /\ (resolved.status = "RUNNING" => success)
      BY <1>2 DEF success, Success
    <3> HIDE DEF persisted, live
    <3> QED  BY <1>1, <1>3, <2>2, <3>1, <3>2, <3>3, PersistFinalGood
  <2> QED  BY <2>1, <2>2
<1> DEFINE k == GetByLoopId(persisted)
<1>5. /\ k \in Job /\ k # NoJob /\ Good(k, World) /\ (i.exit => k.exit)
      /\ live => k = i
      /\ ~live => \/ j.persisted /\ k = i
                  \/ ~j.persisted /\ k.exit /\ k.status = IF success THEN "COMPLETED" ELSE resolved.status
  BY <1>4
<1>6. /\ live => latest = resolved
      /\ ~live => latest = k
  BY <1>5, CurrentIsStored
<1>7. latest \in Job /\ latest \in JobOrNone /\ Good(latest, World)
  BY <1>1, <1>5, <1>6 DEF JobOrNone
<1>8. {j.status, i.status} \cap {"RUNNING", "COMPLETED"} = {} =>
        /\ ~success /\ resolved.status \notin {"RUNNING", "COMPLETED"}
        /\ k.status \notin {"RUNNING", "COMPLETED"}
  BY <1>1, <1>2, <1>5
<1>9. CASE HasEvent(resolved)
  <2> DEFINE r == [pc |-> next, job |-> latest]
  <2>1. /\ jobs' = persisted /\ fin' = [fin EXCEPT ![f] = r] /\ token' = kept /\ beating' = beating
    BY <1>9 DEF BeginFinalize, resolved, success
  <2>2. next \in {"pushing", "completed", "error"} /\ (~success <=> next = "error")
    OBVIOUS
  <2>3. /\ r \in [pc : {"idle", "pushing", "completed", "error"}, job : JobOrNone]
        /\ r.pc = next /\ r.job = latest
    BY <1>7, <2>2
  <2>4. TheJob' = k
    BY <2>1 DEF TheJob
  <2>5. next = "error" => resolved.status \in {"FAILED", "STOPPED", "UNKNOWN"}
    BY <1>2, <1>9, <2>2 DEF HasEvent, Success
  <2>6. {token', beating'} \subseteq BOOLEAN
    BY <2>1 DEF LoopInv, TypeOK
  <2> HIDE DEF r, next, latest, k
  <2>7. Begun(f, j, i, r)
    BY <1>1, <1>2, <1>4, <1>5, <1>6, <1>7, <1>8, <2>1, <2>2, <2>3, <2>4, <2>5 DEF Begun
  <2> QED  BY <2>1, <2>3, <2>6, <2>7
<1>10. CASE ~HasEvent(resolved)
  <2>1. /\ jobs' = (IF live THEN PersistFinal(recorded, latest, FALSE) ELSE recorded)
        /\ fin' = [fin EXCEPT ![f] = Idle] /\ token' = FALSE /\ beating' = FALSE
    BY <1>10 DEF BeginFinalize, resolved, success, Release
  <2>2. resolved.status \in {"CANCELLED", "AWAITING_USER", "TIMED_OUT"} /\ ~success
    BY <1>1, <1>2, <1>10 DEF HasEvent, Success, Job, Status, Terminal
  <2>3. resolved.status = "TIMED_OUT" => Refused
    BY <1>1, <1>3 DEF Good
  <2>4. live => k = i /\ k = j /\ (resolved.status \in {"CANCELLED", "AWAITING_USER"}
                                      => resolved.status = k.status \/ outcome = "idle")
    BY <1>1, <1>5
  \* What is recorded without an event.
  <2>5. \/ Refused
        \/ k.exit /\ k.status \in {"CANCELLED", "AWAITING_USER"}
    <3>1. CASE live
      BY <1>1, <1>3, <1>5, <2>2, <2>3, <3>1 DEF Resolve, resolved, Job
    <3>2. CASE ~live /\ ~j.persisted
      BY <1>5, <2>2, <2>3, <3>2
    <3>3. CASE ~live /\ j.persisted
      <4>1. j.status \in {"CANCEL_PENDING", "CANCELLED", "AWAITING_USER"} \/ Refused
        BY <2>2, <2>3, <3>3, ResolvedFrom DEF Good, resolved
      <4> QED  BY <1>3, <1>5, <3>3, <4>1 DEF Good
    <3> QED  BY <3>1, <3>2, <3>3
  <2>6. "none" \in Errors
    BY DEF Errors
  <2> HIDE DEF latest, persisted
  <2>7. PICK m \in Job :
           /\ GoodStore(recorded, World)
           /\ GetByLoopId(recorded) = m /\ m # NoJob /\ Good(m, World)
           /\ m.status = k.status /\ m.exit = k.exit /\ m.final
    BY <1>3, <1>4, <1>5, <2>5, <2>6, RecordedGood
  <2>8. /\ GoodStore(jobs', World) /\ TheJob' \in Job /\ TheJob' # NoJob
        /\ i.exit => TheJob'.exit
        /\ TheJob'.status \in {k.status, resolved.status} /\ TheJob'.final
    <3>1. CASE ~live
      BY <1>5, <2>1, <2>7, <3>1 DEF TheJob
    <3>2. CASE live
      <4>1. latest = resolved /\ jobs' = PersistFinal(recorded, latest, FALSE)
        BY <1>6, <2>1, <3>2
      <4>2. m.final =>
              \/ World.refused \/ m.attempts = MaxRecoveryAttempts \/ latest.persisted
              \/ World.exited /\ ~FALSE /\ latest.status \in {"CANCELLED", "AWAITING_USER"}
        BY <1>3, <2>2, <2>3, <4>1
      <4>3. latest.status # "CANCEL_PENDING" /\ latest.status # "RUNNING"
        BY <1>1, <2>2, <4>1
      <4> HIDE DEF recorded
      <4>4. GetByLoopId(recorded) = m /\ GetByLoopId(recorded) \in Job /\ FALSE \in BOOLEAN
        BY <2>7
      <4>5. GetByLoopId(recorded).final =>
              \/ World.refused
              \/ GetByLoopId(recorded).attempts = MaxRecoveryAttempts
              \/ latest.persisted
              \/ World.exited /\ ~FALSE /\ latest.status \in {"CANCELLED", "AWAITING_USER"}
        BY <4>2, <4>4
      <4>6. \E n \in Job :
             /\ GoodStore(PersistFinal(recorded, latest, FALSE), World)
             /\ GetByLoopId(PersistFinal(recorded, latest, FALSE)) = n /\ n # NoJob
             /\ GetByLoopId(recorded).exit => n.exit
             /\ n.final = GetByLoopId(recorded).final
             /\ n = GetByLoopId(recorded) \/ n.status = latest.status
        <5> DEFINE no == FALSE
        <5>1. no \in BOOLEAN /\ ~no
          OBVIOUS
        <5> HIDE DEF no
        <5>2. \E n \in Job :
                /\ GoodStore(PersistFinal(recorded, latest, no), World)
                /\ GetByLoopId(PersistFinal(recorded, latest, no)) = n /\ n # NoJob
                /\ GetByLoopId(recorded).exit => n.exit
                /\ n.final = GetByLoopId(recorded).final
                /\ n = GetByLoopId(recorded) \/ n.status = latest.status
          BY <1>7, <2>7, <4>3, <4>4, <4>5, <5>1, PersistFinalGood
        <5> QED  BY <5>2 DEF no
      <4> QED  BY <1>5, <1>6, <2>7, <3>2, <4>1, <4>4, <4>6 DEF TheJob
    <3> QED  BY <3>1, <3>2
  <2>9. {token', beating'} \subseteq BOOLEAN
    BY <2>1
  <2>10. Idle \in [pc : {"idle", "pushing", "completed", "error"}, job : JobOrNone]
    BY NoJobType DEF Idle
  <2> HIDE DEF k, recorded
  <2>11. Begun(f, j, i, Idle)
    BY <1>8, <2>1, <2>2, <2>8, IdleType, NoJobType DEF Begun
  <2> QED  BY <2>8, <2>9, <2>10, <2>11
<1> QED  BY <1>9, <1>10

\* Where a finalization begins, a finalizer has done its step.
LEMMA BegunRecords ==
  ASSUME LoopInv, NEW f \in Finalizers, fin[f].pc \notin {"idle", "reattaching"}, proc = "exited",
         NEW j \in Job, NEW i \in Job, f # "dead" /\ TheJob.exit => i.exit,
         NEW r \in [pc : {"idle", "pushing", "completed", "error"}, job : JobOrNone],
         Begun(f, j, i, r), UNCHANGED external, Elsewhere,
         {token', beating', muted'} \subseteq BOOLEAN, entry' \in {entry, "none"},
         f = "exit" => entry' = "none" /\ Fresh(i, World),
         f # "exit" => Refused \/ ~(Launched \/ entry \in {"spawned", "recovered"} \/ phase = "booting")
  PROVE  Recorder(f, r)
<1>1. World' = World /\ Later(World, World') /\ Refused' = Refused /\ verdict' = verdict
  BY WorldSame DEF external
<1>2. r \in [pc : Pcs, job : JobOrNone] /\ verdict \in {"none", "completed", "error", "cancelled"}
  BY DEF Pcs, LoopInv, TypeOK
<1>3. /\ fin'[f] = r
      /\ \A g \in Finalizers : g # f => fin'[g] = fin[g]
  BY <1>2, FinStep DEF Begun, LoopInv, TypeOK, FinType
<1>4. (Launched' \/ entry' \in {"spawned", "recovered"} \/ phase = "booting") => Fresh(TheJob', World')
  <2>1. CASE Refused
    BY <1>1, <2>1 DEF Fresh, World
  <2>2. CASE f # "exit" /\ ~Refused
    BY <1>3, <2>2, FinalizerNames DEF Launched, Elsewhere
  <2>3. CASE f = "exit"
    <3>1. ~child /\ phase # "booting"
      BY <2>3, ExitFinds
    <3>2. Launched' => r.pc # "idle"
      BY <1>3, <2>3, <3>1 DEF Launched, Elsewhere
    <3> QED  BY <1>1, <2>3, <3>1, <3>2 DEF Begun
  <2> QED  BY <2>1, <2>2, <2>3
<1> QED  BY <1>1, <1>2, <1>4 DEF Recorder, Begun

LEMMA ExitGitKeeps ==
  ASSUME LoopInv, ExitGit
  PROVE  LoopInv' /\ TokenKept
<1>1. /\ World' = World /\ Later(World, World') /\ Refused' = Refused /\ Elsewhere
      /\ UNCHANGED <<verdict, muted, external>> /\ fin["exit"].pc = "git"
  BY WorldSame DEF ExitGit, Elsewhere, external
<1>2. PICK pushed \in BOOLEAN : ExitPushed(pushed)
  BY DEF ExitGit
<1>3. CASE IsCancelled
  <2>1. ExitCancelled
    BY <1>2, <1>3 DEF ExitPushed
  <2> QED  BY <1>1, <2>1, ExitCancelledRecords, FinalizerStep, FinalizerNames DEF TokenKept
<1>4. CASE ~IsCancelled
  <2> DEFINE j  == [TheJob EXCEPT !.pushed = @ \/ pushed]
             js == Upsert(jobs, j)
  <2>1. entry' = "none" /\ BeginFinalize("exit", GetByLoopId(js), js, token)
    BY <1>2, <1>4 DEF ExitPushed, TheJob
  <2>2. /\ j \in Job /\ j.exit = TheJob.exit /\ j.status = TheJob.status /\ j.final = TheJob.final
        /\ j.posted = TheJob.posted /\ j.persisted = TheJob.persisted /\ j.attempts = TheJob.attempts
    BY <1>1, ExitFinds DEF Job
  <2>3. /\ Good(TheJob, World) /\ Fresh(TheJob, World) /\ TheJob.exit /\ proc = "exited" /\ ~child
        /\ GoodStore(jobs, World) /\ token \in BOOLEAN /\ muted' \in BOOLEAN /\ "exit" \in Finalizers
        /\ TheJob.status \notin {"CANCEL_PENDING", "CANCELLED"}
    BY <1>1, <1>4, ExitFinds DEF LoopInv, RecordsGood, IsCancelled, TheJob
  <2> HIDE DEF j
  <2>4. Good(j, World) /\ Fresh(j, World)
    BY <2>2, <2>3 DEF Good, Fresh, JobOrNone
  <2>5. GoodStore(js, World) /\ GetByLoopId(js) = j
    BY <2>2, <2>3, <2>4, UpsertGood
  <2> HIDE DEF js
  <2> DEFINE kept == token
  <2>61. BeginFinalize("exit", j, js, kept) /\ kept \in BOOLEAN
    BY <2>1, <2>3, <2>5
  <2> HIDE DEF kept
  <2>62. /\ {token', beating'} \subseteq BOOLEAN /\ (kept /\ ~token' => TheJob'.final)
         /\ \E r \in [pc : {"idle", "pushing", "completed", "error"}, job : JobOrNone] :
              Begun("exit", j, j, r)
    BY <2>2, <2>3, <2>4, <2>5, <2>61, BeginFinalizeGood
  <2>6. PICK r \in [pc : {"idle", "pushing", "completed", "error"}, job : JobOrNone] :
           Begun("exit", j, j, r)
    BY <2>62
  <2>7. Recorder("exit", r)
    BY <1>1, <2>62, <2>1, <2>2, <2>3, <2>4, <2>6, BegunRecords
  <2>8. Honest("exit", r)
    <3>1. fin'["exit"].pc = r.pc
      BY <2>3, <2>6, FinStep DEF Begun, LoopInv, TypeOK, FinType, Pcs
    <3>2. kill.pc = "entry" /\ state # "COMPLETED" => TheJob.status \notin {"RUNNING", "COMPLETED"}
      BY DEF LoopInv, CancelHolds
    <3>3. CleanRun => verdict # "error"
      BY DEF LoopInv, CleanExit, CleanExitIsNoError, CleanRun
    <3>4. CleanRun /\ verdict = "none" => r.pc # "error"
      BY <1>1, <2>2, <2>6 DEF LoopInv, CleanExit, CleanRun, Begun
    <3> QED  BY <1>1, <2>2, <2>3, <2>6, <3>1, <3>2, <3>3, <3>4 DEF Honest, Begun, Elsewhere
  <2> QED  BY <2>62, <2>7, <2>8, FinalizerStep, FinalizerNames DEF TokenKept, kept
<1> QED  BY <1>3, <1>4

LEMMA HeartbeatTerminalKeeps ==
  ASSUME LoopInv, NEW b \in Beats, HeartbeatTerminal(b)
  PROVE  LoopInv' /\ TokenKept
<1>1. /\ Awake /\ fin[b].pc = "waiting" /\ Refused /\ muted' \in BOOLEAN /\ HeartbeatFinalize(b)
      /\ UNCHANGED external /\ Elsewhere /\ entry' = entry
      /\ UNCHANGED <<phase, boots, kills, disk, torn, entry, child, pending, watching, launch, kill, list>>
  <2>1. muted' \in BOOLEAN
    BY DEF HeartbeatTerminal, LoopInv, TypeOK
  <2> QED  BY <2>1 DEF HeartbeatTerminal, Elsewhere, external
<1>2. b \in Finalizers /\ b # "exit" /\ b # "dead" /\ TheJob # NoJob /\ token \in BOOLEAN
      /\ World' = World /\ verdict' = verdict /\ GoodStore(jobs, World)
  BY <1>1, FinalizerNames, IdleType, WorldSame DEF LoopInv, NoJobNoWork, TypeOK, RecordsGood, external
<1>3. CASE proc = "alive"
  <2>1. fin' = [fin EXCEPT ![b] = Idle] /\ UNCHANGED <<jobs, token, beating>>
    BY <1>1, <1>2, <1>3 DEF HeartbeatFinalize, TheJob
  <2> QED  BY <1>1, <1>2, <2>1, BeatEnds DEF TokenKept
<1>4. CASE proc # "alive"
  <2> DEFINE j == [TheJob EXCEPT !.status = "UNKNOWN"]
             js == Upsert(jobs, j)
             kept == token
  <2>1. BeginFinalize(b, GetByLoopId(js), js, kept)
    BY <1>1, <1>2, <1>4 DEF HeartbeatFinalize, TheJob
  <2>2. TheJob \in Job /\ Good(TheJob, World) /\ proc = "exited"
    BY <1>2, <1>4, NoProcNoJob, StoredJob DEF TheJob
  <2>3. kept \in BOOLEAN
    BY <1>2
  <2>4. /\ j \in Job /\ j.exit = TheJob.exit /\ j.status = "UNKNOWN" /\ j.final = TheJob.final
        /\ j.posted = TheJob.posted /\ j.persisted = TheJob.persisted
    BY <2>2 DEF Job, Status, Terminal
  <2> HIDE DEF j, kept
  <2>5. Good(j, World)
    BY <1>1, <2>2, <2>4 DEF Good, JobOrNone, World
  <2>6. GoodStore(js, World) /\ GetByLoopId(js) = j
    BY <1>2, <2>4, <2>5, UpsertGood
  <2> HIDE DEF js
  <2>7. BeginFinalize(b, j, js, kept)
    BY <2>1, <2>6
  <2>8. /\ {token', beating'} \subseteq BOOLEAN
        /\ \E r \in [pc : {"idle", "pushing", "completed", "error"}, job : JobOrNone] :
              Begun(b, j, j, r)
    BY <1>2, <2>2, <2>3, <2>4, <2>5, <2>6, <2>7, BeginFinalizeGood
  <2>9. PICK r \in [pc : {"idle", "pushing", "completed", "error"}, job : JobOrNone] :
           Begun(b, j, j, r)
    BY <2>8
  <2>10. Recorder(b, r)
    BY <1>1, <1>2, <2>2, <2>4, <2>8, <2>9, BegunRecords
  <2>11. Honest(b, r)
    <3>1. CleanRun => verdict # "none" /\ verdict # "error"
      BY <1>1 DEF CleanRun, Refused, Ended, LoopInv, CleanExit, CleanExitIsNoError
    <3> QED  BY <1>2, <2>4, <2>9, <3>1 DEF Honest, Begun
  <2>12. TokenKept
    BY <1>1 DEF TokenKept, Refused, Ended, external
  <2> QED  BY <1>2, <2>10, <2>11, <2>12, FinalizerStep
<1> QED  BY <1>3, <1>4

LEMMA WatchedKeeps ==
  ASSUME LoopInv, Watched
  PROVE  LoopInv' /\ TokenKept
<1>1. /\ fin["watch"].pc = "flushing" /\ UNCHANGED external /\ Elsewhere /\ UNCHANGED <<entry, muted>>
  BY DEF Watched, Elsewhere, external
<1> DEFINE j == TheJob
           js == jobs
           kept == token
<1>2. /\ "watch" \in Finalizers /\ j \in Job /\ Good(j, World) /\ TheJob # NoJob
      /\ proc = "exited" /\ verdict' = verdict /\ GetByLoopId(js) = j /\ GoodStore(js, World)
      /\ kept \in BOOLEAN /\ muted' \in BOOLEAN /\ j = TheJob
  BY <1>1, FinalizerNames, FinalizerFinds DEF TheJob, external, LoopInv, RecordsGood
<1>3. BeginFinalize("watch", j, js, kept)
  BY <1>2 DEF Watched, TheJob
<1>4. boots # 1 /\ ~Launched /\ entry = "none" /\ phase = "serving"
  BY <1>1 DEF LoopInv, Owners
<1> HIDE DEF j, js, kept
<1>5. /\ {token', beating'} \subseteq BOOLEAN /\ (kept /\ ~token' => TheJob'.final)
      /\ \E r \in [pc : {"idle", "pushing", "completed", "error"}, job : JobOrNone] :
            Begun("watch", j, j, r)
  BY <1>2, <1>3, BeginFinalizeGood
<1>6. PICK r \in [pc : {"idle", "pushing", "completed", "error"}, job : JobOrNone] :
         Begun("watch", j, j, r)
  BY <1>5
<1>7. Recorder("watch", r)
  BY <1>1, <1>2, <1>4, <1>5, <1>6, BegunRecords
<1>8. Honest("watch", r)
  <2>1. kill.pc = "entry" /\ state # "COMPLETED" => TheJob.status \notin {"RUNNING", "COMPLETED"}
    BY DEF LoopInv, CancelHolds
  <2> QED  BY <1>2, <1>4, <1>6, <2>1 DEF Honest, Begun, CleanRun
<1> QED  BY <1>2, <1>5, <1>7, <1>8, FinalizerStep DEF TokenKept, kept

LEMMA DeadReconciledKeeps ==
  ASSUME LoopInv, DeadReconciled
  PROVE  LoopInv' /\ TokenKept
<1>1. /\ fin["dead"].pc = "reconciling" /\ UNCHANGED external /\ Elsewhere /\ UNCHANGED <<entry, muted>>
  BY DEF DeadReconciled, Elsewhere, external
<1> DEFINE j == fin["dead"].job
           i == [j EXCEPT !.attempts = @ + 1]
<1>2. /\ "dead" \in Finalizers /\ j \in Job /\ Good(j, World) /\ j.attempts < MaxRecoveryAttempts
      /\ proc = "exited" /\ verdict' = verdict /\ GoodStore(jobs, World)
      /\ TheJob \in Job /\ TheJob # NoJob /\ Good(TheJob, World) /\ \A l : Current(jobs, l) = TheJob
      /\ token \in BOOLEAN /\ muted' \in BOOLEAN
  BY <1>1, FinalizerNames, FinalizerFinds DEF external, LoopInv, RecordsGood, Places
<1>3. boots # 1 /\ ~Launched /\ entry = "none" /\ phase = "serving" /\ kill.pc # "entry"
  BY <1>1 DEF LoopInv, Owners, CancelHolds
<1>4. \/ BeginFinalize("dead", j, Upsert(jobs, i), token)
      \/ Refused /\ BeginFinalize("dead", j, Upsert(Terminated(jobs, j, "UNKNOWN"), i), FALSE)
  BY DEF DeadReconciled
<1> HIDE DEF j
<1>5. /\ i \in Job /\ i.exit = j.exit /\ i.status = j.status /\ i.final = j.final
      /\ i.posted = j.posted /\ i.persisted = j.persisted
  <2>1. j.attempts + 1 \in 0..MaxRecoveryAttempts
    BY <1>2, RecoveryAssumption DEF Job
  <2> QED  BY <1>2, <2>1 DEF Job
<1>6. Good(i, World)
  <2>1. j.attempts # MaxRecoveryAttempts
    BY <1>2, RecoveryAssumption DEF Job
  <2> HIDE DEF i
  <2> QED  BY <1>2, <1>5, <2>1 DEF Good, JobOrNone
<1> HIDE DEF i
<1>7. \E js, kept : BeginFinalize("dead", j, js, kept) /\ kept \in BOOLEAN
                    /\ (token /\ ~kept => Refused)
                    /\ GoodStore(js, World) /\ GetByLoopId(js) = i
  <2>1. CASE BeginFinalize("dead", j, Upsert(jobs, i), token)
    BY <1>2, <1>5, <1>6, <2>1, UpsertGood
  <2>2. CASE Refused /\ BeginFinalize("dead", j, Upsert(Terminated(jobs, j, "UNKNOWN"), i), FALSE)
    <3> DEFINE ended == [TheJob EXCEPT !.status = "UNKNOWN", !.final = TRUE]
    <3>1. Terminated(jobs, j, "UNKNOWN") = Upsert(jobs, ended)
      BY <1>2 DEF Terminated
    <3>2. /\ ended \in Job /\ ended.status = "UNKNOWN" /\ ended.exit = TheJob.exit
          /\ ended.posted = TheJob.posted /\ ended.persisted = TheJob.persisted
      BY <1>2 DEF Job, Status, Terminal
    <3> HIDE DEF ended
    <3>3. Good(ended, World)
      BY <1>2, <2>2, <3>2 DEF Good, JobOrNone, World
    <3>4. GoodStore(Terminated(jobs, j, "UNKNOWN"), World)
      BY <1>2, <3>1, <3>2, <3>3, UpsertGood
    <3> QED  BY <1>5, <1>6, <2>2, <3>4, UpsertGood
  <2> QED  BY <1>4, <2>1, <2>2
<1>8. PICK js, kept : BeginFinalize("dead", j, js, kept) /\ kept \in BOOLEAN
                      /\ (token /\ ~kept => Refused)
                      /\ GoodStore(js, World) /\ GetByLoopId(js) = i
  BY <1>7
<1>9. /\ {token', beating'} \subseteq BOOLEAN /\ (kept /\ ~token' => TheJob'.final)
      /\ \E r \in [pc : {"idle", "pushing", "completed", "error"}, job : JobOrNone] :
            Begun("dead", j, i, r)
  BY <1>2, <1>5, <1>8, BeginFinalizeGood
<1>10. PICK r \in [pc : {"idle", "pushing", "completed", "error"}, job : JobOrNone] :
          Begun("dead", j, i, r)
  BY <1>9
<1>11. Recorder("dead", r)
  BY <1>1, <1>2, <1>3, <1>5, <1>9, <1>10, BegunRecords
<1>12. Honest("dead", r)
  BY <1>3, <1>10 DEF Honest, Begun, CleanRun
<1>13. TokenKept
  BY <1>1, <1>8, <1>9 DEF TokenKept, Refused, Ended, external
<1> QED  BY <1>2, <1>11, <1>12, <1>13, FinalizerStep

-----------------------------------------------------------------------------
(* The rest of a finalization.                                             *)

LEMMA PushedKeeps ==
  ASSUME LoopInv, NEW f \in Finalizers, Pushed(f)
  PROVE  LoopInv'
<1>1. /\ World' = World /\ Later(World, World') /\ Refused' = Refused /\ Elsewhere
      /\ fin[f].pc = "pushing" /\ UNCHANGED <<verdict, entry, muted, token, beating>>
  BY WorldSame DEF Pushed, Elsewhere, external, handles
<1>2. /\ proc = "exited" /\ TheJob \in Job /\ TheJob # NoJob /\ Good(TheJob, World)
      /\ \A l : Current(jobs, l) = TheJob
      /\ {token, beating, muted} \subseteq BOOLEAN
      /\ verdict \in {"none", "completed", "error", "cancelled"}
  BY <1>1, FinalizerFinds
<1>3. PICK pushed \in BOOLEAN :
        /\ jobs' = Upsert(jobs, [TheJob EXCEPT !.pushed = @ \/ pushed])
        /\ fin' = [fin EXCEPT ![f] = [pc |-> "completed", job |-> Current(jobs', fin[f].job)]]
  BY <1>2 DEF Pushed
<1> DEFINE j == [TheJob EXCEPT !.pushed = @ \/ pushed]
           r == [pc |-> "completed", job |-> Current(jobs', fin[f].job)]
<1>4. /\ j \in Job /\ j.exit = TheJob.exit /\ j.status = TheJob.status /\ j.final = TheJob.final
      /\ j.posted = TheJob.posted /\ j.persisted = TheJob.persisted /\ j.attempts = TheJob.attempts
      /\ jobs' = Upsert(jobs, j)
  BY <1>2, <1>3 DEF Job
<1> HIDE DEF j
<1>5. Good(j, World') /\ (Fresh(TheJob, World) => Fresh(j, World'))
  BY <1>1, <1>2, <1>4 DEF Good, Fresh, JobOrNone
<1>6. GoodStore(jobs', World') /\ TheJob' = j /\ j # NoJob
  BY <1>1, <1>4, <1>5, WriteJob DEF LoopInv
<1>7. r.pc = "completed" /\ r.job = j /\ r \in [pc : Pcs, job : JobOrNone] /\ r.job \in Job
  BY <1>4, <1>6, CurrentIsStored DEF TheJob, Pcs, JobOrNone
<1>8. fin' = [fin EXCEPT ![f] = r]
  BY <1>3
<1> HIDE DEF r
<1>9. /\ fin'[f] = r
      /\ \A g \in Finalizers : g # f => fin'[g] = fin[g]
  BY <1>7, <1>8, FinStep DEF LoopInv, TypeOK, FinType
<1>10. Launched' => Launched
  BY <1>1, <1>9, FinalizerNames DEF Launched, Elsewhere
<1>11. Recorder(f, r)
  <2>1. f = "exit" => entry' = "none"
    BY <1>1 DEF LoopInv, Owners
  <2>2. (Launched' \/ entry' \in {"spawned", "recovered"} \/ phase = "booting") => Fresh(TheJob', World')
    BY <1>1, <1>5, <1>6, <1>10 DEF LoopInv, Owners
  <2> QED  BY <1>1, <1>2, <1>4, <1>5, <1>6, <1>7, <1>8, <2>1, <2>2 DEF Recorder
<1>12. Honest(f, r)
  <2>1. /\ CleanRun => verdict # "error"
        /\ CleanRun /\ verdict = "none" /\ (child \/ fin["exit"].pc \in {"flushing", "git"})
             => TheJob.status \notin {"FAILED", "STOPPED", "UNKNOWN"}
    BY DEF LoopInv, CleanExit, CleanExitIsNoError, CleanRun
  <2>2. kill.pc = "entry" /\ state # "COMPLETED" =>
           f # "exit" /\ TheJob.status \notin {"RUNNING", "COMPLETED"}
    BY <1>1 DEF LoopInv, CancelHolds
  <2>3. fin'["exit"].pc \in {"flushing", "git"} => fin["exit"].pc \in {"flushing", "git"}
    BY <1>7, <1>9, FinalizerNames
  <2> QED  BY <1>1, <1>4, <1>6, <1>7, <2>1, <2>2, <2>3 DEF Honest
<1> QED  BY <1>11, <1>12, FinalizerStep

\* What the answer to a finalizer leaves in the store.
AnswerNoted(f, o) ==
  IF o.posted THEN Upsert(jobs, [Current(jobs, fin[f].job) EXCEPT !.posted = TRUE]) ELSE jobs

AnswerRecorded(f, o) == Recorded(AnswerNoted(f, o), fin[f].job, o.error)

AnswerStored(f, o) ==
  IF f = "exit" THEN PersistFinal(AnswerRecorded(f, o), fin[f].job, fin[f].pc = "completed")
  ELSE AnswerRecorded(f, o)

\* The record that is stored with the answer of the cloud.
LEMMA AnsweredJob ==
  ASSUME LoopInv, NEW f \in Finalizers, fin[f].pc \in {"completed", "error"},
         NEW o \in Outcomes(fin[f].pc, fin[f].job.posted), Accept(fin[f].pc, o)
  PROVE  \E k \in Job :
           /\ GoodStore(AnswerStored(f, o), World') /\ GetByLoopId(AnswerStored(f, o)) = k
           /\ k # NoJob /\ Good(k, World')
           /\ TheJob.exit => k.exit
           /\ k.attempts = TheJob.attempts /\ k.error = o.error
           /\ f # "exit" => k.status = TheJob.status /\ (Fresh(TheJob, World) => Fresh(k, World'))
           /\ f = "exit" /\ fin[f].pc = "error"
                => k.status = TheJob.status \/ k.status \in {"FAILED", "STOPPED", "UNKNOWN"}
<1> DEFINE event    == fin[f].pc
           job      == fin[f].job
           noted    == AnswerNoted(f, o)
           recorded == AnswerRecorded(f, o)
           final    == AnswerStored(f, o)
<1>0. /\ noted = IF o.posted THEN Upsert(jobs, [TheJob EXCEPT !.posted = TRUE]) ELSE jobs
      /\ recorded = Recorded(noted, job, o.error)
      /\ final = IF f = "exit" THEN PersistFinal(recorded, job, event = "completed") ELSE recorded
  BY FinalizerFinds DEF AnswerNoted, AnswerRecorded, AnswerStored
<1> HIDE DEF noted, recorded, final
<1>1. /\ TheJob \in Job /\ TheJob # NoJob /\ Good(TheJob, World) /\ Good(job, World) /\ job \in Job
      /\ proc = "exited" /\ GoodStore(jobs, World)
  BY FinalizerFinds DEF LoopInv, RecordsGood, Places
<1>2. /\ Later(World, World') /\ (Refused => Refused') /\ o.error \in Errors /\ o.posted \in BOOLEAN
      /\ o.posted => World'.told /\ World'.refused
      /\ o.error = "none" => o.posted \/ job.posted
      /\ World'.told => World'.refused
  <2>1. event # "none" /\ o.posted \in BOOLEAN
    BY DEF Outcomes
  <2> QED  BY <2>1, WorldAnswers
<1>3. o.error = "none" => World'.refused
  BY <1>1, <1>2 DEF Good, Later
<1>4. Good(TheJob, World') /\ Good(job, World') /\ GoodStore(jobs, World')
      /\ (Fresh(TheJob, World) => Fresh(TheJob, World'))
  BY <1>1, <1>2, GoodLater, StoreLater DEF Fresh, Later
<1>5. PICK n \in Job :
        /\ GoodStore(noted, World') /\ GetByLoopId(noted) = n /\ n # NoJob /\ Good(n, World')
        /\ n.exit = TheJob.exit /\ n.attempts = TheJob.attempts /\ n.status = TheJob.status
        /\ n.final = TheJob.final /\ n.persisted = TheJob.persisted
  <2>1. CASE ~o.posted
    BY <1>0, <1>1, <1>4, <2>1 DEF TheJob
  <2>2. CASE o.posted
    <3> DEFINE n == [TheJob EXCEPT !.posted = TRUE]
    <3>1. /\ n \in Job /\ n.exit = TheJob.exit /\ n.attempts = TheJob.attempts /\ n.status = TheJob.status
          /\ n.final = TheJob.final /\ n.persisted = TheJob.persisted /\ n.posted
      BY <1>1 DEF Job
    <3>2. noted = Upsert(jobs, n)
      BY <1>0, <2>2
    <3> HIDE DEF n
    <3>3. Good(n, World')
      BY <1>2, <1>4, <2>2, <3>1 DEF Good, JobOrNone
    <3> QED  BY <1>4, <3>1, <3>2, <3>3, UpsertGood
  <2> QED  BY <1>2, <2>1, <2>2
<1>6. PICK m \in Job :
        /\ GoodStore(recorded, World') /\ GetByLoopId(recorded) = m /\ m # NoJob /\ Good(m, World')
        /\ m.exit = TheJob.exit /\ m.attempts = TheJob.attempts /\ m.status = TheJob.status
        /\ m.persisted = TheJob.persisted /\ (m.final => TheJob.final \/ World'.refused)
        /\ m.error = o.error
  <2> HIDE DEF job
  <2>1. recorded = Recorded(noted, job, o.error)
    BY <1>0 DEF job
  <2> QED  BY <1>2, <1>3, <1>5, <2>1, RecordedGood
<1>7. CASE f # "exit"
  <2>1. final = recorded
    BY <1>0, <1>7
  <2>2. Fresh(TheJob, World) => Fresh(m, World')
    BY <1>4, <1>6 DEF Fresh
  <2> QED  BY <1>6, <1>7, <2>1, <2>2 DEF final
<1>8. CASE f = "exit"
  <2> DEFINE success == event = "completed"
  <2>1. success \in BOOLEAN /\ final = PersistFinal(recorded, job, success)
    BY <1>0, <1>8
  <2>2. Fresh(TheJob, World) /\ (~success => job.status \in {"FAILED", "STOPPED", "UNKNOWN"})
    BY <1>8, ExitFinds DEF LoopInv, Places
  <2>3. m.final => World'.refused
    BY <1>4, <1>6, <2>2 DEF Fresh
  <2>4. job.status \in {"CANCEL_PENDING", "RUNNING"} => success
    BY <2>2
  <2>5. fin[f].pc = "error" => ~success
    OBVIOUS
  <2> HIDE DEF success, job
  <2>6. \E k \in Job :
           /\ GoodStore(final, World') /\ GetByLoopId(final) = k /\ k # NoJob /\ Good(k, World')
           /\ m.exit => k.exit
           /\ k.attempts = m.attempts /\ k.error = m.error
           /\ \/ k = m
              \/ k.status = IF success THEN "COMPLETED" ELSE job.status
    <3>1. GetByLoopId(recorded) \in Job /\ (GetByLoopId(recorded).final => World'.refused)
      BY <1>6, <2>3
    <3>2. job \in Job /\ Good(job, World') /\ GoodStore(recorded, World')
      BY <1>1, <1>4, <1>6 DEF job
    <3> QED  BY <1>6, <2>1, <2>4, <3>1, <3>2, PersistFinalGood
  <2> QED  BY <1>6, <1>8, <2>2, <2>5, <2>6 DEF final
<1> QED  BY <1>7, <1>8

LEMMA AnsweredKeeps ==
  ASSUME LoopInv, NEW f \in Finalizers, Answered(f)
  PROVE  LoopInv'
<1> DEFINE event == fin[f].pc
           job == fin[f].job
<1>1. /\ event \in {"completed", "error"} /\ fin' = [fin EXCEPT ![f] = Idle]
      /\ UNCHANGED <<phase, boots, kills, disk, torn, entry, child, pending, muted,
                     watching, launch, kill, list>>
  BY DEF Answered
<1>2. /\ proc = "exited" /\ TheJob \in Job /\ TheJob # NoJob /\ Good(TheJob, World)
      /\ \A l : Current(jobs, l) = TheJob
      /\ {token, beating, muted} \subseteq BOOLEAN
      /\ verdict \in {"none", "completed", "error", "cancelled"}
  BY <1>1, FinalizerFinds
<1>3. PICK o \in Outcomes(event, job.posted) :
        /\ Accept(event, o)
        /\ IF GivesUp(f, AnswerStored(f, o), o.error)
           THEN /\ jobs' = Upsert(AnswerStored(f, o),
                                  [Current(AnswerStored(f, o), job) EXCEPT !.final = TRUE])
                /\ token' = FALSE
                /\ UNCHANGED beating
           ELSE /\ jobs' = AnswerStored(f, o)
                /\ IF f \in Beats
                   THEN /\ beating' = FALSE
                        /\ token' = (token /\ o.error = "retryable")
                   ELSE Release(token, o.error)
  BY DEF Answered, AnswerNoted, AnswerRecorded, AnswerStored
<1> DEFINE store == AnswerStored(f, o)
<1>4. PICK k \in Job :
        /\ GoodStore(store, World') /\ GetByLoopId(store) = k /\ k # NoJob /\ Good(k, World')
        /\ TheJob.exit => k.exit
        /\ k.attempts = TheJob.attempts
        /\ f # "exit" => k.status = TheJob.status /\ (Fresh(TheJob, World) => Fresh(k, World'))
        /\ f = "exit" /\ event = "error"
             => k.status = TheJob.status \/ k.status \in {"FAILED", "STOPPED", "UNKNOWN"}
  BY <1>1, <1>3, AnsweredJob
<1>5. {token', beating', muted'} \subseteq BOOLEAN
  BY <1>1, <1>2, <1>3 DEF Release
<1>6. \/ jobs' = store
      \/ /\ f = "dead" /\ k.attempts >= MaxRecoveryAttempts
         /\ jobs' = Upsert(store, [k EXCEPT !.final = TRUE])
  BY <1>3, <1>4, CurrentIsStored DEF GivesUp
<1>7. /\ GoodStore(jobs', World') /\ TheJob' # NoJob
      /\ TheJob.exit => TheJob'.exit
      /\ TheJob'.status = k.status
      /\ f # "dead" => TheJob' = k
  <2>1. CASE jobs' = store
    BY <1>4, <2>1 DEF TheJob
  <2>2. CASE /\ f = "dead" /\ k.attempts >= MaxRecoveryAttempts
             /\ jobs' = Upsert(store, [k EXCEPT !.final = TRUE])
    <3> DEFINE j == [k EXCEPT !.final = TRUE]
    <3>1. k.attempts = MaxRecoveryAttempts
      BY <2>2, RecoveryAssumption DEF Job
    <3>2. /\ j \in Job /\ j.exit = k.exit /\ j.status = k.status /\ j.posted = k.posted
          /\ j.persisted = k.persisted /\ j.attempts = k.attempts /\ jobs' = Upsert(store, j)
      BY <2>2 DEF Job
    <3> HIDE DEF j, store
    <3>3. Good(j, World')
      BY <1>4, <3>1, <3>2 DEF Good, JobOrNone
    <3> QED  BY <1>4, <2>2, <3>2, <3>3, UpsertGood DEF TheJob
  <2> QED  BY <1>6, <2>1, <2>2
<1> HIDE DEF store
<1>8. /\ Later(World, World') /\ (Refused => Refused')
      /\ verdict' \in {verdict, event} /\ (verdict' # verdict => verdict = "none")
      /\ UNCHANGED <<proc, outcome, state, cloud>> /\ Elsewhere
  <2>1. event # "none"
    BY <1>1
  <2>2. Later(World, World') /\ (Refused => Refused')
    BY <1>3, <2>1, WorldAnswers
  <2>3. (o.accepted => verdict = "none" /\ verdict' = event) /\ (~o.accepted => verdict' = verdict)
    BY <1>3, <2>1, WorldAnswers
  <2> QED  BY <1>1, <1>3, <2>2, <2>3 DEF Accept, Elsewhere
<1>9. /\ fin'[f] = Idle
      /\ \A g \in Finalizers : g # f => fin'[g] = fin[g]
  BY <1>1, FinStep, IdleType DEF LoopInv, TypeOK, FinType
<1>10. Recorder(f, Idle)
  <2>1. f = "exit" => entry' = "none" /\ phase # "booting" /\ ~Launched'
    BY <1>1, <1>8, <1>9, ExitFinds, IdleType DEF LoopInv, Owners, Launched, Elsewhere
  <2>2. f \in {"dead", "watch"} => ~Launched' /\ entry' = "none" /\ phase # "booting"
    BY <1>1, <1>9, FinalizerNames DEF LoopInv, Owners, Launched
  <2>3. f \in Beats /\ (Launched' \/ entry' \in {"spawned", "recovered"} \/ phase = "booting")
          => Fresh(TheJob', World')
    <3>1. f \in Beats => f # "exit" /\ f # "dead"
      BY FinalizerNames
    <3>2. f \in Beats => (Launched' => Launched)
      BY <1>1, <1>9, FinalizerNames DEF Launched
    <3> QED  BY <1>1, <1>4, <1>7, <3>1, <3>2 DEF LoopInv, Owners
  <2>4. (Launched' \/ entry' \in {"spawned", "recovered"} \/ phase = "booting") => Fresh(TheJob', World')
    BY <2>1, <2>2, <2>3, FinalizerNames
  <2>5. verdict' \in {"none", "completed", "error", "cancelled"} /\ entry' = entry
    BY <1>1, <1>2, <1>8
  <2> QED  BY <1>1, <1>2, <1>5, <1>7, <1>8, <2>1, <2>4, <2>5, IdleType, NoJobType DEF Recorder
<1>11. Honest(f, Idle)
  <2>1. CleanRun => verdict' # "error"
    <3>1. CleanRun => verdict # "error"
      BY DEF LoopInv, CleanExit, CleanExitIsNoError, CleanRun
    <3>2. CleanRun /\ verdict = "none" => event # "error"
      BY DEF LoopInv, CleanExit
    <3> QED  BY <1>8, <3>1, <3>2
  <2>2. CleanRun /\ verdict' = "none" /\ (child \/ fin'["exit"].pc \in {"flushing", "git"})
          => TheJob'.status \notin {"FAILED", "STOPPED", "UNKNOWN"}
    <3>1. f = "exit" => ~child /\ fin'["exit"].pc = "idle"
      BY <1>1, <1>9, ExitFinds, IdleType
    <3>2. verdict' = "none" => verdict = "none"
      BY <1>1, <1>8
    <3>3. f # "exit" => fin'["exit"] = fin["exit"] /\ TheJob'.status = TheJob.status
      BY <1>4, <1>7, <1>9, FinalizerNames
    <3> QED  BY <3>1, <3>2, <3>3 DEF LoopInv, CleanExit
  <2>3. kill.pc = "entry" /\ state # "COMPLETED" => TheJob'.status \notin {"RUNNING", "COMPLETED"}
    <3>1. kill.pc = "entry" /\ state # "COMPLETED" =>
            /\ TheJob.status \notin {"RUNNING", "COMPLETED"}
            /\ f = "exit" => event # "completed"
      BY DEF LoopInv, CancelHolds
    <3> QED  BY <1>1, <1>4, <1>7, <3>1
  <2> QED  BY <2>1, <2>2, <2>3, IdleType DEF Honest
<1> QED  BY <1>10, <1>11, FinalizerStep

-----------------------------------------------------------------------------
(* The invariant.                                                          *)

\* The invariant holds at first, and every step keeps it.
LEMMA LoopInvInit == Init => LoopInv
<1> SUFFICES ASSUME Init PROVE LoopInv
  OBVIOUS
<1>1. /\ proc = "none" /\ outcome = "none" /\ state = "none" /\ cloud = "live" /\ verdict = "none"
      /\ phase = "serving" /\ boots = 1 /\ kills = 0
      /\ jobs = [active |-> NoJob, terminal |-> NoJob] /\ disk = NoJob
      /\ torn = FALSE /\ token = FALSE /\ entry = "none" /\ launch = "none"
      /\ child = FALSE /\ pending = FALSE /\ beating = FALSE /\ muted = FALSE /\ watching = FALSE
      /\ kill = Idle /\ list = [pc |-> "idle", job |-> NoJob, running |-> FALSE]
      /\ fin = [f \in Finalizers |-> Idle]
  BY DEF Init
<1>2. /\ \A f \in Finalizers : fin[f] = Idle
      /\ fin["exit"].pc = "idle" /\ fin["dead"].pc = "idle" /\ fin["watch"].pc = "idle"
      /\ \A b \in Beats : fin[b].pc = "idle"
  BY <1>1, FinalizerNames, IdleType
<1>3. NoJob.status \notin Terminal /\ NoJob \in JobOrNone
  BY NoJobType DEF Status
<1>4. TypeOK
  <2>1. boots \in 1..MaxBoots /\ kills \in 0..MaxKills
    BY <1>1, BootsAssumption, KillsAssumption
  <2>2. fin \in [Finalizers -> [pc : Pcs, job : JobOrNone]] /\ kill \in [pc : {"idle", "entry", "pid"}, job : JobOrNone]
    BY <1>1, <1>3, IdleType DEF Idle
  <2>3. jobs \in [active : JobOrNone, terminal : JobOrNone] /\ disk \in JobOrNone
        /\ list \in [pc : {"idle", "reading"}, job : JobOrNone, running : BOOLEAN]
    BY <1>1, <1>3
  <2> QED  BY <1>1, <2>1, <2>2, <2>3 DEF TypeOK
<1>5. RecordsGood
  BY <1>1, <1>2, <1>3, NoJobType, IdleType DEF RecordsGood, GoodStore
<1>6. NoJobNoWork /\ ProcFirst /\ AliveUnfinished /\ DownIsQuiet
  BY <1>1, <1>2 DEF NoJobNoWork, ProcFirst, AliveUnfinished, DownIsQuiet
<1>7. TheJob = NoJob /\ Fresh(TheJob, World)
  BY <1>1, NoJobType DEF TheJob, GetByLoopId, Fresh
<1>8. WorkAfterExit /\ Places /\ Owners
  BY <1>1, <1>2, <1>7, IdleType, FinalizerNames DEF WorkAfterExit, Places, Owners, Launched
<1>9. ExitClaims /\ CleanExit /\ CancelHolds
  BY <1>1, <1>2, IdleType DEF ExitClaims, CleanExit, CleanRun, CleanExitIsNoError, CancelHolds
<1> QED  BY <1>4, <1>5, <1>6, <1>8, <1>9 DEF LoopInv

LEMMA LoopInvStep == LoopInv /\ [Next]_vars => LoopInv'
<1> SUFFICES ASSUME LoopInv, [Next]_vars PROVE LoopInv'
  OBVIOUS
<1>1. CASE UNCHANGED vars
  <2>1. World' = World /\ Refused' = Refused
    BY <1>1, WorldSame DEF vars
  <2>2. TypeOK' /\ RecordsGood'
    BY <1>1, <2>1 DEF LoopInv, TypeOK, RecordsGood, vars, external, stored, handles
  <2>3. NoJobNoWork' /\ ProcFirst' /\ AliveUnfinished' /\ WorkAfterExit' /\ Places'
    BY <1>1, <2>1 DEF LoopInv, NoJobNoWork, ProcFirst, AliveUnfinished, Unfinished, WorkAfterExit, Places,
       TheJob, vars, external, stored, handles
  <2>4. Owners' /\ DownIsQuiet'
    BY <1>1, <2>1 DEF LoopInv, Owners, Launched, DownIsQuiet, TheJob, vars, external, stored, handles
  <2>5. ExitClaims' /\ CleanExit' /\ CancelHolds'
    BY <1>1, <2>1 DEF LoopInv, ExitClaims, CleanExit, CleanRun, CleanExitIsNoError, CancelHolds, TheJob,
       vars, external, stored, handles
  <2> QED  BY <2>2, <2>3, <2>4, <2>5 DEF LoopInv
<1>2. CASE Save \/ KillEnds \/ LaunchStep
  BY <1>2, SaveKeeps, KillEndsKeeps, SpawnKeeps, SpawnFailsKeeps, StartTimersKeeps DEF LaunchStep
<1>3. CASE ExitStep
  BY <1>3, ExitKeeps, ExitFlushedKeeps, ExitFailedKeeps, ExitGitKeeps, ExitChallengeKeeps,
     ExitChallengedKeeps, ExitThrowsKeeps DEF ExitStep
<1>4. CASE RecoveryStep
  BY <1>4, BootKeeps, ReattachKeeps, ReattachLiveKeeps, ReattachEndedKeeps, WatchKeeps, WatchedKeeps,
     DeadTimedOutKeeps, DeadReconciledKeeps DEF RecoveryStep
<1>5. CASE \E f \in Finalizers : Pushed(f) \/ Answered(f)
  BY <1>5, PushedKeeps, AnsweredKeeps
<1>6. CASE \E b \in Beats : Heartbeat(b) \/ BeatStep(b)
  BY <1>6, HeartbeatKeeps, HeartbeatAliveKeeps, HeartbeatTerminalKeeps DEF BeatStep
<1>7. CASE LaunchRequest \/ Kill \/ List \/ Listed \/ Crash
  BY <1>7, LaunchRequestKeeps, KillKeeps, ListKeeps, ListedKeeps, CrashKeeps
<1>8. CASE WriteState \/ ProcessExits \/ CloudRefuses
  BY <1>8, WriteStateKeeps, ProcessExitsKeeps, CloudRefusesKeeps
<1> QED
  BY <1>1, <1>2, <1>3, <1>4, <1>5, <1>6, <1>7, <1>8 DEF Next, Progress

(***************************************************************************)
(* The inductive invariant of the loop, for any number of heartbeats in    *)
(* flight, starts of the application, kill requests and attempts of the    *)
(* recovery: what the records of the job rest on, who may be handling the  *)
(* job beside whom, and what an undisturbed exit and a kill leave.         *)
(***************************************************************************)
THEOREM LoopInvariant == Spec => []LoopInv
BY LoopInvInit, LoopInvStep, PTL DEF Spec

(***************************************************************************)
(* Every variable stays within its type.                                   *)
(***************************************************************************)
THEOREM TypeCorrect == Spec => []TypeOK
<1>1. LoopInv => TypeOK
  BY DEF LoopInv
<1> QED  BY <1>1, LoopInvariant, PTL

(***************************************************************************)
(* Neither a heartbeat, nor the job list, nor a kill request, nor a boot   *)
(* records a job as ended while its process runs (makeHeartbeatFinalizeFn, *)
(* isExitClaimed, reconcileJobStore), but for the boot that learns from    *)
(* the cloud that the loop has ended.                                      *)
(***************************************************************************)
THEOREM AliveIsNotWrittenOff == Spec => []RunningNotWrittenOff
<1>1. ASSUME LoopInv PROVE RunningNotWrittenOff
  <2>1. ASSUME proc = "alive", TheJob.status \in Terminal
        PROVE  TheJob.final /\ Refused /\ boots > 1
    <3>1. TheJob = jobs.terminal /\ TheJob # NoJob
      BY <1>1, <2>1, NoJobType, StoredJob DEF LoopInv, RecordsGood, GoodStore, TheJob, Status
    <3> QED  BY <1>1, <2>1, <3>1 DEF LoopInv, AliveUnfinished, Unfinished
  <2> QED  BY <2>1 DEF RunningNotWrittenOff
<1> QED  BY <1>1, LoopInvariant, PTL

(***************************************************************************)
(* A process that exited with 0 after its work is not reported to the      *)
(* cloud as a failed one, unless its own state.json says so: not by the    *)
(* exit handler, nor by a heartbeat or the job list that finds the process *)
(* gone before the handler does (pendingLoopExits, the exit code).         *)
(***************************************************************************)
THEOREM CleanExitIsReported == Spec => []CleanExitIsNoError
<1>1. LoopInv => CleanExitIsNoError
  BY DEF LoopInv, CleanExit
<1> QED  BY <1>1, LoopInvariant, PTL

(***************************************************************************)
(* A loop whose running entry was killed is not then reported as completed *)
(* by its exit handler, unless its state.json says that it is: the kill    *)
(* marks the job before it sends the signal, and the handler looks at the  *)
(* job after each of its awaits.                                           *)
(***************************************************************************)
THEOREM CancelHoldsBack == Spec => []CancelStopsCompletion
<1>1. LoopInv => CancelStopsCompletion
  BY DEF LoopInv, CancelHolds, CancelStopsCompletion
<1> QED  BY <1>1, LoopInvariant, PTL

(***************************************************************************)
(* cloudFinalizedAt is set only where the cloud ended the loop or has its  *)
(* final event, where there is no such event, or where the recovery gave   *)
(* the loop up after its last attempt, whoever of the finalizers set it    *)
(* and however old the job it wrote.                                       *)
(***************************************************************************)
THEOREM FinalHasVerdict == Spec => []VerdictBehindFinal
<1>1. ASSUME LoopInv PROVE VerdictBehindFinal
  <2>1. TheJob = NoJob => ~TheJob.final
    BY NoJobType
  <2>2. Good(TheJob, World)
    BY <1>1, StoredJob DEF LoopInv, RecordsGood, TheJob
  <2> QED  BY <2>1, <2>2 DEF VerdictBehindFinal, Good, World
<1> QED  BY <1>1, LoopInvariant, PTL

-----------------------------------------------------------------------------
(* The token.                                                              *)

\* An answer without an error is one of a loop that has ended.
LEMMA NoErrorIsRefused ==
  ASSUME NEW event, event # "none", NEW sent, NEW posted, NEW o \in Outcomes(sent, posted),
         Accept(event, o), posted => Refused', o.error = "none"
  PROVE  Refused'
<1>1. /\ o.posted => World'.refused
      /\ Refused => Refused'
      /\ o.posted \/ posted
  BY WorldAnswers DEF Outcomes
<1> QED  BY <1>1 DEF World

\* The answer to a finalizer deletes it with the last report only.
LEMMA AnsweredKeepsToken ==
  ASSUME LoopInv, NEW f \in Finalizers, Answered(f)
  PROVE  TokenKept
<1> DEFINE event == fin[f].pc
           job == fin[f].job
<1>1. event \in {"completed", "error"}
  BY DEF Answered
<1>2. Good(job, World) /\ TheJob \in Job /\ Good(TheJob, World)
  BY <1>1, FinalizerFinds
<1>3. PICK o \in Outcomes(event, job.posted) :
        /\ Accept(event, o)
        /\ \/ /\ GivesUp(f, AnswerStored(f, o), o.error)
              /\ jobs' = Upsert(AnswerStored(f, o),
                                [Current(AnswerStored(f, o), job) EXCEPT !.final = TRUE])
           \/ /\ jobs' = AnswerStored(f, o)
              /\ token /\ ~token' => o.error # "retryable"
  BY DEF Answered, AnswerNoted, AnswerRecorded, AnswerStored, Release
<1>4. CASE o.error = "none"
  <2>1. event # "none"
    BY <1>1
  <2>2. job.posted => Refused'
    <3>1. job.posted => World.told
      BY <1>2 DEF Good
    <3>2. World.told => Refused'
      <4>1. Later(World, World')
        BY <1>3, <2>1, WorldAnswers
      <4> QED  BY <4>1 DEF Later, World, Refused, Ended
    <3> QED  BY <3>1, <3>2
  <2> HIDE DEF event, job
  <2> QED  BY <1>3, <1>4, <2>1, <2>2, NoErrorIsRefused DEF TokenKept
<1>5. CASE o.error = "retryable"
  <2> DEFINE store == AnswerStored(f, o)
  <2>1. PICK k \in Job :
          GoodStore(store, World') /\ GetByLoopId(store) = k /\ k # NoJob /\ Good(k, World')
    BY <1>1, <1>3, AnsweredJob
  <2>2. CASE /\ GivesUp(f, store, o.error)
             /\ jobs' = Upsert(store, [Current(store, job) EXCEPT !.final = TRUE])
    <3> DEFINE j == [k EXCEPT !.final = TRUE]
    <3>1. Current(store, job) = k /\ k.attempts = MaxRecoveryAttempts
      BY <2>1, <2>2, CurrentIsStored, RecoveryAssumption DEF GivesUp, Job
    <3>2. /\ j \in Job /\ j.exit = k.exit /\ j.status = k.status /\ j.posted = k.posted
          /\ j.persisted = k.persisted /\ j.attempts = k.attempts /\ j.final /\ jobs' = Upsert(store, j)
      BY <2>2, <3>1 DEF Job
    <3> HIDE DEF j, store
    <3>3. Good(j, World')
      BY <2>1, <3>1, <3>2 DEF Good, JobOrNone
    <3>4. GetByLoopId(jobs') = j
      BY <2>1, <3>2, <3>3, UpsertGood
    <3> QED  BY <3>2, <3>4 DEF TokenKept, TheJob
  <2>3. CASE token /\ ~token' => o.error # "retryable"
    BY <1>5, <2>3 DEF TokenKept
  <2> QED  BY <1>3, <2>2, <2>3
<1>6. CASE o.error = "fatal"
  <2>1. GetByLoopId(AnswerStored(f, o)).error = "fatal"
    BY <1>1, <1>3, <1>6, AnsweredJob
  <2>2. jobs' = AnswerStored(f, o)
    BY <1>3, <1>6 DEF GivesUp
  <2> QED  BY <2>1, <2>2 DEF TokenKept, TheJob
<1>7. o.error \in Errors
  BY <1>3 DEF Outcomes
<1> QED  BY <1>4, <1>5, <1>6, <1>7 DEF Errors

\* The exit handler deletes the token before the verdict only for a challenge
\* by git.
LEMMA ExitKeepsToken ==
  ASSUME LoopInv, ExitStep
  PROVE  TokenKept \/ fin["exit"].pc = "challenged"
<1>1. CASE Exit \/ ExitChallenge \/ ExitThrows
  BY <1>1 DEF Exit, ExitChallenge, ExitThrows, TokenKept, stored
<1>2. CASE ExitFlushed
  <2>1. CASE token' = token
    BY <2>1 DEF TokenKept
  <2>2. CASE token' # token
    <3>1. ExitCancelled /\ Elsewhere /\ UNCHANGED <<external, muted>> /\ fin["exit"].pc # "idle"
      BY <1>2, <2>2 DEF ExitFlushed, Elsewhere, external
    <3> QED  BY <3>1, ExitCancelledRecords DEF TokenKept
  <2> QED  BY <2>1, <2>2
<1>3. CASE ExitFailed
  <2> DEFINE cancelled == fin["exit"].job.status \in {"CANCEL_PENDING", "CANCELLED"}
             event     == IF cancelled THEN "cancelled" ELSE "error"
  <2> DEFINE j(o) == [TheJob EXCEPT !.posted = @ \/ o.posted, !.final = @ \/ o.posted,
                                    !.error = o.error,
                                    !.status = IF cancelled THEN "CANCELLED" ELSE "FAILED",
                                    !.exit = TRUE, !.persisted = @ \/ ~cancelled]
  <2>1. fin["exit"].pc = "failing" /\ fin["exit"].job # NoJob
    BY <1>3 DEF ExitFailed, LoopInv, CleanExit
  <2>2. TheJob \in Job /\ Current(jobs, fin["exit"].job) = TheJob
    BY <2>1, ExitFinds, CurrentIsStored DEF TheJob
  <2>3. PICK o \in Outcomes("error", FALSE) :
          /\ Accept(event, o)
          /\ jobs' = Upsert(jobs, j(o))
          /\ token /\ ~token' => cancelled \/ o.error # "retryable"
    BY <1>3, <2>1, <2>2 DEF ExitFailed
  <2>4. o.error \in {"none", "retryable", "fatal"}
    BY <2>3 DEF Outcomes, Errors
  <2>5. /\ j(o).status = IF cancelled THEN "CANCELLED" ELSE "FAILED"
        /\ j(o).error = o.error
    BY <2>2 DEF Job
  <2>6. TheJob' = j(o)
    BY <2>3, <2>5 DEF Upsert, TheJob, GetByLoopId, Terminal
  <2> HIDE DEF j
  <2>7. CASE o.error = "none"
    <3>1. event # "none"
      OBVIOUS
    <3> DEFINE posted == FALSE
    <3>2. ~posted /\ o \in Outcomes("error", posted)
      BY <2>3
    <3> HIDE DEF event, posted
    <3>3. Refused'
      BY <2>3, <2>7, <3>1, <3>2, NoErrorIsRefused
    <3> QED  BY <3>3 DEF TokenKept
  <2>8. CASE o.error # "none"
    BY <2>3, <2>4, <2>5, <2>6, <2>8 DEF TokenKept
  <2> QED  BY <2>7, <2>8
<1>4. CASE ExitGit
  BY <1>4, ExitGitKeeps
<1>5. CASE ExitChallenged
  BY <1>5 DEF ExitChallenged
<1> QED  BY <1>1, <1>2, <1>3, <1>4, <1>5 DEF ExitStep

\* Boot recovery keeps the token while a report may still be sent again.
LEMMA RecoveryKeepsToken ==
  ASSUME LoopInv, RecoveryStep
  PROVE  TokenKept
<1>1. CASE Reattach \/ ReattachLive \/ Watch
  BY <1>1 DEF Reattach, ReattachLive, Watch, TokenKept, stored
<1>2. CASE ReattachEnded \/ DeadTimedOut
  BY <1>2, WorldSame DEF ReattachEnded, DeadTimedOut, TokenKept, Refused
<1>3. CASE Watched \/ DeadReconciled
  BY <1>3, WatchedKeeps, DeadReconciledKeeps
<1>4. CASE Boot
  <2> DEFINE js == Reconcile(jobs)
  <2>1. token /\ ~token' => js.terminal # NoJob /\ jobs' = GiveUp(js)
                            /\ GetByLoopId(js).attempts >= MaxRecoveryAttempts
    BY <1>4 DEF Boot, BeginDead
  <2>2. GoodStore(js, World)
    BY ReconcileGood
  <2> HIDE DEF js
  <2>3. ASSUME token, ~token' PROVE TheJob'.final
    <3> DEFINE i == GetByLoopId(js)
               j == [i EXCEPT !.final = TRUE]
    <3>1. i # NoJob /\ i \in Job /\ Good(i, World) /\ i.attempts >= MaxRecoveryAttempts /\ jobs' = Upsert(js, j)
      BY <2>1, <2>2, <2>3, StoredJob DEF GiveUp, GetByLoopId
    <3>2. i.attempts = MaxRecoveryAttempts
      BY <3>1, RecoveryAssumption DEF Job
    <3> HIDE DEF i
    <3>3. /\ j \in Job /\ j.exit = i.exit /\ j.status = i.status /\ j.posted = i.posted
          /\ j.persisted = i.persisted /\ j.attempts = i.attempts /\ j.final
      BY <3>1 DEF Job
    <3> HIDE DEF j
    <3>4. Good(j, World)
      BY <3>1, <3>2, <3>3 DEF Good, JobOrNone
    <3> QED  BY <2>2, <3>1, <3>3, <3>4, UpsertGood DEF TheJob
  <2> QED  BY <2>3 DEF TokenKept
<1> QED  BY <1>1, <1>2, <1>3, <1>4 DEF RecoveryStep

(***************************************************************************)
(* The loop token is deleted only when its loop has ended for the cloud or *)
(* was given up, was cancelled, never started, or failed on a challenge by *)
(* git: whoever deletes it, no report that a boot could still retry is     *)
(* left without its token.                                                 *)
(***************************************************************************)
THEOREM TokenOutlivesReports == Spec => RetryKeepsToken
<1> DEFINE Kept == token /\ ~token' => \/ TheJob'.final \/ Refused'
                                       \/ TheJob'.status = "CANCELLED"
                                       \/ TheJob'.error = "fatal"
                                       \/ launch' = "failed"
                                       \/ fin["exit"].pc = "challenged"
<1>1. ASSUME LoopInv, [Next]_vars PROVE [Kept]_vars
  <2>1. TokenKept => Kept
    BY DEF TokenKept
  <2>2. CASE UNCHANGED vars
    BY <2>2
  <2>3. CASE Save \/ KillEnds \/ LaunchStep
    BY <2>3 DEF Save, KillEnds, LaunchStep, Spawn, SpawnFails, StartTimers, stored
  <2>4. CASE ExitStep
    BY <1>1, <2>1, <2>4, ExitKeepsToken
  <2>5. CASE RecoveryStep
    BY <1>1, <2>1, <2>5, RecoveryKeepsToken
  <2>6. CASE \E f \in Finalizers : Pushed(f) \/ Answered(f)
    BY <1>1, <2>1, <2>6, AnsweredKeepsToken DEF Pushed
  <2>7. CASE \E b \in Beats : Heartbeat(b) \/ BeatStep(b)
    <3>1. \A b \in Beats : HeartbeatAlive(b) => (token => token')
      BY DEF HeartbeatAlive
    <3> QED  BY <1>1, <2>1, <2>7, <3>1, HeartbeatTerminalKeeps DEF Heartbeat, BeatStep, stored
  <2>8. CASE LaunchRequest \/ Kill \/ List \/ Listed \/ Crash
    <3>1. LaunchRequest => (token => token')
      BY DEF LaunchRequest
    <3> QED  BY <2>8, <3>1 DEF Kill, List, Listed, Crash, stored
  <2>9. CASE WriteState \/ ProcessExits \/ CloudRefuses
    BY <2>9 DEF WriteState, ProcessExits, CloudRefuses, stored
  <2> HIDE DEF Kept
  <2> QED
    BY <1>1, <2>2, <2>3, <2>4, <2>5, <2>6, <2>7, <2>8, <2>9 DEF Next, Progress
<1> QED  BY <1>1, LoopInvariant, PTL DEF Spec, RetryKeepsToken

=============================================================================
