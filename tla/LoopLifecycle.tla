--------------------------- MODULE LoopLifecycle ---------------------------
(***************************************************************************)
(* One loop from its launch to its last record: the detached process, the  *)
(* job that describes it (JobStore), and everybody who may end that job:   *)
(* the exit handler of the launch, the heartbeats, the kill request, the   *)
(* job list of the window, and after a restart the boot recovery.  Jobs,   *)
(* tokens, timers and maps are all keyed by the loop id, so one loop       *)
(* stands for all.                                                         *)
(*                                                                         *)
(* An action runs to the next await that waits for the cloud, for git, for *)
(* the process or for the window's files; other reads of local files are   *)
(* part of the step they are in.  A crash falls between two actions, or    *)
(* between the two writes of a job that an action moved to the recent ones.*)
(* The loop is an EXECUTE loop: its completion has the most steps.         *)
(*                                                                         *)
(* Left out: a second launch of the same loop, jobs that were queued and   *)
(* never got a process, support bundles, worktrees, the additional         *)
(* repositories and the telemetry.                                         *)
(***************************************************************************)
EXTENDS Naturals

CONSTANTS
  Beats,                 \* heartbeats that may be in flight at a time
  StateStatuses,         \* what its state.json may say, RUNNING for IN_PROGRESS
  MaxRecoveryAttempts,
  MaxBoots,              \* bound: starts of the application
  MaxKills               \* bound: kill requests

ASSUME BootsAssumption == MaxBoots \in Nat \ {0}
ASSUME KillsAssumption == MaxKills \in Nat
ASSUME RecoveryAssumption == MaxRecoveryAttempts \in Nat \ {0}
ASSUME StateAssumption ==
  StateStatuses \subseteq {"RUNNING", "AWAITING_USER", "COMPLETED", "FAILED",
                           "CANCELLED", "STOPPED"}
ASSUME BeatsAssumption == Beats \cap {"exit", "dead", "watch"} = {}

VARIABLES
  proc,      \* the process: none, alive or exited; it survives the application
  outcome,   \* how it exited: failed (code # 0), done, or idle (0, no work)
  state,     \* the status in its state.json, "none" without one
  cloud,     \* the loop in the cloud: live, gone (it answers terminally), or
             \* live with its token, expired or revoked, rejected
  verdict,   \* the final event the cloud accepted: none, completed, error, or
             \* cancelled (also for an error that blames the git credentials)
  phase,     \* of the application: down, booting or serving
  boots, kills,
  jobs,      \* the job among the active and among the recent ones
  disk,      \* the recent job as the last completed write left it
  torn,      \* a crash fell between the two writes
  token,     \* the loop token is in its store
  entry,     \* runningLoops
  launch,    \* await of the launch request
  child,     \* the exit of the child process is still to be delivered
  pending,   \* pendingLoopExits
  beating,   \* the heartbeat timer is set
  muted,     \* the heartbeat endpoint answered 404 once
  watching,  \* the interval that watches a recovered process is set
  fin,       \* await and job read before it, of each finalizer
  kill,      \* await of the kill request, and the job it read
  list       \* await of the job list, the job it read, was it running

external == <<proc, outcome, state, cloud, verdict>>
stored   == <<jobs, disk, torn, token>>
handles  == <<entry, child, pending, beating, muted, watching>>
vars == <<external, phase, boots, kills, stored, handles, launch, fin, kill,
          list>>

Terminal == {"COMPLETED", "FAILED", "CANCELLED", "STOPPED", "UNKNOWN",
             "TIMED_OUT"}
Status   == Terminal \cup {"RUNNING", "AWAITING_USER", "CANCEL_PENDING"}
Errors   == {"none", "retryable", "fatal"}

(***************************************************************************)
(* LocalJob.  exit: exitCode is set; pushed: executeFinalizationStatus;    *)
(* persisted: finalStatusPersistedAt; posted: completedEventPostedAt;      *)
(* final: cloudFinalizedAt; error: lastRecoveryError.                      *)
(***************************************************************************)
Job == [status : Status, exit : BOOLEAN, pushed : BOOLEAN,
        persisted : BOOLEAN, posted : BOOLEAN, final : BOOLEAN,
        error : Errors, attempts : 0..MaxRecoveryAttempts]
NewJob == [status |-> "RUNNING", exit |-> FALSE, pushed |-> FALSE,
           persisted |-> FALSE, posted |-> FALSE, final |-> FALSE,
           error |-> "none", attempts |-> 0]
NoJob  == [NewJob EXCEPT !.status = "none"]

Finalizers == {"exit", "dead", "watch"} \cup Beats
Idle == [pc |-> "idle", job |-> NoJob]

-----------------------------------------------------------------------------
(* JobStore.                                                               *)

\* A terminal job leaves the active ones; a job that is not stays among the
\* recent ones if it was there.
Upsert(js, j) ==
  IF j.status \in Terminal
  THEN [active |-> NoJob, terminal |-> j]
  ELSE [js EXCEPT !.active = j]

GetByLoopId(js) == IF js.active # NoJob THEN js.active ELSE js.terminal

\* jobStore.getByLoopId(loopId) ?? job
Current(js, j) == IF GetByLoopId(js) = NoJob THEN j ELSE GetByLoopId(js)

Awake == /\ phase # "down"
         /\ disk = jobs.terminal

\* The second of the two writes of persist().
Save ==
  /\ phase # "down"
  /\ disk # jobs.terminal
  /\ disk' = jobs.terminal
  /\ UNCHANGED <<external, phase, boots, kills, jobs, torn, token, handles,
                 launch, fin, kill, list>>

-----------------------------------------------------------------------------
(* The cloud: what a final event meets.                                    *)

Ended == cloud = "gone" \/ verdict # "none"

\* 401, 404 and 410 alike: nobody asks for a new token on a heartbeat.
Refused == Ended \/ cloud = "rejects"

\* A launched loop falls back to the token it was launched with.
HasToken == token \/ launch \in {"writing", "done"}

(***************************************************************************)
(* The artifacts and then the final event: accepted by the cloud or not,   *)
(* known to be (posted) or not, and the error of the pair.  A loop has one *)
(* final event; another is refused, or answered as if it were new.  An     *)
(* event that was posted before is not sent again, its artifacts may be.   *)
(* A status under 500 but 429 is fatal, of a live loop too.  Without       *)
(* a token nothing is asked, which is worth a retry.                       *)
(***************************************************************************)
Outcomes(event, posted) ==
  {o \in [accepted : BOOLEAN, posted : BOOLEAN, error : Errors] :
     /\ o.posted => ~posted /\ HasToken /\ (o.accepted \/ verdict # "none")
     /\ o.accepted => ~posted /\ HasToken /\ ~Ended
     /\ o.accepted /\ ~o.posted => o.error = "retryable"
     /\ o.posted /\ o.error # "none" => event = "completed"
     /\ posted /\ o.error # "none" => event = "completed"
     /\ o.error = "none" => o.posted \/ posted
     /\ o.error = "fatal" => HasToken}

Accept(event, o) ==
  /\ verdict' = IF o.accepted THEN event ELSE verdict
  /\ UNCHANGED <<proc, outcome, state, cloud>>

-----------------------------------------------------------------------------
(* finalizeLoopFromRuntime.                                                *)

Success(j)  == j.status \in {"COMPLETED", "RUNNING"}
HasEvent(j) == Success(j) \/ j.status \in {"FAILED", "STOPPED", "UNKNOWN"}

\* success was decided before the job that is written was read again.
PersistFinal(js, j, success) ==
  IF j.persisted
  THEN js
  ELSE Upsert(js, [Current(js, j) EXCEPT
                     !.status = IF success THEN "COMPLETED" ELSE j.status,
                     !.exit = TRUE, !.persisted = TRUE])

\* The status to finalize: a dead process's state.json, and no work is failure.
Resolve(j, live) ==
  LET confirmed == IF j.status = "CANCEL_PENDING" THEN "CANCELLED" ELSE j.status
      derived == IF confirmed = "RUNNING" /\ ~live
                 THEN IF state \in Terminal THEN state ELSE "FAILED"
                 ELSE confirmed
  IN  [j EXCEPT !.status =
         IF derived \in {"COMPLETED", "RUNNING"} /\ outcome = "idle"
         THEN "FAILED" ELSE derived]

MutantRecorded(js, j, error) ==
  Upsert(js, [Current(js, j) EXCEPT !.final = TRUE, !.error = error])

\* What is recorded of the cloud's answer.
Recorded(js, j, error) ==
  Upsert(js, [Current(js, j) EXCEPT !.final = @ \/ error = "none",
                                    !.error = error])

MutantRelease(kept, error) ==
  /\ token' = FALSE
  /\ beating' = FALSE

\* Only an error worth a retry keeps the token, as it is now, and the timers.
Release(kept, error) ==
  /\ token' = (kept /\ error = "retryable")
  /\ beating' = (beating /\ error = "retryable")

(***************************************************************************)
(* Up to the first await.  The job was read by the caller, who changed the *)
(* store to js and the token to kept since.                                *)
(***************************************************************************)
BeginFinalize(f, j, js, kept) ==
  LET live == f = "exit"
      resolved == Resolve(j, live)
      persisted == IF live THEN js ELSE PersistFinal(js, resolved, Success(resolved))
      latest == IF live THEN resolved ELSE Current(persisted, resolved)
      event == IF Success(resolved) THEN "completed" ELSE "error"
      next == IF event = "completed" /\ ~latest.pushed
              THEN "pushing" ELSE event
  IN IF j.status = "CANCEL_PENDING" /\ proc = "alive"
     THEN /\ jobs' = js
          /\ fin' = [fin EXCEPT ![f] = Idle]
          /\ token' = kept
          /\ UNCHANGED beating
     ELSE IF HasEvent(resolved)
     THEN /\ jobs' = persisted
          /\ fin' = [fin EXCEPT ![f] = [pc |-> next, job |-> latest]]
          /\ token' = kept
          /\ UNCHANGED beating
     ELSE /\ LET recorded == Recorded(persisted, latest, "none")
             IN  jobs' = IF live THEN PersistFinal(recorded, latest, FALSE)
                         ELSE recorded
          /\ fin' = [fin EXCEPT ![f] = Idle]
          /\ Release(kept, "none")

\* runExecuteFinalization is over, pushed or in error.  The exit gets here when
\* its own git step failed: it is tried once more.
Pushed(f) ==
  /\ Awake
  /\ fin[f].pc = "pushing"
  /\ \E pushed \in BOOLEAN :
       LET js == Upsert(jobs, [Current(jobs, fin[f].job) EXCEPT
                                 !.pushed = @ \/ pushed])
       IN  /\ jobs' = js
           /\ fin' = [fin EXCEPT ![f] =
                        [pc |-> "completed", job |-> Current(js, fin[f].job)]]
  /\ UNCHANGED <<external, phase, boots, kills, disk, torn, token, handles,
                 launch, kill, list>>

\* Boot recovery gives a loop up after its last attempt.
GivesUp(f, js, error) ==
  /\ f = "dead"
  /\ error = "retryable"
  /\ GetByLoopId(js).attempts >= MaxRecoveryAttempts

(***************************************************************************)
(* The answer to the artifacts and the final event, and the rest of the    *)
(* finalization.  A heartbeat that finalized stops the timer in any case.  *)
(***************************************************************************)
Answered(f) ==
  LET event == fin[f].pc
      job == fin[f].job
  IN
  /\ Awake
  /\ event \in {"completed", "error"}
  /\ \E o \in Outcomes(event, job.posted) :
       LET noted == IF o.posted
                    THEN Upsert(jobs, [Current(jobs, job) EXCEPT !.posted = TRUE])
                    ELSE jobs
           recorded == Recorded(noted, job, o.error)
           final == IF f = "exit"
                    THEN PersistFinal(recorded, job, event = "completed")
                    ELSE recorded
       IN  /\ Accept(event, o)
           /\ IF GivesUp(f, final, o.error)
              THEN /\ jobs' = Upsert(final, [Current(final, job) EXCEPT
                                               !.final = TRUE])
                   /\ token' = FALSE
                   /\ UNCHANGED beating
              ELSE /\ jobs' = final
                   /\ IF f \in Beats
                      THEN /\ beating' = FALSE
                           /\ token' = (token /\ o.error = "retryable")
                      ELSE Release(token, o.error)
  /\ fin' = [fin EXCEPT ![f] = Idle]
  /\ UNCHANGED <<phase, boots, kills, disk, torn, entry, child, pending, muted,
                 watching, launch, kill, list>>

-----------------------------------------------------------------------------
(* Heartbeats.                                                             *)

Heartbeat(b) ==
  /\ Awake
  /\ beating
  /\ ~muted
  /\ fin[b].pc = "idle"
  /\ fin' = [fin EXCEPT ![b].pc = "waiting"]
  /\ UNCHANGED <<external, phase, boots, kills, stored, handles, launch, kill,
                 list>>

\* The loop is live, with a new token if it had to be revived; or the answer
\* says nothing.
HeartbeatAlive(b) ==
  /\ Awake
  /\ fin[b].pc = "waiting"
  /\ token' \in IF cloud = "live" THEN {token, TRUE} ELSE {token}
  /\ fin' = [fin EXCEPT ![b] = Idle]
  /\ UNCHANGED <<external, phase, boots, kills, jobs, disk, torn, handles,
                 launch, kill, list>>

MutantHeartbeatFinalize(b) ==
  LET job == GetByLoopId(jobs)
      js == Upsert(jobs, [job EXCEPT !.status = "UNKNOWN"])
  IN  IF job = NoJob
      THEN /\ fin' = [fin EXCEPT ![b] = Idle]
           /\ beating' = FALSE
           /\ UNCHANGED <<jobs, token>>
      ELSE BeginFinalize(b, GetByLoopId(js), js, token)

\* makeHeartbeatFinalizeFn behind the guard for a process that is alive.
HeartbeatFinalize(b) ==
  LET job == GetByLoopId(jobs)
      js == Upsert(jobs, [job EXCEPT !.status = "UNKNOWN"])
  IN  IF job = NoJob
      THEN /\ fin' = [fin EXCEPT ![b] = Idle]
           /\ beating' = FALSE
           /\ UNCHANGED <<jobs, token>>
      ELSE IF proc = "alive"
      THEN /\ fin' = [fin EXCEPT ![b] = Idle]
           /\ UNCHANGED <<jobs, token, beating>>
      ELSE BeginFinalize(b, GetByLoopId(js), js, token)

\* A terminal answer (401, 404, 410); the 404 mutes the endpoint first.
HeartbeatTerminal(b) ==
  /\ Awake
  /\ fin[b].pc = "waiting"
  /\ Refused
  /\ muted' \in {muted, TRUE}
  /\ HeartbeatFinalize(b)
  /\ UNCHANGED <<external, phase, boots, kills, disk, torn, entry, child,
                 pending, watching, launch, kill, list>>

-----------------------------------------------------------------------------
(* The launch.                                                             *)

\* The request claims the loop id, stores the token if it can, and prepares.
LaunchRequest ==
  /\ Awake
  /\ phase = "serving"
  /\ entry = "none"
  /\ proc = "none"
  /\ launch = "none"
  /\ entry' = "sentinel"
  /\ token' \in {token, TRUE}
  /\ launch' = "preparing"
  /\ UNCHANGED <<external, phase, boots, kills, jobs, disk, torn, child,
                 pending, beating, muted, watching, fin, kill, list>>

Spawn ==
  /\ Awake
  /\ launch = "preparing"
  /\ proc' = "alive"
  /\ child' = TRUE
  /\ pending' = TRUE
  /\ entry' = "spawned"
  /\ jobs' = Upsert(jobs, NewJob)
  /\ launch' = "writing"
  /\ UNCHANGED <<outcome, state, cloud, verdict, phase, boots, kills, disk,
                 torn, token, beating, muted, watching, fin, kill, list>>

SpawnFails ==
  /\ Awake
  /\ launch = "preparing"
  /\ entry' = "none"
  /\ token' = FALSE
  /\ launch' = "failed"
  /\ UNCHANGED <<external, phase, boots, kills, jobs, disk, torn, child,
                 pending, beating, muted, watching, fin, kill, list>>

\* The pid file is written; the timers start whatever happened meanwhile.
StartTimers ==
  /\ Awake
  /\ launch = "writing"
  /\ launch' = "done"
  /\ beating' = TRUE
  /\ UNCHANGED <<external, phase, boots, kills, stored, entry, child, pending,
                 muted, watching, fin, kill, list>>

-----------------------------------------------------------------------------
(* The exit handler of the launch (onceComplete, handleProcessCompletion). *)

\* The exit code claims the job before the exit stops being pending.
Exit ==
  /\ Awake
  /\ child
  /\ proc = "exited"
  /\ child' = FALSE
  /\ pending' = FALSE
  /\ jobs' = IF GetByLoopId(jobs) = NoJob THEN jobs
             ELSE Upsert(jobs, [GetByLoopId(jobs) EXCEPT !.exit = TRUE])
  /\ fin' = [fin EXCEPT !["exit"].pc = "flushing"]
  /\ UNCHANGED <<external, phase, boots, kills, disk, torn, token, entry,
                 beating, muted, watching, launch, kill, list>>

IsCancelled == GetByLoopId(jobs).status \in {"CANCEL_PENDING", "CANCELLED"}

\* A cancellation gate that is taken; the entry goes with it.
ExitCancelled ==
  /\ jobs' = Upsert(jobs, [GetByLoopId(jobs) EXCEPT !.status = "CANCELLED"])
  /\ fin' = [fin EXCEPT !["exit"] = Idle]
  /\ entry' = "none"
  /\ Release(token, "none")

\* The output is flushed: on to the failure or to git.
ExitFlushed ==
  /\ Awake
  /\ fin["exit"].pc = "flushing"
  /\ IF outcome = "failed"
     THEN /\ entry' = "none"
          /\ fin' = [fin EXCEPT !["exit"] =
                       [pc |-> "failing", job |-> GetByLoopId(jobs)]]
          /\ UNCHANGED <<jobs, token, beating>>
     ELSE IF IsCancelled
     THEN ExitCancelled
     ELSE /\ fin' = [fin EXCEPT !["exit"].pc = "git"]
          /\ UNCHANGED <<jobs, token, beating, entry>>
  /\ UNCHANGED <<external, phase, boots, kills, disk, torn, child, pending,
                 muted, watching, launch, kill, list>>

(***************************************************************************)
(* The failure was uploaded and posted: FAILED, or CANCELLED if the cancel *)
(* came before the upload.                                                 *)
(***************************************************************************)
ExitFailed ==
  LET known == fin["exit"].job
      cancelled == known.status \in {"CANCEL_PENDING", "CANCELLED"}
  IN
  /\ Awake
  /\ fin["exit"].pc = "failing"
  /\ \E o \in Outcomes("error", FALSE) :
       LET answered == [Current(jobs, known) EXCEPT
                          !.posted = @ \/ o.posted,
                          !.final = @ \/ o.posted,
                          !.error = o.error,
                          !.status = IF cancelled THEN "CANCELLED" ELSE "FAILED",
                          !.exit = TRUE,
                          !.persisted = @ \/ ~cancelled]
       IN  /\ Accept(IF cancelled THEN "cancelled" ELSE "error", o)
           /\ jobs' = IF known = NoJob THEN jobs ELSE Upsert(jobs, answered)
           /\ token' = (token /\ ~cancelled /\ o.error = "retryable")
  /\ beating' = FALSE
  /\ fin' = [fin EXCEPT !["exit"] = Idle]
  /\ UNCHANGED <<phase, boots, kills, disk, torn, entry, child, pending, muted,
                 watching, launch, kill, list>>

\* Git is done: the gate again, and the finalization in the same step.
ExitPushed(pushed) ==
  IF IsCancelled
  THEN ExitCancelled
  ELSE /\ entry' = "none"
       /\ LET js == Upsert(jobs, [GetByLoopId(jobs) EXCEPT !.pushed = @ \/ pushed])
          IN  BeginFinalize("exit", GetByLoopId(js), js, token)

ExitGit ==
  /\ Awake
  /\ fin["exit"].pc = "git"
  /\ \E pushed \in BOOLEAN : ExitPushed(pushed)
  /\ UNCHANGED <<external, phase, boots, kills, disk, torn, child, pending,
                 muted, watching, launch, kill, list>>

\* Git asked for credentials: an error is posted.
ExitChallenge ==
  /\ Awake
  /\ fin["exit"].pc = "git"
  /\ ~IsCancelled
  /\ entry' = "none"
  /\ fin' = [fin EXCEPT !["exit"].pc = "challenged"]
  /\ UNCHANGED <<external, phase, boots, kills, stored, child, pending,
                 beating, muted, watching, launch, kill, list>>

\* Whatever became of that error, the job failed and the token is deleted.
ExitChallenged ==
  /\ Awake
  /\ fin["exit"].pc = "challenged"
  /\ \E o \in Outcomes("error", FALSE) : Accept("cancelled", o)
  /\ jobs' = IF GetByLoopId(jobs) = NoJob THEN jobs
             ELSE Upsert(jobs, [GetByLoopId(jobs) EXCEPT !.status = "FAILED",
                                                         !.persisted = TRUE])
  /\ fin' = [fin EXCEPT !["exit"] = Idle]
  /\ Release(token, "none")
  /\ UNCHANGED <<phase, boots, kills, disk, torn, entry, child, pending, muted,
                 watching, launch, kill, list>>

\* The completion handler threw: the safety net of onceComplete.
ExitThrows ==
  /\ Awake
  /\ fin["exit"].pc \in {"git", "pushing"}
  /\ entry' = "none"
  /\ jobs' = IF GetByLoopId(jobs).status = "RUNNING"
             THEN Upsert(jobs, [GetByLoopId(jobs) EXCEPT !.status = "FAILED"])
             ELSE jobs
  /\ fin' = [fin EXCEPT !["exit"] = Idle]
  /\ UNCHANGED <<external, phase, boots, kills, disk, torn, token, child,
                 pending, beating, muted, watching, launch, kill, list>>

-----------------------------------------------------------------------------
(* The kill request (handleLoopKill).                                      *)

MutantKillEntry ==
  /\ entry \in {"spawned", "recovered"}
  /\ kill' = [pc |-> "entry", job |-> NoJob]
  /\ UNCHANGED <<jobs, entry, pending>>

\* A loop that runs here: the job is cancelled before the signal is sent.
KillEntry ==
  /\ entry \in {"spawned", "recovered"}
  /\ jobs' = IF GetByLoopId(jobs) = NoJob THEN jobs
             ELSE Upsert(jobs, [GetByLoopId(jobs) EXCEPT
                                  !.status = "CANCEL_PENDING"])
  /\ IF proc = "alive"
     THEN /\ kill' = [pc |-> "entry", job |-> NoJob]
          /\ UNCHANGED <<entry, pending>>
     ELSE /\ entry' = "none"
          /\ pending' = FALSE
          /\ UNCHANGED kill

\* A loop of an earlier run of the application, by the pid of its job.
KillByPid ==
  /\ entry = "none"
  /\ GetByLoopId(jobs) # NoJob
  /\ IF proc = "alive"
     THEN /\ kill' = [pc |-> "pid", job |-> GetByLoopId(jobs)]
          /\ UNCHANGED jobs
     ELSE /\ jobs' = Upsert(jobs, [GetByLoopId(jobs) EXCEPT
                                     !.status = "CANCELLED"])
          /\ UNCHANGED kill
  /\ UNCHANGED <<entry, pending>>

Kill ==
  /\ Awake
  /\ phase = "serving"
  /\ kills < MaxKills
  /\ kill = Idle
  /\ kills' = kills + 1
  /\ KillEntry \/ KillByPid
  /\ UNCHANGED <<external, phase, boots, disk, torn, token, child, beating,
                 muted, watching, launch, fin, list>>

\* After the grace period the process is killed, if it is still there.
KillEnds ==
  /\ Awake
  /\ kill # Idle
  /\ proc' = IF proc = "alive" THEN "exited" ELSE proc
  /\ outcome' = IF proc = "alive" THEN "failed" ELSE outcome
  /\ IF kill.pc = "entry"
     THEN /\ entry' = "none"
          /\ pending' = FALSE
          /\ UNCHANGED jobs
     ELSE /\ jobs' = Upsert(jobs, [kill.job EXCEPT !.status = "CANCEL_PENDING"])
          /\ UNCHANGED <<entry, pending>>
  /\ kill' = Idle
  /\ UNCHANGED <<state, cloud, verdict, phase, boots, kills, disk, torn, token,
                 child, beating, muted, watching, launch, fin, list>>

-----------------------------------------------------------------------------
(* The job list of the window (desktop:list-running-jobs).                 *)

\* It looks at the process and then reads the job's files.
List ==
  /\ Awake
  /\ list.pc = "idle"
  /\ jobs.active # NoJob
  /\ list' = [pc |-> "reading", job |-> jobs.active, running |-> proc = "alive"]
  /\ UNCHANGED <<external, phase, boots, kills, stored, handles, launch, fin,
                 kill>>

\* enrichJobSnapshot
Snapshot ==
  LET ended(status) == status \in Terminal
      status == IF state # "none" /\ ~ended(list.job.status)
                   /\ (list.running => ~ended(state))
                THEN state ELSE list.job.status
  IN  IF list.running \/ ended(status) THEN status
      ELSE IF status = "CANCEL_PENDING" THEN "CANCELLED"
      ELSE IF pending THEN status ELSE "STOPPED"

MutantClaimed(job) == FALSE
Claimed(job) == job.exit

\* A job that ended unseen is ended here, unless its exit handler claimed it.
Listed ==
  /\ Awake
  /\ list.pc = "reading"
  /\ LET job == GetByLoopId(jobs)
     IN jobs' = IF /\ Snapshot \in Terminal
                   /\ job # NoJob
                   /\ job.status \notin Terminal
                   /\ ~Claimed(job)
                THEN Upsert(jobs, [job EXCEPT !.status = Snapshot])
                ELSE jobs
  /\ list' = [pc |-> "idle", job |-> NoJob, running |-> FALSE]
  /\ UNCHANGED <<external, phase, boots, kills, disk, torn, token, handles,
                 launch, fin, kill>>

-----------------------------------------------------------------------------
(* A crash, and the boot after it.                                         *)

MutantReconcile(js) ==
  IF js.active = NoJob \/ proc = "alive"
  THEN js
  ELSE Upsert(js, [js.active EXCEPT !.status = state])

\* reconcileJobStore: only the job of a dead process changes.
Reconcile(js) ==
  IF js.active = NoJob \/ proc = "alive"
  THEN js
  ELSE Upsert(js, [js.active EXCEPT !.status =
         IF state \notin {"none", "RUNNING"} THEN state
         ELSE IF @ = "CANCEL_PENDING" THEN "CANCELLED" ELSE "UNKNOWN"])

\* markRecoveryGiveUp
GiveUp(js) == Upsert(js, [GetByLoopId(js) EXCEPT !.final = TRUE])

(***************************************************************************)
(* startDeadJobFinalization with the jobs that the boot found dead: those  *)
(* and the recent ones that were never finalized in the cloud.             *)
(***************************************************************************)
BeginDead(js, reconciled) ==
  LET candidate == js.terminal
      job == GetByLoopId(js)
  IN IF /\ candidate # NoJob
        /\ reconciled \/ candidate.persisted
        /\ ~candidate.final
        /\ candidate.attempts < MaxRecoveryAttempts
     THEN IF job.attempts >= MaxRecoveryAttempts
          THEN /\ jobs' = GiveUp(js)
               /\ token' = FALSE
               /\ fin' = fin
          ELSE /\ jobs' = js
               /\ fin' = IF token
                         THEN [fin EXCEPT !["dead"] =
                                 [pc |-> "reconciling", job |-> job]]
                         ELSE fin
               /\ UNCHANGED token
     ELSE /\ jobs' = js
          /\ UNCHANGED <<token, fin>>

Down == /\ entry' = "none"
        /\ child' = FALSE
        /\ pending' = FALSE
        /\ beating' = FALSE
        /\ muted' = FALSE
        /\ watching' = FALSE
        /\ launch' = "none"
        /\ fin' = [f \in Finalizers |-> Idle]
        /\ kill' = Idle
        /\ list' = [pc |-> "idle", job |-> NoJob, running |-> FALSE]

Crash ==
  /\ phase # "down"
  /\ boots < MaxBoots
  /\ phase' = "down"
  /\ jobs' = [jobs EXCEPT !.terminal = disk]
  /\ torn' = (torn \/ disk # jobs.terminal)
  /\ Down
  /\ UNCHANGED <<external, boots, kills, disk, token>>

\* The jobs are reconciled; a live one with a token is looked at next.
Boot ==
  LET js == Reconcile(jobs)
      alive == js.active # NoJob /\ proc = "alive"
  IN
  /\ phase = "down"
  /\ boots' = boots + 1
  /\ IF alive /\ token
     THEN /\ phase' = "booting"
          /\ jobs' = js
          /\ UNCHANGED <<token, fin>>
     ELSE /\ phase' = "serving"
          /\ BeginDead(js, js.terminal # jobs.terminal)
  /\ UNCHANGED <<external, kills, disk, torn, handles, launch, kill, list>>

-----------------------------------------------------------------------------
(* Boot recovery of a live job (reattachLiveJob).                          *)

\* Other jobs came first: the process may have exited since.
Reattach ==
  /\ Awake
  /\ phase = "booting"
  /\ fin["watch"].pc = "idle"
  /\ IF proc = "alive"
     THEN /\ fin' = [fin EXCEPT !["watch"] =
                       [pc |-> "reattaching", job |-> GetByLoopId(jobs)]]
          /\ UNCHANGED phase
     ELSE /\ fin' = [fin EXCEPT !["watch"].pc = "flushing"]
          /\ phase' = "serving"
  /\ UNCHANGED <<external, boots, kills, stored, handles, launch, kill, list>>

MutantReattached ==
  /\ entry' = "recovered"
  /\ beating' = TRUE
  /\ UNCHANGED watching

\* The loop is live, or the cloud cannot be asked: timers and a watcher.
Reattached ==
  /\ entry' = "recovered"
  /\ beating' = TRUE
  /\ watching' = TRUE

ReattachLive ==
  /\ Awake
  /\ fin["watch"].pc = "reattaching"
  /\ Reattached
  /\ phase' = "serving"
  /\ fin' = [fin EXCEPT !["watch"] = Idle]
  /\ UNCHANGED <<external, boots, kills, stored, child, pending, muted, launch,
                 kill, list>>

\* finalizeAsTerminal
Terminated(js, j, status) ==
  Upsert(js, [Current(js, j) EXCEPT !.status = status, !.final = TRUE])

\* The cloud ended the loop: so does the desktop, and lets the process be.
ReattachEnded ==
  /\ Awake
  /\ fin["watch"].pc = "reattaching"
  /\ Refused
  /\ \E status \in {"TIMED_OUT", "UNKNOWN"} :
       jobs' = Terminated(jobs, fin["watch"].job, status)
  /\ token' = FALSE
  /\ phase' = "serving"
  /\ fin' = [fin EXCEPT !["watch"] = Idle]
  /\ UNCHANGED <<external, boots, kills, disk, torn, handles, launch, kill,
                 list>>

\* The interval of a reattached loop sees the process gone.
Watch ==
  /\ Awake
  /\ watching
  /\ proc = "exited"
  /\ fin["watch"].pc = "idle"
  /\ watching' = FALSE
  /\ entry' = "none"
  /\ pending' = FALSE
  /\ beating' = FALSE
  /\ fin' = [fin EXCEPT !["watch"].pc = "flushing"]
  /\ UNCHANGED <<external, phase, boots, kills, stored, child, muted, launch,
                 kill, list>>

\* finalizeRecoveredJob, its output flushed.
Watched ==
  /\ Awake
  /\ fin["watch"].pc = "flushing"
  /\ IF GetByLoopId(jobs) = NoJob
     THEN /\ fin' = [fin EXCEPT !["watch"] = Idle]
          /\ UNCHANGED <<jobs, token, beating>>
     ELSE BeginFinalize("watch", GetByLoopId(jobs), jobs, token)
  /\ UNCHANGED <<external, phase, boots, kills, disk, torn, entry, child,
                 pending, muted, watching, launch, kill, list>>

-----------------------------------------------------------------------------
(* Boot recovery of a dead job (finalizeDeadJobs).                         *)

\* The cloud says that the loop timed out: recorded, and nothing is sent.
DeadTimedOut ==
  /\ Awake
  /\ fin["dead"].pc = "reconciling"
  /\ Ended
  /\ jobs' = Terminated(jobs, fin["dead"].job, "TIMED_OUT")
  /\ token' = FALSE
  /\ fin' = [fin EXCEPT !["dead"] = Idle]
  /\ UNCHANGED <<external, phase, boots, kills, disk, torn, handles, launch,
                 kill, list>>

(***************************************************************************)
(* Any other answer.  A loop that ended is recorded so and loses its token *)
(* first; then the job that was read before the answer is written back,    *)
(* with one more attempt, and finalized.                                   *)
(***************************************************************************)
DeadReconciled ==
  LET job == fin["dead"].job
      again == [job EXCEPT !.attempts = @ + 1]
  IN
  /\ Awake
  /\ fin["dead"].pc = "reconciling"
  /\ \/ BeginFinalize("dead", job, Upsert(jobs, again), token)
     \/ /\ Refused
        /\ BeginFinalize("dead", job,
             Upsert(Terminated(jobs, job, "UNKNOWN"), again), FALSE)
  /\ UNCHANGED <<external, phase, boots, kills, disk, torn, entry, child,
                 pending, muted, watching, launch, kill, list>>

-----------------------------------------------------------------------------
(* The process and the cloud.                                              *)

WriteState ==
  /\ proc = "alive"
  /\ state \in {"none", "RUNNING"}
  /\ state' \in StateStatuses \ {state}
  /\ UNCHANGED <<proc, outcome, cloud, verdict, phase, boots, kills, stored,
                 handles, launch, fin, kill, list>>

ProcessExits ==
  /\ proc = "alive"
  /\ proc' = "exited"
  /\ outcome' \in {"failed", "done", "idle"}
  /\ UNCHANGED <<state, cloud, verdict, phase, boots, kills, stored, handles,
                 launch, fin, kill, list>>

\* A loop that has its final event may be refused already.
CloudRefuses ==
  /\ cloud = "live"
  /\ ~Ended
  /\ cloud' \in {"gone", "rejects"}
  /\ UNCHANGED <<proc, outcome, state, verdict, phase, boots, kills, stored,
                 handles, launch, fin, kill, list>>

-----------------------------------------------------------------------------

Init ==
  /\ proc = "none"
  /\ outcome = "none"
  /\ state = "none"
  /\ cloud = "live"
  /\ verdict = "none"
  /\ phase = "serving"
  /\ boots = 1
  /\ kills = 0
  /\ jobs = [active |-> NoJob, terminal |-> NoJob]
  /\ disk = NoJob
  /\ torn = FALSE
  /\ token = FALSE
  /\ entry = "none"
  /\ launch = "none"
  /\ child = FALSE
  /\ pending = FALSE
  /\ beating = FALSE
  /\ muted = FALSE
  /\ watching = FALSE
  /\ fin = [f \in Finalizers |-> Idle]
  /\ kill = Idle
  /\ list = [pc |-> "idle", job |-> NoJob, running |-> FALSE]

ExitStep == \/ Exit \/ ExitFlushed \/ ExitFailed \/ ExitGit \/ ExitChallenge
            \/ ExitChallenged \/ ExitThrows

RecoveryStep == \/ Boot \/ Reattach \/ ReattachLive \/ ReattachEnded
                \/ Watch \/ Watched \/ DeadTimedOut \/ DeadReconciled

BeatStep(b) == HeartbeatAlive(b) \/ HeartbeatTerminal(b)

LaunchStep == Spawn \/ SpawnFails \/ StartTimers

(***************************************************************************)
(* What was awaited is answered (the requests have timeouts), a process    *)
(* that exited is noticed, and an application that crashed is started      *)
(* again.  Nothing makes a process exit, a user kill or a window list, and *)
(* no heartbeat is needed.                                                 *)
(***************************************************************************)
Progress == \/ Save \/ LaunchStep \/ ExitStep \/ RecoveryStep \/ KillEnds
            \/ \E f \in Finalizers : Pushed(f) \/ Answered(f)

Next == \/ Progress \/ LaunchRequest
        \/ \E b \in Beats : Heartbeat(b) \/ BeatStep(b)
        \/ Kill \/ List \/ Listed \/ Crash
        \/ WriteState \/ ProcessExits \/ CloudRefuses

Fairness == WF_vars(Progress)

Spec == Init /\ [][Next]_vars /\ Fairness

-----------------------------------------------------------------------------
(* Properties.                                                             *)

Pcs == {"idle", "waiting", "reattaching", "reconciling", "flushing", "failing",
        "git", "challenged", "pushing", "completed", "error"}
JobOrNone == Job \cup {NoJob}

\* Every variable stays within its type.
TypeOK ==
  /\ proc \in {"none", "alive", "exited"}
  /\ outcome \in {"none", "failed", "done", "idle"}
  /\ state \in StateStatuses \cup {"none"}
  /\ cloud \in {"live", "rejects", "gone"}
  /\ verdict \in {"none", "completed", "error", "cancelled"}
  /\ phase \in {"down", "booting", "serving"}
  /\ boots \in 1..MaxBoots /\ kills \in 0..MaxKills
  /\ jobs \in [active : JobOrNone, terminal : JobOrNone]
  /\ disk \in JobOrNone
  /\ entry \in {"none", "sentinel", "spawned", "recovered"}
  /\ launch \in {"none", "preparing", "writing", "done", "failed"}
  /\ {torn, token, child, pending, beating, muted, watching} \subseteq BOOLEAN
  /\ fin \in [Finalizers -> [pc : Pcs, job : JobOrNone]]
  /\ kill \in [pc : {"idle", "entry", "pid"}, job : JobOrNone]
  /\ list \in [pc : {"idle", "reading"}, job : JobOrNone, running : BOOLEAN]

TheJob == GetByLoopId(jobs)

(***************************************************************************)
(* A job is not recorded as ended while its process runs, whatever the     *)
(* heartbeats, the job list and the kill request find, unless the cloud    *)
(* had ended the loop when the desktop was started again: that loop is not *)
(* reattached.                                                             *)
(***************************************************************************)
RunningNotWrittenOff ==
  proc = "alive" /\ TheJob.status \in Terminal
    => TheJob.final /\ Refused /\ boots > 1

(***************************************************************************)
(* A process that did its work and exited with 0 is not reported as a      *)
(* failed one unless its state.json says so, whoever finds it gone first:  *)
(* the job list must leave it to the exit that is pending or claimed, and  *)
(* a heartbeat too.  (After a crash or a kill nobody knows how it exited.) *)
(***************************************************************************)
CleanExitIsNoError ==
  /\ outcome = "done" /\ state \notin {"FAILED", "STOPPED"}
  /\ boots = 1 /\ kills = 0 /\ cloud = "live"
  => verdict # "error"

(***************************************************************************)
(* A loop told to be running when it was killed is not then reported as    *)
(* completed, unless its own state.json says that it is.                   *)
(***************************************************************************)
CancelStopsCompletion ==
  kill.pc = "entry" /\ state # "COMPLETED" => fin["exit"].pc # "completed"

(***************************************************************************)
(* A job marked as finalized in the cloud is one whose loop the cloud has  *)
(* ended or given its final event, one without such an event, or one given *)
(* up after the last attempt.                                              *)
(***************************************************************************)
VerdictBehindFinal ==
  TheJob.final => \/ Refused
                  \/ TheJob.status \in {"CANCELLED", "AWAITING_USER",
                                         "CANCEL_PENDING"}
                  \/ TheJob.attempts = MaxRecoveryAttempts

(***************************************************************************)
(* The token of a loop is deleted only when no report of it is left to be  *)
(* retried: the next boot skips a job without one.  The report of a        *)
(* challenge by git is not retried at all.                                 *)
(***************************************************************************)
RetryKeepsToken ==
  [][token /\ ~token' => \/ TheJob'.final \/ Refused'
                         \/ TheJob'.status = "CANCELLED"
                         \/ TheJob'.error = "fatal"
                         \/ launch' = "failed"
                         \/ fin["exit"].pc = "challenged"]_vars

(***************************************************************************)
(* The job of a process that exited ends, for good, through crashes and    *)
(* whoever else writes it.  Left to the job list and the next boot: a job  *)
(* whose cancel met a completion handler that threw, and one that a boot   *)
(* found without a token.  Lost: one whose move between the two lists a    *)
(* crash cut in two.                                                       *)
(***************************************************************************)
Settled == \/ TheJob.status \in Terminal \cup {"AWAITING_USER"}
           \/ TheJob.status = "CANCEL_PENDING" /\ TheJob.exit
           \/ boots > 1 /\ ~token
           \/ TheJob = NoJob /\ torn

LoopSettles == proc = "exited" ~> []Settled

=============================================================================
