---------------------------- MODULE SessionSync ----------------------------
(***************************************************************************)
(* The agent session sync (AgentSessionSyncService), which copies the      *)
(* sessions of the local database to the relay: a cursor over updated_at,  *)
(* two queues, batches, chunks of a session that is too large for one, and *)
(* what becomes of a batch that is not accepted; with it the part of       *)
(* CloudSocketService that hands a batch to the relay or refuses it.       *)
(*                                                                         *)
(* A pass (syncOnce) runs from await to await.  A stop begins a new        *)
(* generation of the service's state, but a pass that is in an await goes  *)
(* on: it is the "old" pass here, beside the "own" one.  Sessions are      *)
(* numbers, as rows of equal time are listed by descending id.             *)
(***************************************************************************)
EXTENDS Integers, Sequences, FiniteSets, Functions

CONSTANTS
  Sessions,
  Oversized,            \* sessions that exceed SESSION_PAYLOAD_BYTE_CAP
  MaxChunks,            \* bound: chunks of one of these
  IncrementalBatch,     \* INCREMENTAL_SESSION_BATCH_SIZE
  BackfillBatch,        \* BACKFILL_SESSION_BATCH_SIZE
  MaxTimeouts,          \* MAX_CONSECUTIVE_TIMEOUTS
  MaxRateLimited,       \* MAX_CONSECUTIVE_RATE_LIMITED
  MaxClock,             \* bound: moments at which sessions change
  MaxEvents             \* bound: changes of sessions and stops of the service

ASSUME SyncAssumption ==
  /\ Sessions \subseteq Nat \ {0} /\ IsFiniteSet(Sessions)
  /\ Oversized \subseteq Sessions
  /\ {MaxChunks, IncrementalBatch, BackfillBatch, MaxTimeouts, MaxRateLimited}
       \subseteq Nat \ {0}
  /\ {MaxClock, MaxEvents} \subseteq Nat

VARIABLES
  rows,             \* updated_at of each session in the database, 0: no row
  clock,
  changes,          \* their number
  owed,             \* sessions whose present content the relay does not have
  excused,          \* of these, the ones the service will not come back to
  tainted,          \* a pass of before the last stop has written since
  relayReady,       \* online, and the relay supports the sync
  socketDisabled,   \* agentSessionsDisabledForSession of the cloud socket
  started,
  stops,
  timer,            \* the interval is set
  featureDisabled,  \* featureDisabledForRelaySession
  throttled,        \* an incremental batch was tried less than 30 s ago
  top,              \* observedTopUpdatedAt, 0: null
  topIds,           \* observedIdsAtTopUpdatedAt
  queue,            \* incrementalQueue and backfillQueue
  deferred,         \* sessions whose nextRetryAfterMs is to come
  timeouts,         \* timeoutCountById
  limited,          \* rateLimitedCountById
  pending,          \* pendingChunks
  pass              \* the own pass and the old one

source  == <<rows, clock, changes, owed>>
relay   == <<relayReady, socketDisabled>>
service == <<started, stops, timer, featureDisabled, throttled>>
cursor  == <<top, topIds>>
retries == <<deferred, timeouts, limited>>
forgone == <<excused, tainted>>
vars    == <<source, forgone, relay, service, cursor, queue, retries, pending, pass>>

Modes   == {"incremental", "backfill"}
Passes  == {"own", "old"}
Phases  == {"none", "listAll", "listNew", "load", "handing", "sent"}
Verdicts == {"accepted", "validation_failed", "feature_disabled", "ack_timeout",
             "rate_limited"}

NoChunks == [session |-> 0, mode |-> "backfill", left |-> 0, fresh |-> FALSE]

(***************************************************************************)
(* A pass: the cursor its query was given (from, seen), the batch (mode,   *)
(* ids), the sessions of it that have not changed since they were selected *)
(* (fresh), and those of which more chunks are to follow (part).           *)
(***************************************************************************)
NoPass == [phase |-> "none", from |-> 0, seen |-> {}, mode |-> "backfill",
           ids |-> <<>>, fresh |-> {}, part |-> {}]

Ids(q) == {q[i] : i \in DOMAIN q}
Known == {s \in Sessions : rows[s] > 0}
StampsOf(S) == {rows[s] : s \in S}
Latest(S) == CHOOSE t \in StampsOf(S) : \A u \in StampsOf(S) : u <= t

\* The members of S in the order \prec, one sequence if the order is total.
Arranged(S, _ \prec _) ==
  {f \in [1..Cardinality(S) -> S] :
     /\ Ids(f) = S
     /\ \A i, j \in DOMAIN f : i < j => f[i] \prec f[j]}

\* q without the members of R
Without(q, R) ==
  {[i \in DOMAIN f |-> q[f[i]]] : f \in Arranged({i \in DOMAIN q : q[i] \notin R}, <)}

\* ORDER BY updated_at DESC, id DESC
Listed(S) ==
  Arranged(S, LAMBDA a, b : rows[a] > rows[b] \/ (rows[a] = rows[b] /\ a > b))

-----------------------------------------------------------------------------
(* What the service still knows of a session.                              *)

IsQueued(s) == \E m \in Modes : s \in Ids(queue[m])

Ahead(s) == top = 0 \/ rows[s] > top \/ (rows[s] = top /\ s \notin topIds)

InBatch(s) == /\ pass["own"].phase \in {"load", "handing", "sent"}
              /\ s \in Ids(pass["own"].ids)

\* The cursor has yet to reach it, or its present content is being sent, or it
\* is to be sent again.
Tracked(s) ==
  \/ Ahead(s)
  \/ IF InBatch(s) THEN s \in pass["own"].fresh
     ELSE IF pending.session = s THEN pending.fresh
     ELSE IsQueued(s)

\* A batch is handed to the socket, which refuses it or sends it, before the
\* next event.
Handing == \E w \in Passes : pass[w].phase = "handing"

-----------------------------------------------------------------------------
(* The database.  Writes are stamped in the order in which they commit,    *)
(* but a session that is imported for the first time has the time at which *)
(* it ended.                                                               *)

Changed(s, t) ==
  /\ changes + stops < MaxEvents
  /\ changes' = changes + 1
  /\ rows' = [rows EXCEPT ![s] = t]
  /\ owed' = owed \cup {s}
  /\ pass' = [w \in Passes |-> [pass[w] EXCEPT !.fresh = @ \ {s}]]
  /\ pending' = [pending EXCEPT !.fresh = @ /\ pending.session # s]
  /\ UNCHANGED <<tainted, relay, service, cursor, queue, retries>>
  /\ excused' = IF Tracked(s)' THEN excused \ {s} ELSE excused \cup {s}

Write(s) ==
  /\ ~Handing
  /\ \E t \in 1..MaxClock :
       /\ t >= clock
       /\ t # rows[s]
       /\ clock' = t
       /\ Changed(s, t)

Import(s) ==
  /\ ~Handing
  /\ rows[s] = 0
  /\ UNCHANGED clock
  /\ \E t \in 1..clock : Changed(s, t)

-----------------------------------------------------------------------------
(* Passes.                                                                 *)

\* (The agent monitor is enabled while the service is started.  firstAckReceived
\* counts only without a relay, but the refresh that tells the service of its
\* loss clears it, and the timer.)
ShouldRun == relayReady /\ ~featureDisabled

(***************************************************************************)
(* syncOnce up to its first await: the next chunk of a session that is     *)
(* being sent in parts, or the queries.                                    *)
(***************************************************************************)
Begin ==
  IF pass["own"].phase # "none" THEN UNCHANGED <<pending, pass>>
  ELSE IF pending.left > 0
  THEN /\ pending' = IF pending.left = 1 THEN NoChunks
                     ELSE [pending EXCEPT !.left = @ - 1]
       /\ pass' = [pass EXCEPT !["own"] =
            [NoPass EXCEPT !.phase = "handing", !.mode = pending.mode,
                           !.ids = <<pending.session>>,
                           !.fresh = IF pending.fresh THEN {pending.session} ELSE {},
                           !.part = IF pending.left = 1 THEN {} ELSE {pending.session}]]
  ELSE /\ pass' = [pass EXCEPT !["own"] =
            IF top = 0 THEN [NoPass EXCEPT !.phase = "listAll"]
            ELSE [NoPass EXCEPT !.phase = "listNew", !.from = top, !.seen = topIds]]
       /\ UNCHANGED pending

Tick ==
  /\ ~Handing
  /\ timer
  /\ ShouldRun
  /\ Begin
  /\ UNCHANGED <<source, forgone, relay, service, cursor, queue, retries>>

\* initializeBackfillQueueIfNeeded after its query
ListAllEnds(w) ==
  /\ ~Handing
  /\ pass[w].phase = "listAll"
  /\ IF Known = {} /\ top = 0
     THEN /\ pass' = [pass EXCEPT ![w] = NoPass]
          /\ UNCHANGED <<cursor, queue>>
     ELSE /\ IF Known = {} THEN UNCHANGED <<cursor, queue>>
             ELSE /\ top' = Latest(Known)
                  /\ topIds' = {s \in Known : rows[s] = Latest(Known)}
                  /\ \E added \in Listed(Known \ Ids(queue["backfill"])) :
                       queue' = [queue EXCEPT !["backfill"] = @ \o added]
          /\ pass' = [pass EXCEPT ![w] =
               [NoPass EXCEPT !.phase = "listNew", !.from = top', !.seen = topIds']]
  /\ excused' = excused \ Known
  /\ tainted' = (tainted \/ w = "old")
  /\ UNCHANGED <<source, relay, service, retries, pending>>

\* The sessions that were listed at the new top of the cursor.
SeenAt(t, listed, seen) ==
  {s \in listed : rows[s] = t} \cup (IF t = seen[1] THEN seen[2] ELSE {})

\* pickReadyCandidates
Candidates(q, limit) ==
  {SubSeq(ready, 1, IF Len(ready) < limit THEN Len(ready) ELSE limit) :
     ready \in Without(q, deferred)}

Select(w, mode, ids) ==
  pass' = [pass EXCEPT ![w] = [NoPass EXCEPT !.phase = "load", !.mode = mode,
                                             !.ids = ids, !.fresh = Ids(ids)]]

(***************************************************************************)
(* enqueueIncrementalUpdates after its query, and the selection of the     *)
(* sessions to load: incremental ones unless throttled or deferred, else   *)
(* the backfill.                                                           *)
(***************************************************************************)
ListNewEnds(w) ==
  /\ ~Handing
  /\ pass[w].phase = "listNew"
  /\ LET listed == {s \in Known : rows[s] >= pass[w].from}
         new == {s \in listed : ~(rows[s] = pass[w].from /\ s \in pass[w].seen)}
     IN /\ \E added \in Listed(new \ Ids(queue["incremental"])) :
             queue' = [queue EXCEPT !["incremental"] = @ \o added]
        /\ IF listed = {} THEN UNCHANGED cursor
           ELSE /\ top' = Latest(listed)
                /\ topIds' = SeenAt(top', listed, <<pass[w].from, pass[w].seen>>)
        /\ \E first \in Candidates(queue["incremental"]', IncrementalBatch),
              second \in Candidates(queue["backfill"], BackfillBatch) :
             IF ~throttled /\ first # <<>>
             THEN Select(w, "incremental", first) /\ throttled' = TRUE
             ELSE /\ IF second # <<>> THEN Select(w, "backfill", second)
                     ELSE pass' = [pass EXCEPT ![w] = NoPass]
                  /\ UNCHANGED throttled
        /\ excused' = excused \ new
        /\ tainted' = (tainted \/ w = "old")
        /\ UNCHANGED <<source, relay, started, stops, timer, featureDisabled, retries, pending>>

(***************************************************************************)
(* The sessions are loaded.  The batch is as many of the first ones as     *)
(* fit; an oversized session is cut into chunks if it is the first, ends   *)
(* the batch otherwise, and its first chunk may leave room for others.     *)
(***************************************************************************)
LoadEnds(w) ==
  /\ ~Handing
  /\ pass[w].phase = "load"
  /\ \E n \in 1..Len(pass[w].ids), left \in 0..(MaxChunks - 1) :
       LET b == pass[w]
           s == b.ids[1]
           ids == SubSeq(b.ids, 1, n)
       IN /\ Ids(Tail(ids)) \cap Oversized = {}
          /\ left > 0 => s \in Oversized
          /\ pass' = [pass EXCEPT ![w] =
               [b EXCEPT !.phase = "handing", !.ids = ids, !.fresh = @ \cap Ids(ids),
                         !.part = IF left > 0 THEN {s} ELSE {}]]
          /\ pending' = IF left = 0 THEN pending
                        ELSE [session |-> s, mode |-> b.mode, left |-> left,
                              fresh |-> s \in b.fresh]
          /\ tainted' = (tainted \/ (w = "old" /\ left > 0))
  /\ UNCHANGED <<source, excused, relay, service, cursor, queue, retries>>

\* A query throws, as when the database was closed.
PassThrows(w) ==
  /\ ~Handing
  /\ pass[w].phase \in {"listAll", "listNew", "load"}
  /\ pass' = [pass EXCEPT ![w] = NoPass]
  /\ UNCHANGED <<source, forgone, relay, service, cursor, queue, retries, pending>>

-----------------------------------------------------------------------------
(* The answer to a batch of the own pass.                                  *)

\* dequeue
Dequeued(mode, S) == {[queue EXCEPT ![mode] = rest] : rest \in Without(queue[mode], S)}

Forgotten(counts, S) == [s \in Sessions |-> IF s \in S THEN 0 ELSE counts[s]]

Batch == pass["own"]

(***************************************************************************)
(* Accepted: the sessions of the batch leave their queue, unless the batch *)
(* was a chunk and more are to follow.                                     *)
(***************************************************************************)
Accepted ==
  LET more == pending.left > 0 /\ Batch.ids = <<pending.session>>
      done == IF more THEN {} ELSE Ids(Batch.ids)
  IN /\ queue' \in Dequeued(Batch.mode, done)
     /\ timeouts' = Forgotten(timeouts, done)
     /\ limited' = Forgotten(limited, done)
     /\ deferred' = deferred \ done
     /\ owed' = owed \ (Batch.fresh \ Batch.part)
     /\ UNCHANGED <<excused, pending, timer, featureDisabled>>

\* What every failure does: the chunks that remain are discarded.  A chunk of
\* a session that has left its queue is not sent again.
Failed(dropped) ==
  /\ pending' = IF pending.session \in Ids(Batch.ids) THEN NoChunks ELSE pending
  /\ queue' \in Dequeued(Batch.mode, dropped)
  /\ excused' = excused \cup {s \in Batch.fresh : ~IsQueued(s)'}
  /\ UNCHANGED owed

ValidationFailed ==
  /\ Failed(Ids(Batch.ids))
  /\ UNCHANGED <<retries, timer, featureDisabled>>

FeatureDisabled ==
  /\ Failed({})
  /\ featureDisabled' = TRUE
  /\ timer' = FALSE
  /\ UNCHANGED retries

\* The sessions of the batch whose next failure is one too many.
Exhausted(counts, max) == {s \in Ids(Batch.ids) : counts[s] + 1 >= max}

Counted(counts, dead) ==
  [s \in Sessions |-> IF s \in dead THEN 0
                      ELSE IF s \in Ids(Batch.ids) THEN counts[s] + 1
                      ELSE counts[s]]

AckTimeout ==
  LET dead == Exhausted(timeouts, MaxTimeouts)
  IN /\ Failed(dead)
     /\ timeouts' = Counted(timeouts, dead)
     /\ limited' = Forgotten(limited, dead)
     /\ deferred' = deferred \ dead
     /\ UNCHANGED <<timer, featureDisabled>>

\* While the relay is not ready it is not the payload that was refused.
RateLimited ==
  LET dead == IF relayReady THEN Exhausted(limited, MaxRateLimited) ELSE {}
  IN /\ Failed(dead)
     /\ limited' = IF relayReady THEN Counted(limited, dead) ELSE limited
     /\ timeouts' = Forgotten(timeouts, dead)
     /\ deferred' = (deferred \cup Ids(Batch.ids)) \ dead
     /\ UNCHANGED <<timer, featureDisabled>>

Handled(verdict) ==
  /\ \/ verdict = "accepted" /\ Accepted
     \/ verdict = "validation_failed" /\ ValidationFailed
     \/ verdict = "feature_disabled" /\ FeatureDisabled
     \/ verdict = "ack_timeout" /\ AckTimeout
     \/ verdict = "rate_limited" /\ RateLimited
  /\ pass' = [pass EXCEPT !["own"] = NoPass]
  /\ UNCHANGED <<rows, clock, changes, tainted, started, stops, throttled, cursor>>

-----------------------------------------------------------------------------
(* The cloud socket.                                                       *)

HandsOver(w) ==
  /\ pass[w].phase = "handing"
  /\ relayReady /\ ~socketDisabled
  /\ pass' = [pass EXCEPT ![w].phase = "sent"]
  /\ UNCHANGED <<source, forgone, relay, service, cursor, queue, retries, pending>>

\* Without a relay, or after a feature_disabled, the socket answers by itself.
Refuses ==
  /\ Batch.phase = "handing"
  /\ \/ socketDisabled /\ Handled("feature_disabled")
     \/ ~socketDisabled /\ ~relayReady /\ Handled("rate_limited")
  /\ UNCHANGED relay

RefusesOld ==
  /\ pass["old"].phase = "handing"
  /\ socketDisabled \/ ~relayReady
  /\ pass' = [pass EXCEPT !["old"] = NoPass]
  /\ UNCHANGED <<source, forgone, relay, service, cursor, queue, retries, pending>>

RelaySays(verdict) ==
  /\ socketDisabled' = (socketDisabled \/ verdict = "feature_disabled")
  /\ UNCHANGED relayReady

Answer(verdict) ==
  /\ ~Handing
  /\ Batch.phase = "sent"
  /\ RelaySays(verdict)
  /\ Handled(verdict)

MutantAnswerOld(verdict) ==
  /\ ~Handing
  /\ pass["old"].phase = "sent"
  /\ RelaySays(verdict)
  /\ pass' = [pass EXCEPT !["old"] = NoPass]
  /\ owed' = IF verdict = "accepted"
             THEN owed \ (pass["old"].fresh \ pass["old"].part) ELSE owed
  /\ IF verdict = "accepted" THEN queue' \in Dequeued(pass["old"].mode, Ids(pass["old"].ids))
     ELSE UNCHANGED queue
  /\ UNCHANGED <<rows, clock, changes, forgone, service, cursor, retries, pending>>

\* The answer to a batch of an earlier generation changes nothing here.
AnswerOld(verdict) ==
  /\ ~Handing
  /\ pass["old"].phase = "sent"
  /\ RelaySays(verdict)
  /\ pass' = [pass EXCEPT !["old"] = NoPass]
  /\ owed' = IF verdict = "accepted"
             THEN owed \ (pass["old"].fresh \ pass["old"].part) ELSE owed
  /\ UNCHANGED <<rows, clock, changes, forgone, service, cursor, queue, retries, pending>>

-----------------------------------------------------------------------------
(* start, stop and refresh.                                                *)

MutantResume ==
  /\ UNCHANGED <<timer, featureDisabled, throttled>>
  /\ IF featureDisabled THEN UNCHANGED <<pending, pass>> ELSE Begin

\* refresh() when the relay is ready.
Resume ==
  /\ timer' = ~featureDisabled
  /\ IF featureDisabled THEN UNCHANGED <<pending, pass>> ELSE Begin
  /\ UNCHANGED <<featureDisabled, throttled>>

\* refresh() when it is not.
Pause ==
  /\ timer' = FALSE
  /\ featureDisabled' = FALSE
  /\ throttled' = FALSE
  /\ UNCHANGED <<pending, pass>>

Dormant == UNCHANGED <<timer, featureDisabled, throttled, pending, pass>>

Start ==
  /\ ~Handing
  /\ ~started
  /\ started' = TRUE
  /\ IF relayReady THEN Resume ELSE Pause
  /\ UNCHANGED <<source, forgone, relay, stops, cursor, queue, retries>>

\* stop() with resetSourceState
Stop ==
  /\ ~Handing
  /\ started
  /\ changes + stops < MaxEvents
  /\ stops' = stops + 1
  /\ pass["old"].phase = "none"
  /\ pass' = [own |-> NoPass, old |-> pass["own"]]
  /\ started' = FALSE
  /\ timer' = FALSE
  /\ featureDisabled' = FALSE
  /\ throttled' = FALSE
  /\ top' = 0
  /\ topIds' = {}
  /\ queue' = [m \in Modes |-> <<>>]
  /\ deferred' = {}
  /\ timeouts' = [s \in Sessions |-> 0]
  /\ limited' = [s \in Sessions |-> 0]
  /\ pending' = NoChunks
  /\ excused' = {}
  /\ tainted' = FALSE
  /\ UNCHANGED <<source, relay>>

\* A hello.ack of a relay that supports the sync.
RelayReady ==
  /\ ~Handing
  /\ ~relayReady
  /\ relayReady' = TRUE
  /\ IF started THEN Resume ELSE Dormant
  /\ UNCHANGED <<source, forgone, socketDisabled, started, stops, cursor, queue, retries>>

\* The connection is lost, or the socket is stopped or restarted.
RelayLost ==
  /\ ~Handing
  /\ relayReady
  /\ relayReady' = FALSE
  /\ socketDisabled' \in {socketDisabled, FALSE}
  /\ IF started THEN Pause ELSE Dormant
  /\ UNCHANGED <<source, forgone, started, stops, cursor, queue, retries>>

\* refresh() without a change of the relay's state.
Refresh ==
  /\ ~Handing
  /\ started
  /\ IF relayReady THEN Resume ELSE Pause
  /\ UNCHANGED <<source, forgone, relay, started, stops, cursor, queue, retries>>

-----------------------------------------------------------------------------
(* Time.                                                                   *)

RetryIsDue(s) ==
  /\ ~Handing
  /\ s \in deferred
  /\ deferred' = deferred \ {s}
  /\ UNCHANGED <<source, forgone, relay, service, cursor, queue, timeouts, limited,
                 pending, pass>>

ThrottleEnds ==
  /\ ~Handing
  /\ throttled
  /\ throttled' = FALSE
  /\ UNCHANGED <<source, forgone, relay, started, stops, timer, featureDisabled, cursor, queue, retries, pending, pass>>

-----------------------------------------------------------------------------

Init ==
  /\ rows = [s \in Sessions |-> 0]
  /\ clock = 0
  /\ changes = 0
  /\ owed = {}
  /\ excused = {}
  /\ tainted = FALSE
  /\ relayReady = FALSE
  /\ socketDisabled = FALSE
  /\ started = FALSE
  /\ stops = 0
  /\ timer = FALSE
  /\ featureDisabled = FALSE
  /\ throttled = FALSE
  /\ top = 0
  /\ topIds = {}
  /\ queue = [m \in Modes |-> <<>>]
  /\ deferred = {}
  /\ timeouts = [s \in Sessions |-> 0]
  /\ limited = [s \in Sessions |-> 0]
  /\ pending = NoChunks
  /\ pass = [w \in Passes |-> NoPass]

HandOver == \/ \E w \in Passes : HandsOver(w)
            \/ Refuses
            \/ RefusesOld

Next ==
  \/ \E s \in Sessions : Write(s) \/ Import(s) \/ RetryIsDue(s)
  \/ Tick
  \/ \E w \in Passes : ListAllEnds(w) \/ ListNewEnds(w) \/ LoadEnds(w) \/ PassThrows(w)
  \/ HandOver
  \/ \E verdict \in Verdicts : Answer(verdict) \/ AnswerOld(verdict)
  \/ Start
  \/ Stop
  \/ RelayReady
  \/ RelayLost
  \/ Refresh
  \/ ThrottleEnds

Spec == Init /\ [][Next]_vars

(***************************************************************************)
(* The interval, the throttle and the deadlines are timers, and queries    *)
(* end.  A batch that completes a session and is sent again and again is   *)
(* accepted at last.                                                       *)
(***************************************************************************)
Completes(s) == Batch.phase = "sent" /\ s \in Batch.fresh \ Batch.part

Fairness ==
  /\ WF_vars(Tick)
  /\ WF_vars(ThrottleEnds)
  /\ WF_vars(HandOver)
  /\ WF_vars(\E verdict \in Verdicts : Answer(verdict))
  /\ WF_vars(ListAllEnds("own") \/ ListNewEnds("own") \/ LoadEnds("own"))
  /\ \A s \in Sessions :
       /\ WF_vars(RetryIsDue(s))
       /\ SF_vars(Completes(s) /\ Answer("accepted"))

FairSpec == Spec /\ Fairness

-----------------------------------------------------------------------------
(* Properties.                                                             *)

PassType ==
  [phase : Phases, from : Nat, seen : SUBSET Sessions, mode : Modes,
   ids : Seq(Sessions), fresh : SUBSET Sessions, part : SUBSET Sessions]

ChunksType ==
  [session : Sessions \cup {0}, mode : Modes, left : 0..(MaxChunks - 1),
   fresh : BOOLEAN]

\* Every variable has its type, and no session fails more often than allowed.
TypeOK ==
  /\ rows \in [Sessions -> 0..MaxClock]
  /\ clock \in 0..MaxClock
  /\ changes \in 0..MaxEvents
  /\ owed \subseteq Known
  /\ excused \subseteq Sessions
  /\ {tainted, relayReady, socketDisabled, started, timer, featureDisabled,
      throttled} \subseteq BOOLEAN
  /\ stops \in 0..MaxEvents
  /\ top \in 0..clock
  /\ topIds \subseteq Known
  /\ queue \in [Modes -> Seq(Sessions)]
  /\ \A m \in Modes : IsInjective(queue[m])
  /\ deferred \subseteq Known
  /\ timeouts \in [Sessions -> 0..(MaxTimeouts - 1)]
  /\ limited \in [Sessions -> 0..(MaxRateLimited - 1)]
  /\ pending \in ChunksType
  /\ pass \in [Passes -> PassType]

(***************************************************************************)
(* No change slips between the cursor and the queues: as long as the relay *)
(* lacks it the session is queued, ahead of the cursor or being sent,      *)
(* unless the service gave up on the session (dead letter,                 *)
(* validation_failed), or it was imported with a time behind the cursor,   *)
(* or it left its queue with a chunk still to send and the chunk failed    *)
(* (these are "excused"), or a pass of before a stop has written its       *)
(* cursor or chunks into the new generation ("tainted").                   *)
(***************************************************************************)
NoChangeSlips == tainted \/ \A s \in owed : Tracked(s) \/ s \in excused

(***************************************************************************)
(* Once the relay stays connected and the database answers, what the       *)
(* service keeps track of does reach the relay, through timeouts,          *)
(* throttling, deferred retries and chunks that start over, as long as the *)
(* service runs and the relay has not disabled the sync.                   *)
(***************************************************************************)
QueryFails == \E w \in Passes : PassThrows(w)

ChangesArrive ==
  <>[]relayReady /\ <>[][~QueryFails]_vars =>
    \A s \in Sessions :
      s \in owed ~> s \notin owed \/ s \in excused \/ tainted \/ ~started
                       \/ socketDisabled

-----------------------------------------------------------------------------
(* A statement of the repository that the code does not keep.              *)

(***************************************************************************)
(* "pausing agent-session sync until the relay reconnects": when the relay *)
(* is back, its socket no longer refuses in the name of the relay that was *)
(* lost.                                                                   *)
(***************************************************************************)
ReconnectEndsPause == [][~relayReady /\ relayReady' => ~socketDisabled']_vars

=============================================================================
