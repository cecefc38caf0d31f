----------------------------- MODULE LoopRefresh -----------------------------
(***************************************************************************)
(* The runner token of one loop and everything that refreshes it: the      *)
(* proactive timer of LoopSchedulerContext, the requests that met a 401    *)
(* and the handler of a system resume, the last two through a singleflight *)
(* map.  The token and the idempotency key of the last refresh are on disk *)
(* (LoopTokenStore) and survive a crash; timers, refreshes in flight and   *)
(* the 404 gate do not.  Every map is keyed by loopId and no operation     *)
(* reads the entry of another loop, so one loop stands for all.            *)
(*                                                                         *)
(* An action is what runs between two events of the JavaScript loop: the   *)
(* continuations of an answer (the caller of refreshLoopToken, then its    *)
(* finally) are microtasks and run before the next event.                  *)
(***************************************************************************)
EXTENDS Integers, FiniteSets

CONSTANTS
  Callers,        \* who refreshes: a subset of AllCallers
  MaxFlights,     \* bound: refreshes in flight together
  MaxTimers,      \* bound: timers created in one run of the process
  MaxKeys         \* bound: idempotency keys generated

AllCallers == {"tick", "request", "resume"}

ASSUME RefreshAssumption ==
  /\ Callers \subseteq AllCallers
  /\ MaxFlights \in Nat
  /\ MaxTimers \in Nat
  /\ MaxKeys \in Nat

VARIABLES
  loop,           \* idle, launching, running, or orphaned by a crash
  launched,       \* by this process: getToken falls back to the launch token
  store,          \* the entry of LoopTokenStore
  armed,          \* timers that will fire
  handle,         \* the entry of refreshes, 0 when there is none
  lastTimer,
  flights,        \* calls of refreshLoopToken awaiting an answer
  shared,         \* the flight in the singleflight map, 0 when there is none
  gated,          \* the refresh endpoint answered 404
  lastKey         \* idempotency keys generated so far

vars == <<loop, launched, store, armed, handle, lastTimer, flights, shared,
          gated, lastKey>>

Flight ==
  [ id      : 1..MaxFlights,
    caller  : AllCallers,
    key     : 1..MaxKeys,
    attempt : 1..2,
    alone   : BOOLEAN ]  \* no other refresh or launch came between (history)

Entry == [present : BOOLEAN, expires : BOOLEAN, key : 0..MaxKeys]

NoEntry == [present |-> FALSE, expires |-> FALSE, key |-> 0]

Disturbed(fs) == {[r EXCEPT !.alone = FALSE] : r \in fs}

WithKey(entry, key) ==
  IF entry.present THEN [entry EXCEPT !.key = key] ELSE entry

-----------------------------------------------------------------------------
(* The timer of the context.                                               *)

StopRefresh == armed' = armed \ {handle} /\ handle' = 0

\* scheduleRefreshTick, after the timers in stopped were cleared.
ArmTimer(stopped) ==
  /\ lastTimer < MaxTimers
  /\ lastTimer' = lastTimer + 1
  /\ armed' = (armed \ stopped) \cup {lastTimer + 1}

\* The new timer's handle does not outlive the finally of the tick.
Reschedule == ArmTimer({})

\* startRefresh: an unknown expiry leaves whatever was scheduled before.
StartRefresh(expires) ==
  IF expires THEN ArmTimer({handle}) /\ handle' = lastTimer'
             ELSE UNCHANGED <<armed, handle, lastTimer>>

-----------------------------------------------------------------------------
(* The life of the loop.                                                   *)

Init ==
  /\ loop = "idle"
  /\ launched = FALSE
  /\ store = NoEntry
  /\ armed = {}
  /\ handle = 0
  /\ lastTimer = 0
  /\ flights = {}
  /\ shared = 0
  /\ gated = FALSE
  /\ lastKey = 0

\* The token a launch brings is stored, unless encryption is unavailable.
Launch(stored, expires) ==
  /\ loop = "idle"
  /\ loop' = "launching"
  /\ launched' = TRUE
  /\ store' = IF stored THEN [present |-> TRUE, expires |-> expires, key |-> 0]
                        ELSE store
  /\ flights' = Disturbed(flights)
  /\ UNCHANGED <<armed, handle, lastTimer, shared, gated, lastKey>>

\* The process runs: refresh timer and sleep registration.
Started(expires) ==
  /\ loop = "launching"
  /\ loop' = "running"
  /\ StartRefresh(expires)
  /\ UNCHANGED <<launched, store, flights, shared, gated, lastKey>>

\* Boot recovery finds the process of the loop alive.
Adopt ==
  /\ loop = "orphaned"
  /\ loop' = "running"
  /\ StartRefresh(store.present /\ store.expires)
  /\ UNCHANGED <<launched, store, flights, shared, gated, lastKey>>

(***************************************************************************)
(* The loop ended: teardownLoop, and deleteLoopToken unless the final      *)
(* event could not be delivered.                                           *)
(***************************************************************************)
End(keepToken) ==
  /\ loop # "idle"
  /\ loop' = "idle"
  /\ StopRefresh
  /\ store' = IF keepToken THEN store ELSE NoEntry
  /\ UNCHANGED <<launched, lastTimer, flights, shared, gated, lastKey>>

\* A force-quit: what is on disk remains, and the loop's own process may.
Crash ==
  /\ loop' = IF loop = "running" THEN "orphaned" ELSE loop
  /\ loop # "launching"
  /\ launched' = FALSE
  /\ armed' = {}
  /\ handle' = 0
  /\ lastTimer' = 0
  /\ flights' = {}
  /\ shared' = 0
  /\ gated' = FALSE
  /\ UNCHANGED <<store, lastKey>>

-----------------------------------------------------------------------------
(* Refreshes.                                                              *)

MutantCanSend(caller) == store.present \/ (launched /\ caller # "resume")

\* attemptRefresh sends nothing without a token or past the gate.
CanSend(caller) ==
  /\ store.present \/ (launched /\ caller # "resume")
  /\ ~gated

NewKey == lastKey + 1

(***************************************************************************)
(* refreshLoopToken up to its first await: the stored key is used again,   *)
(* a new one is stored before anything is sent.                            *)
(***************************************************************************)
MutantFirstKey == IF store.present THEN store.key ELSE NewKey

FirstKey == IF store.present /\ store.key # 0 THEN store.key ELSE NewKey

Begin(caller, id) ==
  /\ id \notin {r.id : r \in flights}
  /\ FirstKey <= MaxKeys
  /\ lastKey' = IF FirstKey = NewKey THEN NewKey ELSE lastKey
  /\ store' = WithKey(store, FirstKey)
  /\ flights' = IF CanSend(caller)
                THEN Disturbed(flights) \cup
                       {[id |-> id, caller |-> caller, key |-> FirstKey,
                         attempt |-> 1, alone |-> flights = {}]}
                ELSE Disturbed(flights)

(***************************************************************************)
(* The proactive timer fires: runRefreshTick does not use the singleflight.*)
(* A tick that sends nothing returns at once, and its finally deletes the  *)
(* entry of refreshes.                                                     *)
(***************************************************************************)
TimerFires(timer, id) ==
  /\ "tick" \in Callers
  /\ timer \in armed
  /\ armed' = armed \ {timer}
  /\ Begin("tick", id)
  /\ handle' = IF CanSend("tick") THEN handle ELSE 0
  /\ UNCHANGED <<loop, launched, lastTimer, shared, gated>>

(***************************************************************************)
(* A request that met a 401 (of the tailer or the finalizer), or a resume  *)
(* of the system: joins the refresh in the singleflight map or begins one. *)
(***************************************************************************)
SharedRefresh(caller, id) ==
  /\ caller \in Callers \cap {"request", "resume"}
  /\ loop = "running" \/ (loop = "orphaned" /\ caller = "request")
  /\ shared = 0
  /\ Begin(caller, id)
  /\ shared' = IF CanSend(caller) THEN id ELSE 0
  /\ UNCHANGED <<loop, launched, armed, handle, lastTimer, gated>>

MutantReturned(r) ==
  /\ flights' = flights \ {r}
  /\ handle' = 0
  /\ shared' = 0

(***************************************************************************)
(* refreshLoopToken returns: the finally of a tick deletes the entry of    *)
(* refreshes, after the tick has rescheduled; that of a shared refresh     *)
(* deletes the entry of the singleflight map.                              *)
(***************************************************************************)
Returned(r) ==
  /\ flights' = flights \ {r}
  /\ handle' = IF r.caller = "tick" THEN 0 ELSE handle
  /\ shared' = IF r.caller = "tick" THEN shared ELSE 0

(***************************************************************************)
(* The server issued a token.  It is stored, whatever became of the loop   *)
(* meanwhile, with the key it was obtained under; a tick whose token has a *)
(* known expiry schedules the next one if refreshes has an entry.          *)
(***************************************************************************)
Succeeds(r, expires) ==
  /\ store' = [present |-> TRUE, expires |-> expires, key |-> r.key]
  /\ IF r.caller = "tick" /\ expires /\ handle # 0
     THEN Reschedule
     ELSE UNCHANGED <<armed, lastTimer>>
  /\ Returned(r)
  /\ UNCHANGED <<loop, launched, gated, lastKey>>

MutantRaceLost(r) ==
  /\ r.attempt = 1
  /\ NewKey <= MaxKeys
  /\ lastKey' = NewKey
  /\ IF CanSend(r.caller)
     THEN /\ flights' = (flights \ {r}) \cup {[r EXCEPT !.attempt = 2, !.key = NewKey]}
          /\ UNCHANGED <<handle, shared>>
     ELSE Returned(r)
  /\ UNCHANGED <<loop, launched, store, armed, lastTimer, gated>>

\* 409 RACE_LOST on the first attempt: one retry under a new, stored key.
RaceLost(r) ==
  /\ r.attempt = 1
  /\ NewKey <= MaxKeys
  /\ lastKey' = NewKey
  /\ store' = WithKey(store, NewKey)
  /\ IF CanSend(r.caller)
     THEN /\ flights' = (flights \ {r}) \cup {[r EXCEPT !.attempt = 2, !.key = NewKey]}
          /\ UNCHANGED <<handle, shared>>
     ELSE Returned(r)
  /\ UNCHANGED <<loop, launched, armed, lastTimer, gated>>

NotFound(r) ==
  /\ gated' = TRUE
  /\ Returned(r)
  /\ UNCHANGED <<loop, launched, store, armed, lastTimer, lastKey>>

\* Any other status, a network error, a malformed body, a store that throws.
Fails(r) ==
  /\ Returned(r)
  /\ UNCHANGED <<loop, launched, store, armed, lastTimer, gated, lastKey>>

Answered(r) ==
  \/ \E expires \in BOOLEAN : Succeeds(r, expires)
  \/ RaceLost(r)
  \/ NotFound(r)
  \/ Fails(r)

Next ==
  \/ \E stored, expires \in BOOLEAN : Launch(stored, expires)
  \/ \E expires \in BOOLEAN : Started(expires)
  \/ Adopt
  \/ \E keepToken \in BOOLEAN : End(keepToken)
  \/ Crash
  \/ \E timer \in armed, id \in 1..MaxFlights : TimerFires(timer, id)
  \/ \E caller \in Callers, id \in 1..MaxFlights : SharedRefresh(caller, id)
  \/ \E r \in flights : Answered(r)

Spec == Init /\ [][Next]_vars

-----------------------------------------------------------------------------
(* Properties.                                                             *)

\* Every variable has its type.
TypeOK ==
  /\ loop \in {"idle", "launching", "running", "orphaned"}
  /\ launched \in BOOLEAN
  /\ store \in Entry
  /\ armed \subseteq 1..MaxTimers
  /\ handle \in 0..MaxTimers
  /\ lastTimer \in 0..MaxTimers
  /\ flights \subseteq Flight
  /\ shared \in 0..MaxFlights
  /\ gated \in BOOLEAN
  /\ lastKey \in 0..MaxKeys

(***************************************************************************)
(* The requests and resumes of a loop share one refresh: the singleflight  *)
(* entry is that refresh from its start to its finally, whatever it        *)
(* answers and whatever the proactive tick does (refreshLoopTokenSingle-   *)
(* flight).                                                                *)
(***************************************************************************)
SingleFlight ==
  {r.id : r \in {s \in flights : s.caller # "tick"}} =
    IF shared = 0 THEN {} ELSE {shared}

(***************************************************************************)
(* "Persist the idempotency key before the network call so a force-quit    *)
(* mid-refresh can reuse it": unless refreshes overlap, a crash at any     *)
(* moment of a refresh, its retry included, leaves the key of the attempt  *)
(* that was cut off on disk (refreshLoopToken).                            *)
(***************************************************************************)
KeyRecoverable ==
  \A r \in flights : r.alone /\ store.present => store.key = r.key

(***************************************************************************)
(* After a 404 nothing is sent to the endpoint until the process restarts, *)
(* not even the retry of a refresh that raced another one which met the    *)
(* 404 (attemptRefresh).                                                   *)
(***************************************************************************)
GateIsFinal ==
  [][gated /\ gated' =>
       {<<r.id, r.attempt>> : r \in flights'} \subseteq
         {<<r.id, r.attempt>> : r \in flights}]_vars

-----------------------------------------------------------------------------
(* A statement of the repository that the code does not keep.              *)

(***************************************************************************)
(* "reschedules after a successful refresh that includes a new expiresAt": *)
(* for a loop that runs, a tick that renewed the token arms the next one.  *)
(***************************************************************************)
RenewalReschedules ==
  [][\A r \in flights :
       /\ r.caller = "tick" /\ r.alone /\ loop = "running"
       /\ Succeeds(r, TRUE)
       => armed' \ armed # {}]_vars

=============================================================================
