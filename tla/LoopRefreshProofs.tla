------------------------- MODULE LoopRefreshProofs -------------------------
(***************************************************************************)
(* Proofs about LoopRefresh, for any number of refreshes in flight, timers *)
(* and idempotency keys.                                                   *)
(***************************************************************************)
EXTENDS LoopRefresh, TLAPS

(***************************************************************************)
(* SingleFlight speaks of the ids of flights: it takes their uniqueness to *)
(* know that the flight whose finally clears the entry was the only one.   *)
(* KeyRecoverable takes that a flight which is alone is the only flight:   *)
(* otherwise the retry of another one would replace its key in the store.  *)
(***************************************************************************)
IdsAreUnique == \A r, s \in flights : r.id = s.id => r = s

AloneIsOnly == \A r, s \in flights : r.alone => r = s

SharedFlights == {s \in flights : s.caller # "tick"}

SharedIsOne ==
  /\ shared = 0 => SharedFlights = {}
  /\ shared # 0 => \E r \in SharedFlights : r.id = shared /\ SharedFlights = {r}

RefreshInv ==
  TypeOK /\ IdsAreUnique /\ SharedIsOne /\ AloneIsOnly /\ KeyRecoverable

\* The form with the flight itself implies the form with its id.
LEMMA SharedIsOneSuffices ==
  ASSUME SharedIsOne
  PROVE  SingleFlight
BY DEF SharedIsOne, SingleFlight, SharedFlights

-----------------------------------------------------------------------------
(* Fields of the records that change.                                      *)

Quiet(r) == [r EXCEPT !.alone = FALSE]

\* A flight that is no longer alone keeps everything else.
LEMMA DisturbedType ==
  ASSUME NEW fs \in SUBSET Flight
  PROVE  /\ Disturbed(fs) \subseteq Flight
         /\ \A r \in Disturbed(fs) : ~r.alone
         /\ \A r \in Disturbed(fs) : \E s \in fs :
              r = Quiet(s) /\ r.id = s.id /\ r.caller = s.caller
         /\ \A s \in fs : /\ Quiet(s) \in Disturbed(fs)
                         /\ Quiet(s).id = s.id /\ Quiet(s).caller = s.caller
BY DEF Disturbed, Flight, Quiet

\* Storing a key in an entry gives an entry, and only a present one holds it.
LEMMA WithKeyType ==
  ASSUME NEW entry \in Entry, NEW key \in 1..MaxKeys
  PROVE  /\ WithKey(entry, key) \in Entry
         /\ WithKey(entry, key).present = entry.present
         /\ entry.present => WithKey(entry, key).key = key
BY DEF WithKey, Entry

\* The second attempt of a refresh changes its attempt and its key.
LEMMA RetryType ==
  ASSUME NEW r \in Flight, NEW key \in 1..MaxKeys
  PROVE  LET retry == [r EXCEPT !.attempt = 2, !.key = key]
         IN  /\ retry \in Flight /\ retry.id = r.id /\ retry.caller = r.caller
             /\ retry.alone = r.alone /\ retry.key = key
<1> DEFINE second == [r EXCEPT !.attempt = 2]
           retry == [second EXCEPT !.key = key]
<1>1. second \in Flight /\ second.id = r.id /\ second.caller = r.caller
      /\ second.alone = r.alone
  BY DEF Flight
<1> HIDE DEF second
<1>2. retry \in Flight /\ retry.id = second.id /\ retry.caller = second.caller
      /\ retry.alone = second.alone /\ retry.key = key
  BY <1>1 DEF Flight
<1> QED  BY <1>1, <1>2 DEF second

\* No timer and no shared flight are values of their types.
LEMMA ZeroType ==
  0 \in 0..MaxTimers /\ 0 \in 0..MaxFlights /\ 0 \in 0..MaxKeys
BY RefreshAssumption

(***************************************************************************)
(* Disturbing the flights keeps what the invariant says of them: a launch, *)
(* and a refresh that sends nothing, do no more.                           *)
(***************************************************************************)
LEMMA DisturbKeeps ==
  ASSUME RefreshInv, flights' = Disturbed(flights), shared' = shared
  PROVE  IdsAreUnique' /\ SharedIsOne' /\ AloneIsOnly' /\ KeyRecoverable'
<1>1. flights \in SUBSET Flight
  BY DEF RefreshInv, TypeOK
<1>2. /\ \A r \in flights' : ~r.alone
      /\ \A r \in flights' : \E s \in flights :
           r = Quiet(s) /\ r.id = s.id /\ r.caller = s.caller
      /\ \A s \in flights : /\ Quiet(s) \in flights'
                           /\ Quiet(s).id = s.id /\ Quiet(s).caller = s.caller
  BY <1>1, DisturbedType
<1>3. IdsAreUnique'
  BY <1>2 DEF RefreshInv, IdsAreUnique
<1>4. SharedIsOne'
  <2>1. CASE shared = 0
    BY <1>2, <2>1 DEF RefreshInv, SharedIsOne, SharedFlights
  <2>2. CASE shared # 0
    <3>1. PICK r \in SharedFlights : r.id = shared /\ SharedFlights = {r}
      BY <2>2 DEF RefreshInv, SharedIsOne
    <3> DEFINE d == Quiet(r)
    <3>2. d \in flights' /\ d.id = shared /\ d.caller # "tick"
      BY <1>2, <3>1 DEF SharedFlights
    <3>3. \A s \in flights' : s.caller # "tick" => s = d
      BY <1>2, <3>1 DEF SharedFlights
    <3> QED  BY <2>2, <3>2, <3>3 DEF SharedIsOne, SharedFlights
  <2> QED  BY <2>1, <2>2
<1>5. AloneIsOnly' /\ KeyRecoverable'
  BY <1>2 DEF AloneIsOnly, KeyRecoverable
<1> QED  BY <1>3, <1>4, <1>5

-----------------------------------------------------------------------------
(* The actions.                                                            *)

(***************************************************************************)
(* refreshLoopToken up to its first await: types, and the new flight.      *)
(***************************************************************************)
LEMMA BeginType ==
  ASSUME RefreshInv, NEW caller \in AllCallers, NEW id \in 1..MaxFlights,
         Begin(caller, id)
  PROVE  /\ store' \in Entry /\ lastKey' \in 0..MaxKeys /\ flights' \subseteq Flight
         /\ FirstKey \in 1..MaxKeys
         /\ store'.present => store'.key = FirstKey
<1>1. /\ store \in Entry /\ lastKey \in 0..MaxKeys /\ flights \in SUBSET Flight
      /\ MaxKeys \in Nat
  BY RefreshAssumption DEF RefreshInv, TypeOK
<1>2. FirstKey \in 1..MaxKeys
  BY <1>1 DEF Begin, FirstKey, NewKey, Entry
<1>3. store' \in Entry /\ (store'.present => store'.key = FirstKey)
  BY <1>1, <1>2, WithKeyType DEF Begin
<1>4. lastKey' \in 0..MaxKeys
  BY <1>1, <1>2 DEF Begin, NewKey
<1>5. Disturbed(flights) \subseteq Flight
  BY <1>1, DisturbedType
<1>6. [id |-> id, caller |-> caller, key |-> FirstKey, attempt |-> 1,
       alone |-> flights = {}] \in Flight
  BY <1>2 DEF Flight
<1>7. flights' \subseteq Flight
  BY <1>5, <1>6 DEF Begin
<1> QED  BY <1>2, <1>3, <1>4, <1>7

(***************************************************************************)
(* A refresh that begins, by the timer or shared, keeps the invariant.     *)
(***************************************************************************)
LEMMA BeginKeeps ==
  ASSUME RefreshInv, NEW caller \in AllCallers, NEW id \in 1..MaxFlights,
         Begin(caller, id),
         caller # "tick" => shared = 0,
         shared' = IF caller # "tick" /\ CanSend(caller) THEN id ELSE shared
  PROVE  IdsAreUnique' /\ SharedIsOne' /\ AloneIsOnly' /\ KeyRecoverable'
<1>1. flights \in SUBSET Flight /\ MaxFlights \in Nat
  BY RefreshAssumption DEF RefreshInv, TypeOK
<1>2. CASE ~CanSend(caller)
  <2>1. flights' = Disturbed(flights) /\ shared' = shared
    BY <1>2 DEF Begin
  <2> QED  BY <2>1, DisturbKeeps
<1>3. CASE CanSend(caller)
  <2> DEFINE new == [id |-> id, caller |-> caller, key |-> FirstKey, attempt |-> 1,
                     alone |-> flights = {}]
             old == Disturbed(flights)
  <2>1. flights' = old \cup {new}
    BY <1>3 DEF Begin
  <2>2. /\ \A r \in old : ~r.alone
        /\ \A r \in old : \E s \in flights :
             r = Quiet(s) /\ r.id = s.id /\ r.caller = s.caller
        /\ \A s \in flights : /\ Quiet(s) \in old
                             /\ Quiet(s).id = s.id /\ Quiet(s).caller = s.caller
    BY <1>1, DisturbedType
  <2>3. \A r \in old : r.id # id
    BY <2>2 DEF Begin
  <2>4. IdsAreUnique'
    BY <2>1, <2>2, <2>3 DEF RefreshInv, IdsAreUnique
  <2>5. flights = {} => old = {}
    BY <2>2
  <2>6. AloneIsOnly'
    <3>1. new.alone => old = {}
      BY <2>5
    <3>2. \A r \in flights' : r \in old \/ r = new
      BY <2>1
    <3> HIDE DEF new, old
    <3> QED  BY <2>2, <3>1, <3>2 DEF AloneIsOnly
  <2>7. KeyRecoverable'
    <3>1. store'.present => store'.key = FirstKey
      BY BeginType
    <3> QED  BY <2>1, <2>2, <3>1 DEF KeyRecoverable
  <2>8. SharedIsOne'
    <3>1. CASE caller # "tick"
      <4>1. \A s \in flights : s.caller = "tick"
        BY <3>1 DEF RefreshInv, SharedIsOne, SharedFlights
      <4>2. \A s \in old : s.caller = "tick"
        BY <2>2, <4>1
      <4>3. SharedFlights' = {new}
        BY <2>1, <3>1, <4>2 DEF SharedFlights
      <4>4. shared' = id /\ id # 0
        BY <1>1, <1>3, <3>1
      <4> QED  BY <4>3, <4>4 DEF SharedIsOne
    <3>2. CASE caller = "tick"
      <4>1. shared' = shared /\ SharedFlights' = {s \in old : s.caller # "tick"}
        BY <2>1, <3>2 DEF SharedFlights
      <4>2. CASE shared = 0
        BY <2>2, <4>1, <4>2 DEF RefreshInv, SharedIsOne, SharedFlights
      <4>3. CASE shared # 0
        <5>1. PICK r \in SharedFlights : r.id = shared /\ SharedFlights = {r}
          BY <4>3 DEF RefreshInv, SharedIsOne
        <5> DEFINE d == Quiet(r)
        <5>2. d \in old /\ d.id = shared /\ d.caller # "tick"
          BY <2>2, <5>1 DEF SharedFlights
        <5>3. \A s \in old : s.caller # "tick" => s = d
          BY <2>2, <5>1 DEF SharedFlights
        <5>4. SharedFlights' = {d}
          BY <4>1, <5>2, <5>3
        <5> QED  BY <4>1, <4>3, <5>2, <5>4 DEF SharedIsOne
      <4> QED  BY <4>2, <4>3
    <3> QED  BY <3>1, <3>2
  <2> QED  BY <2>4, <2>6, <2>7, <2>8
<1> QED  BY <1>2, <1>3

(***************************************************************************)
(* A refresh that returns clears the singleflight entry exactly if it was  *)
(* the shared one.                                                         *)
(***************************************************************************)
LEMMA ReturnedKeeps ==
  ASSUME RefreshInv, NEW r \in flights, Returned(r)
  PROVE  /\ flights' \subseteq Flight /\ handle' \in 0..MaxTimers
         /\ shared' \in 0..MaxFlights
         /\ IdsAreUnique' /\ SharedIsOne' /\ AloneIsOnly'
<1>1. /\ flights' = flights \ {r}
      /\ shared' = IF r.caller = "tick" THEN shared ELSE 0
      /\ handle' \in {0, handle}
  BY DEF Returned
<1>2. flights' \subseteq Flight /\ handle' \in 0..MaxTimers /\ shared' \in 0..MaxFlights
  BY <1>1, RefreshAssumption DEF RefreshInv, TypeOK
<1>3. IdsAreUnique' /\ AloneIsOnly'
  BY <1>1 DEF RefreshInv, IdsAreUnique, AloneIsOnly
<1>4. CASE r.caller = "tick"
  <2>1. shared' = shared /\ SharedFlights' = SharedFlights
    BY <1>1, <1>4 DEF SharedFlights
  <2> QED  BY <1>2, <1>3, <2>1 DEF RefreshInv, SharedIsOne
<1>5. CASE r.caller # "tick"
  <2>1. r \in SharedFlights
    BY <1>5 DEF SharedFlights
  <2>2. SharedFlights = {r}
    BY <2>1 DEF RefreshInv, SharedIsOne
  <2>3. shared' = 0 /\ SharedFlights' = {}
    BY <1>1, <1>5, <2>2 DEF SharedFlights
  <2> QED  BY <1>2, <1>3, <2>3 DEF SharedIsOne
<1> QED  BY <1>4, <1>5

\* The timers stay within their bound.
LEMMA ArmTimerType ==
  ASSUME RefreshInv, NEW stopped, ArmTimer(stopped)
  PROVE  armed' \subseteq 1..MaxTimers /\ lastTimer' \in 1..MaxTimers
<1>1. armed \subseteq 1..MaxTimers /\ lastTimer \in 0..MaxTimers /\ MaxTimers \in Nat
  BY RefreshAssumption DEF RefreshInv, TypeOK
<1>2. lastTimer + 1 \in 1..MaxTimers
  BY <1>1 DEF ArmTimer
<1> QED  BY <1>1, <1>2 DEF ArmTimer

(***************************************************************************)
(* An answer of the server, or none, keeps the invariant.                  *)
(***************************************************************************)
LEMMA AnswerKeeps ==
  ASSUME RefreshInv, NEW r \in flights, Answered(r)
  PROVE  RefreshInv'
<1>1. /\ r \in Flight /\ flights \subseteq Flight /\ store \in Entry
      /\ lastKey \in 0..MaxKeys /\ MaxKeys \in Nat
  BY RefreshAssumption DEF RefreshInv, TypeOK
<1>2. ASSUME NEW expires \in BOOLEAN, Succeeds(r, expires)
      PROVE  RefreshInv'
  <2>1. /\ store' = [present |-> TRUE, expires |-> expires, key |-> r.key]
        /\ Returned(r)
        /\ UNCHANGED <<loop, launched, gated, lastKey>>
    BY <1>2 DEF Succeeds
  <2>2. armed' \subseteq 1..MaxTimers /\ lastTimer' \in 0..MaxTimers
    <3>1. CASE ArmTimer({})
      BY <3>1, ArmTimerType, RefreshAssumption
    <3>2. CASE UNCHANGED <<armed, lastTimer>>
      BY <3>2 DEF RefreshInv, TypeOK
    <3> QED  BY <1>2, <3>1, <3>2 DEF Succeeds, Reschedule
  <2>3. store' \in Entry
    <3>1. r.key \in 0..MaxKeys
      BY <1>1 DEF Flight
    <3> QED  BY <2>1, <3>1 DEF Entry
  <2>4. TypeOK'
    BY <2>1, <2>2, <2>3, ReturnedKeeps DEF RefreshInv, TypeOK
  <2>5. KeyRecoverable'
    BY <2>1 DEF Returned, RefreshInv, AloneIsOnly, KeyRecoverable
  <2> QED  BY <2>1, <2>4, <2>5, ReturnedKeeps DEF RefreshInv
<1>3. CASE RaceLost(r)
  <2>1. /\ NewKey \in 1..MaxKeys /\ lastKey' = NewKey /\ store' = WithKey(store, NewKey)
        /\ UNCHANGED <<loop, launched, armed, lastTimer, gated>>
    BY <1>1, <1>3 DEF RaceLost, NewKey
  <2>2. /\ store' \in Entry
        /\ store'.present = store.present
        /\ store'.present => store'.key = NewKey
    BY <1>1, <2>1, WithKeyType
  <2>3. CASE CanSend(r.caller)
    <3> DEFINE retry == [r EXCEPT !.attempt = 2, !.key = NewKey]
    <3>1. flights' = (flights \ {r}) \cup {retry} /\ UNCHANGED <<handle, shared>>
      BY <1>3, <2>3 DEF RaceLost
    <3>2. /\ retry \in Flight /\ retry.id = r.id /\ retry.caller = r.caller
          /\ retry.alone = r.alone /\ retry.key = NewKey
      BY <1>1, <2>1, RetryType
    <3>3. TypeOK'
      BY <1>1, <2>1, <2>2, <3>1, <3>2 DEF RefreshInv, TypeOK
    <3> HIDE DEF retry
    <3>i. IdsAreUnique'
      BY <3>1, <3>2 DEF RefreshInv, IdsAreUnique
    <3>a. AloneIsOnly'
      BY <3>1, <3>2 DEF RefreshInv, AloneIsOnly
    <3>4. IdsAreUnique' /\ AloneIsOnly'
      BY <3>i, <3>a
    <3>5. KeyRecoverable'
      BY <2>2, <3>1, <3>2 DEF RefreshInv, AloneIsOnly, KeyRecoverable
    <3>6. SharedIsOne'
      <4>1. CASE r.caller = "tick"
        <5>1. SharedFlights' = SharedFlights
          BY <3>1, <3>2, <4>1 DEF SharedFlights
        <5> QED  BY <3>1, <5>1 DEF RefreshInv, SharedIsOne
      <4>2. CASE r.caller # "tick"
        <5>1. r \in SharedFlights
          BY <4>2 DEF SharedFlights
        <5>2. shared # 0 /\ SharedFlights = {r} /\ r.id = shared
          BY <5>1 DEF RefreshInv, SharedIsOne
        <5>3. SharedFlights' = {retry}
          BY <3>1, <3>2, <4>2, <5>2 DEF SharedFlights
        <5> QED  BY <3>1, <3>2, <5>2, <5>3 DEF SharedIsOne
      <4> QED  BY <4>1, <4>2
    <3> QED  BY <3>3, <3>4, <3>5, <3>6 DEF RefreshInv
  <2>4. CASE ~CanSend(r.caller)
    <3>1. Returned(r)
      BY <1>3, <2>4 DEF RaceLost
    <3>2. TypeOK'
      BY <1>1, <2>1, <2>2, <3>1, ReturnedKeeps DEF RefreshInv, TypeOK
    <3>3. KeyRecoverable'
      BY <3>1 DEF Returned, RefreshInv, AloneIsOnly, KeyRecoverable
    <3> QED  BY <3>1, <3>2, <3>3, ReturnedKeeps DEF RefreshInv
  <2> QED  BY <2>3, <2>4
<1>4. CASE NotFound(r) \/ Fails(r)
  <2>1. /\ Returned(r) /\ gated' \in {TRUE, gated}
        /\ UNCHANGED <<loop, launched, store, armed, lastTimer, lastKey>>
    BY <1>4 DEF NotFound, Fails
  <2>2. TypeOK'
    BY <2>1, ReturnedKeeps DEF RefreshInv, TypeOK
  <2>3. KeyRecoverable'
    BY <2>1 DEF Returned, RefreshInv, KeyRecoverable
  <2> QED  BY <2>1, <2>2, <2>3, ReturnedKeeps DEF RefreshInv
<1> QED  BY <1>2, <1>3, <1>4 DEF Answered

(***************************************************************************)
(* The launch, adoption, end and crash of the loop keep the invariant.     *)
(***************************************************************************)
LEMMA LifeKeeps ==
  ASSUME RefreshInv,
         \/ \E stored, expires \in BOOLEAN : Launch(stored, expires)
         \/ \E expires \in BOOLEAN : Started(expires)
         \/ Adopt
         \/ \E keepToken \in BOOLEAN : End(keepToken)
         \/ Crash
  PROVE  RefreshInv'
<1>1. ASSUME NEW stored \in BOOLEAN, NEW expires \in BOOLEAN, Launch(stored, expires)
      PROVE  RefreshInv'
  <2>1. flights' = Disturbed(flights) /\ shared' = shared
    BY <1>1 DEF Launch
  <2>2. store' \in Entry
    BY <1>1, RefreshAssumption DEF Launch, Entry, RefreshInv, TypeOK
  <2>3. flights' \subseteq Flight
    BY <2>1, DisturbedType DEF RefreshInv, TypeOK
  <2>4. TypeOK'
    BY <1>1, <2>2, <2>3 DEF Launch, RefreshInv, TypeOK
  <2> QED  BY <2>1, <2>4, DisturbKeeps DEF RefreshInv
<1>2. ASSUME NEW expires \in BOOLEAN, Started(expires) \/ Adopt
      PROVE  RefreshInv'
  <2>1. /\ UNCHANGED <<launched, store, flights, shared, gated, lastKey>>
        /\ loop' = "running"
        /\ \E e \in BOOLEAN : StartRefresh(e)
    BY <1>2 DEF Started, Adopt, RefreshInv, TypeOK, Entry
  <2>2. /\ armed' \subseteq 1..MaxTimers /\ handle' \in 0..MaxTimers
        /\ lastTimer' \in 0..MaxTimers
    <3>1. CASE UNCHANGED <<armed, handle, lastTimer>>
      BY <3>1 DEF RefreshInv, TypeOK
    <3>2. CASE ArmTimer({handle}) /\ handle' = lastTimer'
      BY <3>2, ArmTimerType, RefreshAssumption
    <3> QED  BY <2>1, <3>1, <3>2 DEF StartRefresh
  <2> QED  BY <2>1, <2>2 DEF RefreshInv, TypeOK, IdsAreUnique, SharedIsOne,
             SharedFlights, AloneIsOnly, KeyRecoverable
<1>3. ASSUME NEW keepToken \in BOOLEAN, End(keepToken)
      PROVE  RefreshInv'
  <2>1. /\ UNCHANGED <<launched, lastTimer, flights, shared, gated, lastKey>>
        /\ loop' = "idle" /\ armed' = armed \ {handle} /\ handle' = 0
        /\ store' \in {store, NoEntry}
    BY <1>3 DEF End, StopRefresh
  <2>2. NoEntry \in Entry /\ ~NoEntry.present
    BY RefreshAssumption DEF NoEntry, Entry
  <2>3. TypeOK'
    BY <2>1, <2>2, RefreshAssumption DEF RefreshInv, TypeOK
  <2>4. KeyRecoverable'
    BY <2>1, <2>2 DEF RefreshInv, KeyRecoverable
  <2> QED  BY <2>1, <2>3, <2>4 DEF RefreshInv, IdsAreUnique, SharedIsOne,
             SharedFlights, AloneIsOnly
<1>4. CASE Crash
  <2>1. /\ flights' = {} /\ shared' = 0 /\ armed' = {} /\ handle' = 0 /\ lastTimer' = 0
        /\ launched' = FALSE /\ gated' = FALSE /\ loop' \in {loop, "orphaned"}
        /\ UNCHANGED <<store, lastKey>>
    BY <1>4 DEF Crash
  <2>2. TypeOK'
    BY <2>1, ZeroType, Zenon DEF RefreshInv, TypeOK
  <2> QED  BY <2>1, <2>2 DEF RefreshInv, IdsAreUnique, SharedIsOne, SharedFlights,
             AloneIsOnly, KeyRecoverable
<1> QED  BY <1>1, <1>2, <1>3, <1>4

\* The beginning of a refresh, by the timer or shared, keeps the invariant.
LEMMA RefreshBegins ==
  ASSUME RefreshInv, NEW id \in 1..MaxFlights,
         \/ \E timer \in armed : TimerFires(timer, id)
         \/ \E caller \in Callers : SharedRefresh(caller, id)
  PROVE  RefreshInv'
<1>1. ASSUME NEW timer \in armed, TimerFires(timer, id)
      PROVE  RefreshInv'
  <2>1. /\ Begin("tick", id) /\ armed' = armed \ {timer} /\ handle' \in {handle, 0}
        /\ UNCHANGED <<loop, launched, lastTimer, shared, gated>>
    BY <1>1 DEF TimerFires
  <2>2. "tick" \in AllCallers
    BY DEF AllCallers
  <2>3. TypeOK'
    BY <2>1, <2>2, BeginType, RefreshAssumption DEF RefreshInv, TypeOK
  <2> QED  BY <2>1, <2>2, <2>3, BeginKeeps DEF RefreshInv
<1>2. ASSUME NEW caller \in Callers, SharedRefresh(caller, id)
      PROVE  RefreshInv'
  <2>1. /\ caller \in AllCallers /\ caller # "tick" /\ shared = 0 /\ Begin(caller, id)
        /\ shared' = IF CanSend(caller) THEN id ELSE 0
        /\ UNCHANGED <<loop, launched, armed, handle, lastTimer, gated>>
    BY <1>2, RefreshAssumption DEF SharedRefresh, AllCallers
  <2>2. TypeOK'
    BY <2>1, BeginType, RefreshAssumption DEF RefreshInv, TypeOK
  <2> QED  BY <2>1, <2>2, BeginKeeps DEF RefreshInv
<1> QED  BY <1>1, <1>2

(***************************************************************************)
(* The invariant holds in every reachable state, for any bounds.           *)
(***************************************************************************)
THEOREM RefreshInvariant == Spec => []RefreshInv
<1>1. Init => RefreshInv
  <2>1. NoEntry \in Entry
    BY RefreshAssumption DEF NoEntry, Entry
  <2>2. Init => TypeOK
    BY <2>1, ZeroType, Zenon DEF Init, TypeOK
  <2>3. Init => IdsAreUnique /\ SharedIsOne /\ AloneIsOnly /\ KeyRecoverable
    BY DEF Init, IdsAreUnique, SharedIsOne, SharedFlights, AloneIsOnly, KeyRecoverable
  <2> QED  BY <2>2, <2>3 DEF RefreshInv
<1>2. RefreshInv /\ [Next]_vars => RefreshInv'
  <2> SUFFICES ASSUME RefreshInv, [Next]_vars PROVE RefreshInv'
    OBVIOUS
  <2>1. CASE UNCHANGED vars
    BY <2>1 DEF vars, RefreshInv, TypeOK, IdsAreUnique, SharedIsOne, SharedFlights,
               AloneIsOnly, KeyRecoverable
  <2>2. CASE Next
    BY <2>2, LifeKeeps, RefreshBegins, AnswerKeeps DEF Next
  <2> QED  BY <2>1, <2>2
<1> QED  BY <1>1, <1>2, PTL DEF Spec

(***************************************************************************)
(* The requests and resumes of a loop share one refresh.                   *)
(***************************************************************************)
THEOREM OneSharedFlight == Spec => []SingleFlight
<1>1. RefreshInv => SingleFlight
  BY SharedIsOneSuffices DEF RefreshInv
<1> QED  BY <1>1, RefreshInvariant, PTL

(***************************************************************************)
(* A crash in the middle of a refresh leaves the key of the attempt that   *)
(* was cut off on disk, its retry after a lost race included.              *)
(***************************************************************************)
THEOREM KeySurvives == Spec => []KeyRecoverable
BY RefreshInvariant, PTL DEF RefreshInv

\* The token entry, its timers and the refreshes in flight have their types.
THEOREM RefreshTypeCorrect == Spec => []TypeOK
BY RefreshInvariant, PTL DEF RefreshInv

-----------------------------------------------------------------------------
(* The 404 gate.                                                           *)

Attempts(fs) == {<<r.id, r.attempt>> : r \in fs}

\* A refresh that is disturbed is the same attempt.
LEMMA DisturbedAttempts ==
  ASSUME NEW fs \in SUBSET Flight
  PROVE  Attempts(Disturbed(fs)) \subseteq Attempts(fs)
<1>1. \A s \in fs : Quiet(s).id = s.id /\ Quiet(s).attempt = s.attempt
  BY DEF Flight, Quiet
<1>2. \A r \in Disturbed(fs) : \E s \in fs : r = Quiet(s)
  BY DEF Disturbed, Quiet
<1> QED  BY <1>1, <1>2 DEF Attempts

\* Behind the gate a refresh begins nothing.
LEMMA GatedBegins ==
  ASSUME TypeOK, gated, NEW caller, NEW id, Begin(caller, id)
  PROVE  Attempts(flights') \subseteq Attempts(flights)
<1>1. flights' = Disturbed(flights)
  BY DEF Begin, CanSend
<1> QED  BY <1>1, DisturbedAttempts DEF TypeOK

\* Behind the gate an answer leads to no other attempt.
LEMMA GatedAnswers ==
  ASSUME gated, NEW r \in flights, Answered(r)
  PROVE  Attempts(flights') \subseteq Attempts(flights)
<1>1. Returned(r)
  BY DEF Answered, Succeeds, RaceLost, NotFound, Fails, CanSend
<1>2. flights' \subseteq flights
  BY <1>1 DEF Returned
<1> QED  BY <1>2 DEF Attempts

(***************************************************************************)
(* Once the endpoint answered 404 no attempt is sent to it until the       *)
(* process restarts: neither a refresh that begins nor the retry of one    *)
(* that was in flight when the gate closed (attemptRefresh).               *)
(***************************************************************************)
THEOREM GateCloses == Spec => GateIsFinal
<1>1. TypeOK /\ [Next]_vars => [gated /\ gated' =>
                                 Attempts(flights') \subseteq Attempts(flights)]_vars
  <2> SUFFICES ASSUME TypeOK, Next, gated, gated'
               PROVE  Attempts(flights') \subseteq Attempts(flights)
    OBVIOUS
  <2>1. ASSUME NEW stored \in BOOLEAN, NEW expires \in BOOLEAN, Launch(stored, expires)
        PROVE  Attempts(flights') \subseteq Attempts(flights)
    BY <2>1, DisturbedAttempts DEF Launch, TypeOK
  <2>2. CASE \/ \E expires \in BOOLEAN : Started(expires)
             \/ Adopt
             \/ \E keepToken \in BOOLEAN : End(keepToken)
    <3>1. flights' = flights
      BY <2>2 DEF Started, Adopt, End
    <3> QED  BY <3>1
  <2>3. CASE Crash
    BY <2>3 DEF Crash
  <2>4. ASSUME NEW id \in 1..MaxFlights,
               \/ \E timer \in armed : TimerFires(timer, id)
               \/ \E caller \in Callers : SharedRefresh(caller, id)
        PROVE  Attempts(flights') \subseteq Attempts(flights)
    BY <2>4, GatedBegins DEF TimerFires, SharedRefresh
  <2>5. ASSUME NEW r \in flights, Answered(r)
        PROVE  Attempts(flights') \subseteq Attempts(flights)
    BY <2>5, GatedAnswers
  <2> QED  BY <2>1, <2>2, <2>3, <2>4, <2>5 DEF Next
<1>2. RefreshInv => TypeOK
  BY DEF RefreshInv
<1> QED  BY <1>1, <1>2, RefreshInvariant, PTL DEF Spec, GateIsFinal, Attempts

=============================================================================
