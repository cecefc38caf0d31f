----------------------- MODULE GatewayRecoveryProofs -----------------------
(***************************************************************************)
(* Proofs about GatewayRecovery: the executor is never connected to a      *)
(* gateway that is being restarted, is believed unhealthy, or without an   *)
(* online status, over runs of any length.                                 *)
(***************************************************************************)
EXTENDS GatewayRecovery, TLAPS

(***************************************************************************)
(* NotConnectedWhileDown is not inductive: a probe of the present epoch    *)
(* could connect while a restart has the gateway down.  None is in flight  *)
(* then: the restart began a new epoch, and a probe that begins later      *)
(* finds no gateway that listens, so the server is part of the invariant.  *)
(***************************************************************************)
DownHasNoProbe ==
  restart \in {"stopping", "binding"} => server = "none" /\ "present" \notin probes

RecoveryInv ==
  /\ TypeOK
  /\ ConnectedIsHealthy
  /\ ConnectedOnlyWhileOnline
  /\ NotConnectedWhileDown
  /\ DownHasNoProbe

\* A new epoch leaves no probe of the present one.
LEMMA NextEpochIsOld ==
  ASSUME NEW ps
  PROVE  NextEpoch(ps) \subseteq Epochs /\ "present" \notin NextEpoch(ps)
BY DEF NextEpoch, Epochs

(***************************************************************************)
(* recoverGateway keeps the invariant, whether it begins a restart or      *)
(* joins the one in flight.                                                *)
(***************************************************************************)
LEMMA RecoverKeeps ==
  ASSUME RecoveryInv,
         NEW s \in Servers, NEW ps \in SUBSET Epochs, NEW sent \in Presences,
         RecoverGateway(s, ps, sent),
         restart \in {"stopping", "binding"} => s = "none" /\ "present" \notin ps,
         UNCHANGED <<socketOn, paused, shuttingDown>>,
         online' \in BOOLEAN, online => online'
  PROVE  RecoveryInv'
<1>1. CASE restart # "none"
  <2>1. /\ server' = s /\ probes' = ps /\ presence' = sent
        /\ UNCHANGED <<restart, healthy, connected>>
    BY <1>1 DEF RecoverGateway
  <2> QED  BY <2>1 DEF RecoveryInv, TypeOK, ConnectedIsHealthy, ConnectedOnlyWhileOnline,
             NotConnectedWhileDown, DownHasNoProbe
<1>2. CASE restart = "none"
  <2>1. /\ server' = "none" /\ restart' \in {"binding", "stopping"}
        /\ probes' = NextEpoch(ps) /\ healthy' = FALSE /\ connected' = FALSE
        /\ presence' = "degraded"
    BY <1>2 DEF RecoverGateway
  <2>2. NextEpoch(ps) \subseteq Epochs /\ "present" \notin NextEpoch(ps)
    BY NextEpochIsOld
  <2> QED  BY <2>1, <2>2 DEF RecoveryInv, TypeOK, Servers, Restarts, Presences,
             ConnectedIsHealthy, ConnectedOnlyWhileOnline, NotConnectedWhileDown,
             DownHasNoProbe
<1> QED  BY <1>1, <1>2

\* What the recovery and the server do by themselves keeps the invariant.
LEMMA RestartKeeps ==
  ASSUME RecoveryInv,
         \/ CloseUnexpectedly \/ RestartStops \/ RestartBinds
         \/ RestartSucceeds \/ RestartFails
  PROVE  RecoveryInv'
<1> USE DEF RecoveryInv, TypeOK, Servers, Restarts, ConnectedIsHealthy,
            ConnectedOnlyWhileOnline, NotConnectedWhileDown, DownHasNoProbe
<1>1. CASE CloseUnexpectedly
  <2>1. CASE shuttingDown
    BY <1>1, <2>1 DEF CloseUnexpectedly
  <2>2. CASE ~shuttingDown
    <3>1. RecoverGateway("none", probes, presence)
          /\ UNCHANGED <<online, socketOn, paused, shuttingDown>>
      BY <1>1, <2>2 DEF CloseUnexpectedly
    <3> QED  BY <3>1, RecoverKeeps
  <2> QED  BY <2>1, <2>2
<1>2. CASE RestartStops
  BY <1>2 DEF RestartStops
<1>3. CASE RestartBinds
  BY <1>3 DEF RestartBinds
<1>4. CASE RestartSucceeds
  BY <1>4 DEF RestartSucceeds, PausePresence, Presences
<1>5. CASE RestartFails
  BY <1>5 DEF RestartFails
<1> QED  BY <1>1, <1>2, <1>3, <1>4, <1>5

\* A hello.ack keeps the invariant: its probe needs a server that listens.
LEMMA HelloKeeps ==
  ASSUME RecoveryInv, HelloAck
  PROVE  RecoveryInv'
<1>1. NextEpoch(probes) \subseteq Epochs /\ "present" \notin NextEpoch(probes)
  BY NextEpochIsOld
<1>2. CASE server = "listening"
  <2>1. /\ probes' = NextEpoch(probes) \cup {"present"} /\ presence' = "online"
        /\ online' = TRUE
        /\ UNCHANGED <<server, restart, healthy, connected, socketOn, paused, shuttingDown>>
    BY <1>2 DEF HelloAck
  <2> QED  BY <1>1, <1>2, <2>1 DEF RecoveryInv, TypeOK, Epochs, Presences,
             ConnectedIsHealthy, ConnectedOnlyWhileOnline, NotConnectedWhileDown,
             DownHasNoProbe
<1>3. CASE server # "listening"
  <2>1. /\ RecoverGateway(server, NextEpoch(probes), "online") /\ online' = TRUE
        /\ UNCHANGED <<socketOn, paused, shuttingDown>>
    BY <1>3 DEF HelloAck
  <2>2. server \in Servers /\ "online" \in Presences
        /\ (restart \in {"stopping", "binding"} =>
              server = "none" /\ "present" \notin NextEpoch(probes))
    BY <1>1 DEF RecoveryInv, TypeOK, DownHasNoProbe, Presences
  <2> QED  BY <1>1, <2>1, <2>2, RecoverKeeps
<1> QED  BY <1>2, <1>3

(***************************************************************************)
(* The answer of a probe keeps the invariant: it connects only if no epoch *)
(* began since and the status is online.                                   *)
(***************************************************************************)
LEMMA ProbeKeeps ==
  ASSUME RecoveryInv, NEW epoch \in Epochs, NEW alive \in BOOLEAN,
         ProbeAnswers(epoch, alive)
  PROVE  RecoveryInv'
<1>1. CASE epoch = "present" /\ online /\ alive
  <2>1. /\ "present" \in probes /\ healthy' = TRUE /\ connected' = TRUE
        /\ presence' = PausePresence /\ probes' = probes \ {epoch}
        /\ UNCHANGED <<server, restart, online, socketOn, paused, shuttingDown>>
    BY <1>1 DEF ProbeAnswers
  <2> QED  BY <1>1, <2>1 DEF RecoveryInv, TypeOK, PausePresence, Presences,
             ConnectedIsHealthy, ConnectedOnlyWhileOnline, NotConnectedWhileDown,
             DownHasNoProbe
<1>2. CASE epoch = "present" /\ online /\ ~alive
  <2>1. /\ RecoverGateway(server, probes \ {epoch}, presence)
        /\ UNCHANGED <<online, socketOn, paused, shuttingDown>>
    BY <1>2 DEF ProbeAnswers
  <2>2. /\ server \in Servers /\ probes \ {epoch} \subseteq Epochs /\ presence \in Presences
        /\ (restart \in {"stopping", "binding"} =>
              server = "none" /\ "present" \notin probes \ {epoch})
        /\ online' \in BOOLEAN
    BY <2>1 DEF RecoveryInv, TypeOK, DownHasNoProbe
  <2> QED  BY <2>1, <2>2, RecoverKeeps
<1>3. CASE ~(epoch = "present" /\ online)
  <2>1. /\ probes' = probes \ {epoch}
        /\ UNCHANGED <<server, restart, healthy, connected, presence, online, socketOn,
                       paused, shuttingDown>>
    BY <1>3 DEF ProbeAnswers
  <2> QED  BY <2>1 DEF RecoveryInv, TypeOK, ConnectedIsHealthy, ConnectedOnlyWhileOnline,
             NotConnectedWhileDown, DownHasNoProbe
<1> QED  BY <1>1, <1>2, <1>3

\* Status changes, the user and the shutdown keep the invariant.
LEMMA OutsideKeeps ==
  ASSUME RecoveryInv,
         \/ CloudDegrades \/ SocketRestarts \/ SocketStops
         \/ \E value \in BOOLEAN : SetCloudCommandsPaused(value)
         \/ QueueStatsChange
         \/ ShutdownBegins \/ ShutdownStopsSocket \/ ShutdownStopsServer
  PROVE  RecoveryInv'
<1> USE DEF RecoveryInv, TypeOK, Servers, Presences, ConnectedIsHealthy,
            ConnectedOnlyWhileOnline, NotConnectedWhileDown, DownHasNoProbe
<1>1. CASE CloudDegrades
  BY <1>1 DEF CloudDegrades
<1>2. CASE SocketRestarts
  BY <1>2 DEF SocketRestarts
<1>3. CASE SocketStops
  BY <1>3 DEF SocketStops
<1>4. CASE \E value \in BOOLEAN : SetCloudCommandsPaused(value)
  BY <1>4 DEF SetCloudCommandsPaused, SummaryPresence
<1>5. CASE QueueStatsChange
  BY <1>5 DEF QueueStatsChange, SummaryPresence
<1>6. CASE ShutdownBegins
  BY <1>6 DEF ShutdownBegins
<1>7. CASE ShutdownStopsSocket
  BY <1>7 DEF ShutdownStopsSocket
<1>8. CASE ShutdownStopsServer
  BY <1>8 DEF ShutdownStopsServer
<1> QED  BY <1>1, <1>2, <1>3, <1>4, <1>5, <1>6, <1>7, <1>8

(***************************************************************************)
(* The three connection invariants hold together in every reachable state. *)
(***************************************************************************)
THEOREM RecoveryInvariant == Spec => []RecoveryInv
<1>1. Init => RecoveryInv
  BY DEF Init, RecoveryInv, TypeOK, Servers, Restarts, Epochs, Presences,
         ConnectedIsHealthy, ConnectedOnlyWhileOnline, NotConnectedWhileDown,
         DownHasNoProbe
<1>2. RecoveryInv /\ [Next]_vars => RecoveryInv'
  <2> SUFFICES ASSUME RecoveryInv, [Next]_vars PROVE RecoveryInv'
    OBVIOUS
  <2>1. CASE UNCHANGED vars
    BY <2>1 DEF vars, RecoveryInv, TypeOK, ConnectedIsHealthy,
               ConnectedOnlyWhileOnline, NotConnectedWhileDown, DownHasNoProbe
  <2>2. CASE Next
    BY <2>2, RestartKeeps, HelloKeeps, ProbeKeeps, OutsideKeeps DEF Next, ProbeEnds
  <2> QED  BY <2>1, <2>2
<1> QED  BY <1>1, <1>2, PTL DEF Spec

\* The executor is connected only through a gateway believed healthy.
THEOREM ConnectedHealthy == Spec => []ConnectedIsHealthy
BY RecoveryInvariant, PTL DEF RecoveryInv

\* While the socket is on, only an online status connects the executor.
THEOREM ConnectedOnline == Spec => []ConnectedOnlyWhileOnline
BY RecoveryInvariant, PTL DEF RecoveryInv

\* A gateway that a restart has down gets no command.
THEOREM DownDisconnected == Spec => []NotConnectedWhileDown
BY RecoveryInvariant, PTL DEF RecoveryInv

\* Every variable of the recovery keeps its type.
THEOREM RecoveryTypeCorrect == Spec => []TypeOK
BY RecoveryInvariant, PTL DEF RecoveryInv

-----------------------------------------------------------------------------
(* What the relay was told.                                                *)

(***************************************************************************)
(* PresenceTellsPause is inductive given RecoveryInv.  A hello.ack says    *)
(* "online" whatever the user chose, but leaves a probe, whose answer puts *)
(* it right, or finds a restart; and what a restart absorbs, its own end   *)
(* puts right, as a gateway that is down until then does not listen.       *)
(***************************************************************************)
LEMMA RestartTellsPause ==
  ASSUME RecoveryInv, PresenceTellsPause,
         \/ CloseUnexpectedly \/ RestartStops \/ RestartBinds
         \/ RestartSucceeds \/ RestartFails
  PROVE  PresenceTellsPause'
<1> USE DEF PresenceTellsPause, AtRest, RecoveryInv, TypeOK
<1>1. CASE CloseUnexpectedly
  BY <1>1 DEF CloseUnexpectedly, RecoverGateway
<1>2. CASE RestartStops
  BY <1>2 DEF RestartStops
<1>3. CASE RestartBinds
  BY <1>3 DEF RestartBinds
<1>4. CASE RestartSucceeds
  BY <1>4 DEF RestartSucceeds, PausePresence
<1>5. CASE RestartFails
  BY <1>5 DEF RestartFails, DownHasNoProbe, Restarts
<1> QED  BY <1>1, <1>2, <1>3, <1>4, <1>5

\* The end of a probe sends the presence that was due.
LEMMA ProbeTellsPause ==
  ASSUME RecoveryInv, PresenceTellsPause,
         NEW epoch \in Epochs, NEW alive \in BOOLEAN, ProbeAnswers(epoch, alive)
  PROVE  PresenceTellsPause'
<1> USE DEF PresenceTellsPause, AtRest, RecoveryInv, TypeOK, ProbeAnswers
<1>1. CASE epoch = "present" /\ online /\ alive
  BY <1>1 DEF PausePresence
<1>2. CASE epoch = "present" /\ online /\ ~alive
  BY <1>2 DEF RecoverGateway
<1>3. CASE ~(epoch = "present" /\ online)
  BY <1>3 DEF Epochs
<1> QED  BY <1>1, <1>2, <1>3

\* What comes from outside sends a presence or leaves what it tells alone.
LEMMA OutsideTellsPause ==
  ASSUME RecoveryInv, PresenceTellsPause,
         \/ HelloAck \/ CloudDegrades \/ SocketRestarts \/ SocketStops
         \/ \E value \in BOOLEAN : SetCloudCommandsPaused(value)
         \/ QueueStatsChange
         \/ ShutdownBegins \/ ShutdownStopsSocket \/ ShutdownStopsServer
  PROVE  PresenceTellsPause'
<1> USE DEF PresenceTellsPause, AtRest, RecoveryInv, TypeOK
<1>1. CASE HelloAck
  BY <1>1 DEF HelloAck, RecoverGateway
<1>2. CASE CloudDegrades
  BY <1>2 DEF CloudDegrades
<1>3. CASE SocketRestarts
  BY <1>3 DEF SocketRestarts
<1>4. CASE SocketStops
  BY <1>4 DEF SocketStops
<1>5. CASE \E value \in BOOLEAN : SetCloudCommandsPaused(value)
  BY <1>5 DEF SetCloudCommandsPaused, SummaryPresence
<1>6. CASE QueueStatsChange
  BY <1>6 DEF QueueStatsChange, SummaryPresence
<1>7. CASE ShutdownBegins
  BY <1>7 DEF ShutdownBegins
<1>8. CASE ShutdownStopsSocket
  BY <1>8 DEF ShutdownStopsSocket
<1>9. CASE ShutdownStopsServer
  BY <1>9 DEF ShutdownStopsServer
<1> QED  BY <1>1, <1>2, <1>3, <1>4, <1>5, <1>6, <1>7, <1>8, <1>9

(***************************************************************************)
(* With nothing in flight and a gateway that serves, the relay was told    *)
(* last whether the user has paused the commands.                          *)
(***************************************************************************)
THEOREM RelayKnowsPause == Spec => []PresenceTellsPause
<1>1. Init => PresenceTellsPause
  BY DEF Init, PresenceTellsPause, AtRest
<1>2. RecoveryInv /\ PresenceTellsPause /\ [Next]_vars => PresenceTellsPause'
  <2> SUFFICES ASSUME RecoveryInv, PresenceTellsPause, [Next]_vars
               PROVE  PresenceTellsPause'
    OBVIOUS
  <2>1. CASE UNCHANGED vars
    BY <2>1 DEF vars, PresenceTellsPause, AtRest
  <2>2. CASE Next
    BY <2>2, RestartTellsPause, ProbeTellsPause, OutsideTellsPause DEF Next, ProbeEnds
  <2> QED  BY <2>1, <2>2
<1> QED  BY <1>1, <1>2, RecoveryInvariant, PTL DEF Spec

=============================================================================
