-------------------------- MODULE GatewayRecovery --------------------------
(***************************************************************************)
(* The local gateway (DesktopGatewayServer), the manager that restarts it  *)
(* (GatewayRecoveryManager) and the composition root between the two, the  *)
(* cloud socket and the command executor: who may tell the executor that   *)
(* it is connected, and what the relay is told of the desktop (presence).  *)
(*                                                                         *)
(* An action runs to the next await that waits for the outside: a status   *)
(* of the socket, the answer of a probe, a phase of a restart.             *)
(***************************************************************************)
EXTENDS Integers

VARIABLES
  server,        \* of the gateway: none, listening, or closed but referred to
  restart,       \* the await of the recovery in flight, "none" without one
  healthy,       \* gatewayHealthy
  probes,        \* awaits of onCloudOnline: of the present epoch or an old one
  online,        \* cloudStatus is "online"
  socketOn,      \* the cloud socket was started and not stopped
  connected,     \* what the executor was told last
  paused,        \* cloudCommandsPaused
  presence,      \* the state sent to the relay last
  shuttingDown

vars == <<server, restart, healthy, probes, online, socketOn, connected,
          paused, presence, shuttingDown>>

Servers   == {"none", "listening", "closed"}
Restarts  == {"none", "stopping", "binding", "writing"}
Epochs    == {"present", "old"}
Presences == {"none", "online", "degraded"}

-----------------------------------------------------------------------------
(* Presence.                                                               *)

PausePresence == IF paused THEN "degraded" ELSE "online"

\* What the pause switch and a change of the queue statistics report.
SummaryPresence(pause) ==
  IF online /\ ~pause /\ healthy THEN "online" ELSE "degraded"

-----------------------------------------------------------------------------
(* Recovery.                                                               *)

MutantNextEpoch(ps) == ps

(***************************************************************************)
(* ++epoch.  A probe compares its epoch with the present one and drops its *)
(* answer if they differ, so all the older ones are alike.                 *)
(***************************************************************************)
NextEpoch(ps) == IF ps = {} THEN {} ELSE {"old"}

MutantRecoverGateway(s, ps, sent) ==
  IF restart # "none"
  THEN /\ server' = s
       /\ probes' = ps
       /\ presence' = sent
       /\ UNCHANGED <<restart, healthy, connected>>
  ELSE /\ server' = "none"
       /\ restart' = IF s = "none" THEN "binding" ELSE "stopping"
       /\ probes' = NextEpoch(ps)
       /\ healthy' = FALSE
       /\ connected' = FALSE
       /\ presence' = "recovering"

(***************************************************************************)
(* recoverGateway, given the server, the probes and the presence at the    *)
(* call.  A recovery in flight absorbs the call.  Otherwise the restart    *)
(* runs to its first await: stop() drops its server before it closes it,   *)
(* and without a server start() goes on to bind at once.                   *)
(***************************************************************************)
RecoverGateway(s, ps, sent) ==
  IF restart # "none"
  THEN /\ server' = s
       /\ probes' = ps
       /\ presence' = sent
       /\ UNCHANGED <<restart, healthy, connected>>
  ELSE /\ server' = "none"
       /\ restart' = IF s = "none" THEN "binding" ELSE "stopping"
       /\ probes' = NextEpoch(ps)
       /\ healthy' = FALSE
       /\ connected' = FALSE
       /\ presence' = "degraded"

\* The server is closed by something else than stop().
CloseUnexpectedly ==
  /\ server = "listening"
  /\ IF shuttingDown
     THEN /\ server' = "none"
          /\ UNCHANGED <<restart, healthy, probes, connected, presence>>
     ELSE RecoverGateway("none", probes, presence)
  /\ UNCHANGED <<online, socketOn, paused, shuttingDown>>

\* stop() is over.
RestartStops ==
  /\ restart = "stopping"
  /\ restart' = "binding"
  /\ UNCHANGED <<server, healthy, probes, online, socketOn, connected, paused,
                 presence, shuttingDown>>

\* One of the candidate ports is bound, the discovery file remains to write.
RestartBinds ==
  /\ restart = "binding"
  /\ restart' = "writing"
  /\ server' = "listening"
  /\ UNCHANGED <<healthy, probes, online, socketOn, connected, paused, presence,
                 shuttingDown>>

MutantUncheckedStatus ==
  /\ restart = "writing"
  /\ restart' = "none"
  /\ healthy' = TRUE
  /\ connected' = TRUE
  /\ presence' = PausePresence
  /\ UNCHANGED <<server, probes, online, socketOn, paused, shuttingDown>>

MutantPauseForgotten ==
  /\ restart = "writing"
  /\ restart' = "none"
  /\ healthy' = TRUE
  /\ IF online
     THEN connected' = TRUE /\ presence' = "online"
     ELSE UNCHANGED <<connected, presence>>
  /\ UNCHANGED <<server, probes, online, socketOn, paused, shuttingDown>>

\* doRecover after the restart; the finally clears recoveryInFlight.
RestartSucceeds ==
  /\ restart = "writing"
  /\ restart' = "none"
  /\ healthy' = TRUE
  /\ IF online
     THEN connected' = TRUE /\ presence' = PausePresence
     ELSE UNCHANGED <<connected, presence>>
  /\ UNCHANGED <<server, probes, online, socketOn, paused, shuttingDown>>

MutantConnectsAnyway ==
  /\ restart # "none"
  /\ restart' = "none"
  /\ server' = IF restart = "writing" /\ server = "listening" THEN "closed"
                                                              ELSE server
  /\ connected' = online
  /\ UNCHANGED <<healthy, probes, online, socketOn, paused, presence,
                 shuttingDown>>

(***************************************************************************)
(* No port is free, or the discovery file cannot be written: start() then  *)
(* removes the listeners of its server and closes it, but keeps it.        *)
(***************************************************************************)
RestartFails ==
  /\ restart # "none"
  /\ restart' = "none"
  /\ server' = IF restart = "writing" /\ server = "listening" THEN "closed"
                                                              ELSE server
  /\ UNCHANGED <<healthy, probes, online, socketOn, connected, paused, presence,
                 shuttingDown>>

-----------------------------------------------------------------------------
(* The cloud socket.                                                       *)

MutantHelloAck ==
  /\ socketOn
  /\ online' = TRUE
  /\ probes' = NextEpoch(probes) \cup
                 (IF server = "listening" THEN {"present"} ELSE {})
  /\ presence' = "online"
  /\ UNCHANGED <<server, restart, healthy, connected, socketOn, paused,
                 shuttingDown>>

(***************************************************************************)
(* desktop.hello.ack: status "online", hence onCloudOnline, and then the   *)
(* socket itself sends presence "online".  A probe of a gateway that does  *)
(* not listen is answered before the next event.                           *)
(***************************************************************************)
HelloAck ==
  /\ socketOn
  /\ online' = TRUE
  /\ IF server = "listening"
     THEN /\ probes' = NextEpoch(probes) \cup {"present"}
          /\ presence' = "online"
          /\ UNCHANGED <<server, restart, healthy, connected>>
     ELSE RecoverGateway(server, NextEpoch(probes), "online")
  /\ UNCHANGED <<socketOn, paused, shuttingDown>>

\* The health request of a probe; it may fail although the gateway listens,
\* and succeed although it no longer does.
ProbeAnswers(epoch, alive) ==
  /\ epoch \in probes
  /\ IF epoch = "present" /\ online
     THEN IF alive
          THEN /\ healthy' = TRUE
               /\ connected' = TRUE
               /\ presence' = PausePresence
               /\ probes' = probes \ {epoch}
               /\ UNCHANGED <<server, restart>>
          ELSE RecoverGateway(server, probes \ {epoch}, presence)
     ELSE /\ probes' = probes \ {epoch}
          /\ UNCHANGED <<server, restart, healthy, connected, presence>>
  /\ UNCHANGED <<online, socketOn, paused, shuttingDown>>

\* A disconnect, a connection error, a missing hello.ack.
CloudDegrades ==
  /\ socketOn
  /\ online' = FALSE
  /\ connected' = FALSE
  /\ presence' = "degraded"
  /\ UNCHANGED <<server, restart, healthy, probes, socketOn, paused,
                 shuttingDown>>

(***************************************************************************)
(* The socket is started again: the connection was enabled, a setting      *)
(* changed, it was degraded for too long.  Status "idle" is not sent on;   *)
(* without an API key or a valid origin it is "degraded".                  *)
(***************************************************************************)
SocketRestarts ==
  /\ socketOn' = TRUE
  /\ online' = FALSE
  /\ connected' = FALSE
  /\ presence' \in {presence, "degraded"}
  /\ UNCHANGED <<server, restart, healthy, probes, paused, shuttingDown>>

(***************************************************************************)
(* The user disabled the connection or deleted the active configuration:   *)
(* nobody tells the executor.                                              *)
(***************************************************************************)
SocketStops ==
  /\ socketOn
  /\ socketOn' = FALSE
  /\ online' = FALSE
  /\ UNCHANGED <<server, restart, healthy, probes, connected, paused, presence,
                 shuttingDown>>

-----------------------------------------------------------------------------
(* The user, the executor, the end.                                        *)

SetCloudCommandsPaused(value) ==
  /\ paused' = value
  /\ presence' = SummaryPresence(value)
  /\ UNCHANGED <<server, restart, healthy, probes, online, socketOn, connected,
                 shuttingDown>>

QueueStatsChange ==
  /\ presence' = SummaryPresence(paused)
  /\ UNCHANGED <<server, restart, healthy, probes, online, socketOn, connected,
                 paused, shuttingDown>>

ShutdownBegins ==
  /\ ~shuttingDown
  /\ shuttingDown' = TRUE
  /\ UNCHANGED <<server, restart, healthy, probes, online, socketOn, connected,
                 paused, presence>>

\* cloudSocket.stop and commandExecutor.dispose of the shutdown sequence.
ShutdownStopsSocket ==
  /\ shuttingDown
  /\ socketOn
  /\ socketOn' = FALSE
  /\ UNCHANGED <<server, restart, healthy, probes, online, connected, paused,
                 presence, shuttingDown>>

\* server.stop of the shutdown sequence.
ShutdownStopsServer ==
  /\ shuttingDown
  /\ ~socketOn
  /\ server # "none"
  /\ server' = "none"
  /\ UNCHANGED <<restart, healthy, probes, online, socketOn, connected, paused,
                 presence, shuttingDown>>

-----------------------------------------------------------------------------

\* The gateway serves and the socket has not been started yet.
Init ==
  /\ server = "listening"
  /\ restart = "none"
  /\ healthy = TRUE
  /\ probes = {}
  /\ online = FALSE
  /\ socketOn = FALSE
  /\ connected = FALSE
  /\ paused \in BOOLEAN
  /\ presence = "none"
  /\ shuttingDown = FALSE

ProbeEnds == \E epoch \in Epochs, alive \in BOOLEAN : ProbeAnswers(epoch, alive)

Next ==
  \/ CloseUnexpectedly
  \/ RestartStops
  \/ RestartBinds
  \/ RestartSucceeds
  \/ RestartFails
  \/ HelloAck
  \/ ProbeEnds
  \/ CloudDegrades
  \/ SocketRestarts
  \/ SocketStops
  \/ \E value \in BOOLEAN : SetCloudCommandsPaused(value)
  \/ QueueStatsChange
  \/ ShutdownBegins
  \/ ShutdownStopsSocket
  \/ ShutdownStopsServer

Spec == Init /\ [][Next]_vars

-----------------------------------------------------------------------------
(* Properties.                                                             *)

\* Every variable has its type.
TypeOK ==
  /\ server \in Servers
  /\ restart \in Restarts
  /\ healthy \in BOOLEAN
  /\ probes \subseteq Epochs
  /\ online \in BOOLEAN
  /\ socketOn \in BOOLEAN
  /\ connected \in BOOLEAN
  /\ paused \in BOOLEAN
  /\ presence \in Presences
  /\ shuttingDown \in BOOLEAN

(***************************************************************************)
(* The executor starts commands only through a gateway that is believed    *)
(* healthy, whatever probes, restarts and reconnects overlap.              *)
(***************************************************************************)
ConnectedIsHealthy == connected => healthy

(***************************************************************************)
(* While the socket is on, the executor is connected only during an online *)
(* status: an answer that comes after the cloud went away connects nothing *)
(* ("stale epoch cancels reconnect").                                      *)
(***************************************************************************)
ConnectedOnlyWhileOnline == connected /\ socketOn => online

(***************************************************************************)
(* No command is sent to a gateway that a restart has taken down and not   *)
(* bound again: a probe that was answered before the restart is void.      *)
(***************************************************************************)
NotConnectedWhileDown == restart \in {"stopping", "binding"} => ~connected

(***************************************************************************)
(* When nothing is in flight and the gateway serves and is believed        *)
(* healthy, the relay was told last what holds: online exactly if the user *)
(* has not paused the commands.                                            *)
(***************************************************************************)
AtRest == restart = "none" /\ probes \cap {"present"} = {}

PresenceTellsPause ==
  AtRest /\ online /\ socketOn /\ healthy /\ server = "listening" =>
    (presence = "online" <=> ~paused)

-----------------------------------------------------------------------------
(* A statement of the repository that the code does not keep.              *)

(***************************************************************************)
(* "failed probe + failed restart leaves degraded": with the gateway       *)
(* unhealthy and nothing in flight, the relay has been told so.            *)
(***************************************************************************)
FailedRestartLeavesDegraded ==
  AtRest /\ online /\ socketOn /\ ~healthy => presence = "degraded"

=============================================================================
