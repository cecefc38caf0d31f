----------------------------- MODULE CloudLink -----------------------------
(***************************************************************************)
(* The cloud socket (CloudSocketService) joined to the gateway recovery:   *)
(* GatewayRecovery takes the statuses of the socket as they come, here     *)
(* they come from its connection, the hello handshake and its timers.      *)
(* Every action of the socket is one of GatewayRecovery or leaves its      *)
(* variables alone.                                                        *)
(*                                                                         *)
(* The request signer of the application is synchronous, so the awaits of  *)
(* start() and of a reconnect are over before the next event and the       *)
(* service has one socket at a time.                                       *)
(***************************************************************************)
EXTENDS GatewayRecovery

CONSTANT MaxHelloAckTimeouts

ASSUME HelloAssumption == MaxHelloAckTimeouts \in Nat \ {0}

VARIABLES
  link,        \* the socket: none, connecting, open or down
  awaiting,    \* awaitingHelloAck
  hellos,      \* hellos on this connection that the relay has yet to handle
  timeouts,    \* helloAckTimeoutCount
  helloTimer,  \* helloAckTimer is set
  reconnect,   \* reconnectTimer is set
  degraded     \* degradedSince is set

socket == <<link, awaiting, hellos, timeouts, helloTimer, reconnect, degraded>>
linkVars == <<vars, socket>>

Links == {"none", "connecting", "open", "down"}

-----------------------------------------------------------------------------
(* The connection.                                                         *)

\* connect: the hello is sent and waited for.
Connect ==
  /\ link = "connecting"
  /\ link' = "open"
  /\ awaiting' = TRUE
  /\ hellos' = 1
  /\ timeouts' = 0
  /\ helloTimer' = TRUE
  /\ reconnect' = FALSE
  /\ UNCHANGED <<vars, degraded>>

\* The socket is down: a reconnect is scheduled.
Down ==
  /\ link' = "down"
  /\ awaiting' = FALSE
  /\ hellos' = 0
  /\ helloTimer' = FALSE
  /\ reconnect' = TRUE
  /\ degraded' = TRUE

ConnectError ==
  /\ link = "connecting"
  /\ Down
  /\ CloudDegrades
  /\ UNCHANGED timeouts

Disconnect ==
  /\ link = "open"
  /\ Down
  /\ CloudDegrades
  /\ UNCHANGED timeouts

\* The relay answers a hello; the answer to a repeated one may follow it.
HelloAcked ==
  /\ link = "open"
  /\ hellos > 0
  /\ hellos' = hellos - 1
  /\ awaiting' = FALSE
  /\ timeouts' = 0
  /\ helloTimer' = FALSE
  /\ degraded' = FALSE
  /\ HelloAck
  /\ UNCHANGED <<link, reconnect>>

\* The relay hangs on a hello, or drops it.
HelloLost ==
  /\ hellos > 0
  /\ hellos' = hellos - 1
  /\ UNCHANGED <<vars, link, awaiting, timeouts, helloTimer, reconnect, degraded>>

MutantHelloTimesOut ==
  /\ helloTimer
  /\ awaiting
  /\ timeouts' = timeouts + 1
  /\ IF timeouts' >= MaxHelloAckTimeouts
     THEN /\ helloTimer' = FALSE
          /\ UNCHANGED <<link, awaiting, hellos, reconnect, degraded>>
     ELSE /\ hellos' = hellos + 1
          /\ UNCHANGED <<link, awaiting, helloTimer, reconnect, degraded>>
  /\ CloudDegrades

(***************************************************************************)
(* The hello timer: the hello is sent again, or after as many timeouts as  *)
(* allowed the socket is dropped, which also reports "disconnect".         *)
(***************************************************************************)
HelloTimesOut ==
  /\ helloTimer
  /\ awaiting
  /\ timeouts' = timeouts + 1
  /\ IF timeouts' >= MaxHelloAckTimeouts
     THEN Down
     ELSE /\ hellos' = hellos + 1
          /\ UNCHANGED <<link, awaiting, helloTimer, reconnect, degraded>>
  /\ CloudDegrades

\* The reconnect timer.
Reconnect ==
  /\ reconnect
  /\ reconnect' = FALSE
  /\ link' = IF link = "down" THEN "connecting" ELSE link
  /\ UNCHANGED <<vars, awaiting, hellos, timeouts, helloTimer, degraded>>

-----------------------------------------------------------------------------
(* start, stop and restart.                                                *)

\* Timers and handshake of a socket that is dropped without its events.
Cleared ==
  /\ awaiting' = FALSE
  /\ hellos' = 0
  /\ timeouts' = 0
  /\ helloTimer' = FALSE
  /\ reconnect' = FALSE
  /\ degraded' = FALSE

\* Without an API key or a valid origin there is no socket.
Start ==
  /\ link' \in {"connecting", "none"}
  /\ Cleared
  /\ SocketRestarts

\* The recovery interval: degraded for too long.
ForceReconnect ==
  /\ socketOn
  /\ link # "none"
  /\ degraded
  /\ Start

Stop ==
  /\ link' = "none"
  /\ Cleared
  /\ SocketStops \/ ShutdownStopsSocket

-----------------------------------------------------------------------------

LinkInit ==
  /\ Init
  /\ link = "none"
  /\ awaiting = FALSE
  /\ hellos = 0
  /\ timeouts = 0
  /\ helloTimer = FALSE
  /\ reconnect = FALSE
  /\ degraded = FALSE

SocketStep == \/ Connect \/ ConnectError \/ Disconnect \/ HelloAcked
              \/ HelloLost \/ HelloTimesOut \/ Reconnect
              \/ Start \/ ForceReconnect \/ Stop

\* What the gateway, the user and the executor do without the socket.
GatewayStep ==
  /\ \/ CloseUnexpectedly
     \/ RestartStops \/ RestartBinds \/ RestartSucceeds \/ RestartFails
     \/ ProbeEnds
     \/ \E value \in BOOLEAN : SetCloudCommandsPaused(value)
     \/ QueueStatsChange
     \/ ShutdownBegins \/ ShutdownStopsServer
  /\ UNCHANGED socket

LinkNext == SocketStep \/ GatewayStep

LinkSpec == LinkInit /\ [][LinkNext]_linkVars

(***************************************************************************)
(* Timers fire.  An attempt to connect that is made again and again        *)
(* succeeds at last, and so does a hello.  Requests and system calls of    *)
(* the gateway end, and binding succeeds at last.  No connection is        *)
(* assumed to break.                                                       *)
(***************************************************************************)
LinkFairness ==
  /\ SF_linkVars(Connect)
  /\ SF_linkVars(HelloAcked)
  /\ WF_linkVars(HelloTimesOut)
  /\ WF_linkVars(Reconnect)
  /\ WF_linkVars(ProbeEnds /\ UNCHANGED socket)
  /\ WF_linkVars(RestartStops /\ UNCHANGED socket)
  /\ SF_linkVars(RestartBinds /\ UNCHANGED socket)
  /\ WF_linkVars((RestartSucceeds \/ RestartFails) /\ restart = "writing"
                   /\ UNCHANGED socket)

FairLinkSpec == LinkSpec /\ LinkFairness

-----------------------------------------------------------------------------
(* Properties.                                                             *)

(***************************************************************************)
(* A socket that was started is online at last, from wherever it is: no    *)
(* order of errors, lost hellos, late answers and timers leaves it without *)
(* an attempt to connect or to greet.  (Without a key it has no socket.)   *)
(***************************************************************************)
ComesOnline == link # "none" ~> online \/ link = "none"

(***************************************************************************)
(* A gateway that is down is bound again by the next connection, although  *)
(* a close that falls into a restart is lost and a failed restart is not   *)
(* retried: a socket that stays online does not ask.                       *)
(***************************************************************************)
Serves == server = "listening" \/ shuttingDown \/ link = "none"

DownIsRepairedByReconnects == []<>(~online) => []<>Serves

=============================================================================
