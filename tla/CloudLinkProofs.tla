-------------------------- MODULE CloudLinkProofs --------------------------
(***************************************************************************)
(* The composition of the cloud socket with the gateway recovery           *)
(* implements the recovery alone: whatever order of connections, hellos    *)
(* and timers the socket goes through, the statuses it reports are ones    *)
(* that GatewayRecovery allows, so what is proved of the latter holds      *)
(* behind the real socket.                                                 *)
(***************************************************************************)
EXTENDS CloudLink, GatewayRecoveryProofs

(***************************************************************************)
(* A step of the socket is an action of the recovery, or changes nothing   *)
(* of it.                                                                  *)
(***************************************************************************)
LEMMA SocketStepIsAllowed ==
  ASSUME SocketStep
  PROVE  [Next]_vars
<1>1. CASE Connect \/ HelloLost \/ Reconnect
  BY <1>1 DEF Connect, HelloLost, Reconnect
<1>2. CASE ConnectError \/ Disconnect \/ HelloTimesOut
  <2>1. CloudDegrades
    BY <1>2 DEF ConnectError, Disconnect, HelloTimesOut
  <2> QED  BY <2>1 DEF Next
<1>3. CASE HelloAcked
  <2>1. HelloAck
    BY <1>3 DEF HelloAcked
  <2> QED  BY <2>1 DEF Next
<1>4. CASE Start \/ ForceReconnect
  <2>1. SocketRestarts
    BY <1>4 DEF Start, ForceReconnect
  <2> QED  BY <2>1 DEF Next
<1>5. CASE Stop
  <2>1. SocketStops \/ ShutdownStopsSocket
    BY <1>5 DEF Stop
  <2> QED  BY <2>1 DEF Next
<1> QED  BY <1>1, <1>2, <1>3, <1>4, <1>5 DEF SocketStep

\* The steps of the gateway are steps of GatewayRecovery as they stand.
LEMMA GatewayStepIsAllowed ==
  ASSUME GatewayStep
  PROVE  [Next]_vars
BY DEF GatewayStep, Next

(***************************************************************************)
(* The socket and the recovery together implement the recovery as it is    *)
(* specified by itself.                                                    *)
(***************************************************************************)
THEOREM LinkImplementsRecovery == LinkSpec => Spec
<1>1. LinkInit => Init
  BY DEF LinkInit
<1>2. [LinkNext]_linkVars => [Next]_vars
  <2>1. CASE LinkNext
    BY <2>1, SocketStepIsAllowed, GatewayStepIsAllowed DEF LinkNext
  <2>2. CASE UNCHANGED linkVars
    BY <2>2 DEF linkVars
  <2> QED  BY <2>1, <2>2
<1> QED  BY <1>1, <1>2, PTL DEF LinkSpec, Spec

(***************************************************************************)
(* Behind the real socket too, the executor is connected only to a healthy *)
(* gateway, only during an online status and never during a restart, and   *)
(* the relay knows whether the user paused the commands.                   *)
(***************************************************************************)
THEOREM LinkConnectsSafely ==
  LinkSpec => [](/\ ConnectedIsHealthy
                 /\ ConnectedOnlyWhileOnline
                 /\ NotConnectedWhileDown
                 /\ PresenceTellsPause)
BY LinkImplementsRecovery, ConnectedHealthy, ConnectedOnline, DownDisconnected,
   RelayKnowsPause, PTL

=============================================================================
