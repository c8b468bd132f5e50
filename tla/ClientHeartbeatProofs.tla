------------------------ MODULE ClientHeartbeatProofs ------------------------
(***************************************************************************)
(* What holds of the heartbeat for every number of clients, vanishing as   *)
(* they may: the proxy keeps its promises, clients that answer are kept,   *)
(* and those that vanished are terminated within two ticks.                *)
(***************************************************************************)
EXTENDS ClientHeartbeat, EventStreamProxyProofs

\* The inductive invariant: a client that is there and silent still owes the pong of
\* the last ping, and a lost one that was missed once can never answer again.
HeartbeatInv ==
    /\ HeartbeatTypeOK
    /\ \A c \in Clients :
          /\ link[c] = "none" <=> ~Connected(c)
          /\ link[c] = "none" => ~pongDue[c] /\ missed[c] = 0
          /\ link[c] = "lost" => c \notin Prompt
          /\ link[c] = "up" => isAlive[c] \/ pongDue[c]
          /\ missed[c] # 0 => ~isAlive[c] /\ ~pongDue[c]
          /\ missed[c] <= 1

\* A step of the heartbeat leaves the proxy alone.
LEMMA HeartbeatStepUnchanged == HeartbeatStep => UNCHANGED vars
  BY DEF HeartbeatStep, Vanish, Pong, Ping

\* Superimposing the heartbeat adds nothing to what the proxy does: every behaviour
\* of the two together is one of the proxy (EventStreamProxy and its base class).
THEOREM HeartbeatImplementsProxy == HeartbeatSpec => Spec
<1>1. HeartbeatInit => Init
  BY DEF HeartbeatInit
<1>2. [HeartbeatNext]_<<vars, heartbeatVars>> => [Next]_vars
  BY HeartbeatStepUnchanged DEF HeartbeatNext, ProxyStep
<1> QED
  BY <1>1, <1>2, PTL DEF HeartbeatSpec, Spec

\* So clients that vanish, at any time and any number of them, never make EVMConnect
\* skip a batch, nor the maps disagree, nor leak a socket; nor do they make batches
\* overtake each other or overlap, beyond the crossing in transit that these two
\* properties set aside; and EVMConnect is left waiting only by the steps that Slips
\* names (handleDisconnect, send).
THEOREM VanishingIsHarmless ==
  HeartbeatSpec => /\ []NoBatchSkipped
                   /\ []HandedOutInOrder
                   /\ OneBatchAtATime
                   /\ ForgottenOnlyBySlips
                   /\ LeakedOnlyByRaces
                   /\ []RegistryConsistent
                   /\ []HolderIsClient
                   /\ ImplementsAtLeastOnce
  BY HeartbeatImplementsProxy, NoBatchEverSkipped, AlwaysHandedOutInOrder,
     AlwaysOneBatchAtATime, OnlySlipsForget, LeaksNeedRaces, RegistryAlwaysConsistent,
     HolderIsAlwaysClient, ProxyImplementsAtLeastOnce, PTL

\* The invariant holds initially.
LEMMA HeartbeatInitInv == HeartbeatInit => HeartbeatInv
  BY DEF HeartbeatInit, Init, HeartbeatInv, HeartbeatTypeOK, Links, Connected

\* A client that is connected after a step of the proxy was new or connected before.
LEMMA OnlyNewConnect ==
  ASSUME TypeOK, Next, NEW c \in Clients, clientState'[c] = "connected"
  PROVE  clientState[c] \in {"new", "connected"}
<1>1. clientState \in [Clients -> {"new", "connected", "gone"}]
  BY DEF TypeOK
<1>2. ASSUME NEW d \in Clients, ClientStep(d)
      PROVE  clientState[c] \in {"new", "connected"}
  <2>1. CASE Connect(d)
    BY <1>1, <2>1 DEF Connect
  <2>2. CASE Disconnect(d)
    BY <1>1, <2>2 DEF Disconnect
  <2>3. CASE Restart
    BY <1>1, <2>3 DEF Restart
  <2>4. CASE UNCHANGED clientState
    BY <1>1, <2>4
  <2> QED
    BY <1>2, <2>1, <2>2, <2>3, <2>4
    DEF ClientStep, DisconnectThrows, SendBatch, StartRegistered, Start,
        StartConnected, StartFailed, Ack, AckThrows
<1>3. ASSUME NEW s \in Sockets, SocketEvent(s) PROVE UNCHANGED clientState
  BY <1>3 DEF SocketEvent, SocketStep, SocketOpens, SocketLost, SocketOnClose,
              SocketReconnects, UpstreamDispatches, BatchArrives, UpstreamReceives
<1>4. CASE Crash
  BY <1>1, <1>4 DEF Crash, Restart
<1>5. (\E n \in Namespaces : UpstreamNoticesLoss(n)) \/ DropBatch
      => UNCHANGED clientState
  BY DEF UpstreamNoticesLoss, DropBatch
<1> QED
  BY <1>1, <1>2, <1>3, <1>4, <1>5 DEF Next

\* A step of the proxy preserves the invariant: only connections begin or end.
LEMMA ProxyStepInv == TypeOK /\ HeartbeatInv /\ ProxyStep => HeartbeatInv'
<1> SUFFICES ASSUME TypeOK, HeartbeatInv, ProxyStep PROVE HeartbeatInv'
  OBVIOUS
<1>1. Accepted /\ Next
  BY DEF ProxyStep
<1>2. link' \in [Clients -> Links] /\ missed' \in [Clients -> Nat]
  BY <1>1 DEF Accepted, HeartbeatInv, HeartbeatTypeOK, Links
<1>3. isAlive' \in [Clients -> BOOLEAN] /\ pongDue' \in [Clients -> BOOLEAN]
  BY <1>1, Zenon DEF Accepted, HeartbeatInv, HeartbeatTypeOK
<1>4. ASSUME NEW c \in Clients
      PROVE  /\ pongDue'[c] => ~isAlive'[c]
             /\ link'[c] = "none" <=> ~Connected(c)'
             /\ link'[c] = "none" => ~pongDue'[c] /\ missed'[c] = 0
             /\ link'[c] = "lost" => c \notin Prompt
             /\ link'[c] = "up" => isAlive'[c] \/ pongDue'[c]
             /\ missed'[c] # 0 => ~isAlive'[c] /\ ~pongDue'[c]
             /\ missed'[c] <= 1
  <2> DEFINE stays == clientState'[c] = "connected"
             isNew == clientState[c] = "new"
  <2>1. /\ link'[c] = IF ~stays THEN "none" ELSE IF isNew THEN "up" ELSE link[c]
        /\ missed'[c] = IF stays THEN missed[c] ELSE 0
    BY <1>1 DEF Accepted
  <2>2. isAlive'[c] <=> stays /\ (isNew \/ isAlive[c])
    BY <1>1, Zenon DEF Accepted
  <2>3. pongDue'[c] <=> stays /\ pongDue[c]
    BY <1>1, Zenon DEF Accepted
  <2>4. /\ pongDue[c] => ~isAlive[c]
        /\ link[c] = "none" <=> clientState[c] # "connected"
        /\ link[c] = "lost" => c \notin Prompt
        /\ link[c] = "up" => isAlive[c] \/ pongDue[c]
        /\ missed[c] # 0 => ~isAlive[c] /\ ~pongDue[c]
        /\ missed[c] \in Nat /\ missed[c] <= 1
        /\ link[c] = "none" => ~pongDue[c] /\ missed[c] = 0
        /\ isNew => clientState[c] # "connected"
    BY DEF HeartbeatInv, HeartbeatTypeOK, Connected
  <2>5. stays => isNew \/ clientState[c] = "connected"
    BY <1>1, OnlyNewConnect
  <2>6. Connected(c)' <=> stays
    BY DEF Connected
  <2> HIDE DEF stays, isNew
  <2> QED
    BY <2>1, <2>2, <2>3, <2>4, <2>5, <2>6
<1> QED
  BY <1>2, <1>3, <1>4 DEF HeartbeatInv, HeartbeatTypeOK

\* What the steps of the heartbeat may do to one client.
LEMMA HeartbeatStepInv == HeartbeatInv /\ HeartbeatStep => HeartbeatInv'
<1> SUFFICES ASSUME HeartbeatInv, HeartbeatStep PROVE HeartbeatInv'
  OBVIOUS
<1>1. UNCHANGED vars /\ \A c \in Clients : Connected(c)' <=> Connected(c)
  BY HeartbeatStepUnchanged DEF vars, Connected
<1>2. ASSUME NEW d \in Clients, Vanish(d) PROVE HeartbeatInv'
  BY <1>1, <1>2 DEF Vanish, HeartbeatInv, HeartbeatTypeOK, Links
<1>3. ASSUME NEW d \in Clients, Pong(d) PROVE HeartbeatInv'
  <2>1. /\ isAlive' \in [Clients -> BOOLEAN]
        /\ pongDue' \in [Clients -> BOOLEAN]
    BY <1>3, Zenon DEF Pong, HeartbeatInv, HeartbeatTypeOK
  <2>2. ASSUME NEW c \in Clients
        PROVE  /\ c = d => isAlive'[c] /\ ~pongDue'[c]
               /\ c # d => (isAlive'[c] <=> isAlive[c]) /\ (pongDue'[c] <=> pongDue[c])
    BY <1>3, Zenon DEF Pong, HeartbeatInv, HeartbeatTypeOK
  <2> QED
    BY <1>1, <1>3, <2>1, <2>2 DEF Pong, HeartbeatInv, HeartbeatTypeOK
<1>4. CASE Ping
  <2>1. link' \in [Clients -> Links] /\ missed' \in [Clients -> Nat]
    BY <1>4 DEF Ping, HeartbeatInv, HeartbeatTypeOK, Links
  <2>2. isAlive' \in [Clients -> BOOLEAN] /\ pongDue' \in [Clients -> BOOLEAN]
    BY <1>4, Zenon DEF Ping, HeartbeatInv, HeartbeatTypeOK
  <2>3. ASSUME NEW c \in Clients
        PROVE  /\ pongDue'[c] => ~isAlive'[c]
               /\ link'[c] = "none" <=> ~Connected(c)'
               /\ link'[c] = "none" => ~pongDue'[c] /\ missed'[c] = 0
               /\ link'[c] = "lost" => c \notin Prompt
               /\ link'[c] = "up" => isAlive'[c] \/ pongDue'[c]
               /\ missed'[c] # 0 => ~isAlive'[c] /\ ~pongDue'[c]
               /\ missed'[c] <= 1
    <3>1. /\ link'[c] = IF Terminates(c) THEN "terminated" ELSE link[c]
          /\ missed'[c] = IF Terminates(c) THEN 0
                          ELSE IF link[c] = "lost" /\ missed[c] < 2 THEN missed[c] + 1
                          ELSE missed[c]
      BY <1>4 DEF Ping
    <3>2. isAlive'[c] <=> ~Marked(c) /\ isAlive[c]
      BY <1>4, Zenon DEF Ping
    <3>3. pongDue'[c] <=> ~Terminates(c) /\ (pongDue[c] \/ (Pinged(c) /\ link[c] = "up"))
      BY <1>4, Zenon DEF Ping
    <3>4. /\ Terminates(c) <=> Connected(c) /\ ~isAlive[c]
          /\ Marked(c) <=> Pinged(c)
          /\ Pinged(c) <=> Connected(c) /\ isAlive[c] /\ c \notin Prompt
      BY DEF Terminates, Silent, Marked, Pinged
    <3>5. /\ pongDue[c] => ~isAlive[c]
          /\ link[c] = "none" <=> ~Connected(c)
          /\ link[c] = "none" => ~pongDue[c] /\ missed[c] = 0
          /\ link[c] = "lost" => c \notin Prompt
          /\ link[c] = "up" => isAlive[c] \/ pongDue[c]
          /\ missed[c] # 0 => ~isAlive[c] /\ ~pongDue[c]
          /\ missed[c] \in Nat /\ missed[c] <= 1
      BY DEF HeartbeatInv, HeartbeatTypeOK
    <3>6. Connected(c)' <=> Connected(c)
      BY <1>1
    <3> QED
      BY <3>1, <3>2, <3>3, <3>4, <3>5, <3>6
  <2> QED
    BY <2>1, <2>2, <2>3 DEF HeartbeatInv, HeartbeatTypeOK
<1> QED
  BY <1>2, <1>3, <1>4 DEF HeartbeatStep

\* The invariant holds in every reachable state.
LEMMA HeartbeatInvariance == HeartbeatSpec => [](TypeOK /\ HeartbeatInv)
<1>1. HeartbeatSpec => []TypeOK
  BY HeartbeatImplementsProxy, TypeCorrect, PTL
<1>2. TypeOK /\ HeartbeatInv /\ [HeartbeatNext]_<<vars, heartbeatVars>>
      => HeartbeatInv'
  <2>1. HeartbeatInv /\ UNCHANGED <<vars, heartbeatVars>> => HeartbeatInv'
    BY DEF HeartbeatInv, HeartbeatTypeOK, Connected, vars, heartbeatVars
  <2> QED
    BY <2>1, ProxyStepInv, HeartbeatStepInv DEF HeartbeatNext
<1> QED
  BY <1>1, <1>2, HeartbeatInitInv, PTL DEF HeartbeatSpec

\* The fields of the heartbeat keep their types, and no pong is on its way to a field
\* that is set already (ping, handleConnection).
THEOREM HeartbeatTypeCorrect == HeartbeatSpec => []HeartbeatTypeOK
<1>1. HeartbeatInv => HeartbeatTypeOK
  BY DEF HeartbeatInv
<1> QED
  BY <1>1, HeartbeatInvariance, PTL

\* For any number of clients, one that vanished outlives at most one tick (ping).
THEOREM VanishedSoonTerminated == HeartbeatSpec => []VanishedWithinTwoTicks
<1>1. HeartbeatInv => VanishedWithinTwoTicks
  BY DEF HeartbeatInv, VanishedWithinTwoTicks
<1> QED
  BY <1>1, HeartbeatInvariance, PTL

\* For any number of clients, one that answers every ping before the next tick is
\* never terminated (ping, handleConnection).
THEOREM PromptClientsKept == HeartbeatSpec => OnlyUnansweredTerminated
<1> DEFINE PromptKept == \A c \in Clients :
              link[c] = "up" /\ link'[c] = "terminated" => pongDue[c]
<1>1. HeartbeatInv /\ HeartbeatNext => PromptKept
  <2> SUFFICES ASSUME HeartbeatInv, HeartbeatNext, NEW c \in Clients,
                      link[c] = "up", link'[c] = "terminated"
               PROVE  pongDue[c]
    OBVIOUS
  <2>1. CASE ProxyStep
    BY <2>1 DEF ProxyStep, Accepted
  <2>2. CASE HeartbeatStep
    <3>1. isAlive[c] \/ pongDue[c]
      BY DEF HeartbeatInv
    <3>2. CASE Ping
      BY <3>1, <3>2 DEF Ping, Terminates, Silent
    <3>3. ASSUME NEW d \in Clients, Vanish(d) \/ Pong(d) PROVE FALSE
      BY <3>3 DEF Vanish, Pong, HeartbeatInv, HeartbeatTypeOK
    <3> QED
      BY <2>2, <3>2, <3>3 DEF HeartbeatStep
  <2> QED
    BY <2>1, <2>2 DEF HeartbeatNext
<1>2. [HeartbeatNext]_<<vars, heartbeatVars>> /\ HeartbeatInv
      => [PromptKept]_heartbeatVars
  BY <1>1
<1>3. HeartbeatSpec => [][PromptKept]_heartbeatVars
  BY <1>2, HeartbeatInvariance, PTL DEF HeartbeatSpec
<1> QED
  BY <1>3 DEF OnlyUnansweredTerminated
=============================================================================
