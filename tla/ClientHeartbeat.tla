--------------------------- MODULE ClientHeartbeat ---------------------------
(***************************************************************************)
(* The heartbeat of the clients (websocket-events.base.ts) beside the      *)
(* proxy that serves them: a client may vanish without closing its         *)
(* connection, and then holds its messages until the heartbeat terminates  *)
(* the connection and the proxy nacks them (handleDisconnect).             *)
(*                                                                         *)
(* Every step of EventStreamProxy is a step here, so this specification    *)
(* implements that one.  The server's set of clients is the connected ones *)
(* of clientState: the library takes a client out of it when its 'close'   *)
(* event runs.                                                             *)
(***************************************************************************)
EXTENDS EventStreamProxy

CONSTANT Prompt   \* bound: the clients that never vanish and whose pongs arrive at once

ASSUME HeartbeatAssumption == Prompt \subseteq Clients

VARIABLES
    link,      \* each client's connection: "up", "lost" (the client vanished and
               \* nobody has noticed), "terminated" by the heartbeat, or "none"
    isAlive,   \* the field of each client
    pongDue,   \* a pong of the client is on its way
    missed     \* history: ticks since the connection was lost (bound: counted up to 2)

heartbeatVars == <<link, isAlive, pongDue, missed>>

Links == {"none", "up", "lost", "terminated"}

HeartbeatTypeOK ==
    /\ link \in [Clients -> Links]
    /\ isAlive \in [Clients -> BOOLEAN]
    /\ pongDue \in [Clients -> BOOLEAN]
    /\ missed \in [Clients -> Nat]
    \* a pong is only on its way while the last ping is unanswered
    /\ \A c \in Clients : pongDue[c] => ~isAlive[c]

HeartbeatInit ==
    /\ Init
    /\ link = [c \in Clients |-> "none"]
    /\ isAlive = [c \in Clients |-> FALSE]
    /\ pongDue = [c \in Clients |-> FALSE]
    /\ missed = [c \in Clients |-> 0]

Connected(c) == clientState[c] = "connected"
-----------------------------------------------------------------------------
\* The 'connection' event: a new client counts as alive.  (The fields of a client
\* without a connection mean nothing, and get one value.)
Accepted ==
    LET isNew(c) == clientState[c] = "new"
        stays(c) == clientState'[c] = "connected"
    IN  /\ link' = [c \in Clients |-> IF ~stays(c) THEN "none"
                                      ELSE IF isNew(c) THEN "up" ELSE link[c]]
        /\ isAlive' = [c \in Clients |-> stays(c) /\ (isNew(c) \/ isAlive[c])]
        /\ pongDue' = [c \in Clients |-> stays(c) /\ pongDue[c]]
        /\ missed' = [c \in Clients |-> IF stays(c) THEN missed[c] ELSE 0]

ProxyStep == Next /\ Accepted

\* The client, or the network to it, is gone: a pong or an ack that is already on its
\* way may still arrive.
Vanish(c) ==
    /\ c \notin Prompt
    /\ link[c] = "up"
    /\ link' = [link EXCEPT ![c] = "lost"]
    /\ UNCHANGED <<vars, isAlive, pongDue, missed>>

\* A pong that nobody listens to (a mutation of Pong).
PongIgnored(c) ==
    /\ pongDue[c]
    /\ pongDue' = [pongDue EXCEPT ![c] = FALSE]
    /\ UNCHANGED <<vars, link, isAlive, missed>>

\* The 'pong' event.
Pong(c) ==
    /\ pongDue[c]
    /\ pongDue' = [pongDue EXCEPT ![c] = FALSE]
    /\ isAlive' = [isAlive EXCEPT ![c] = TRUE]
    /\ UNCHANGED <<vars, link, missed>>

Silent(c) == Connected(c) /\ ~isAlive[c]
Pinged(c) == Connected(c) /\ isAlive[c] /\ c \notin Prompt

\* A ping() that never resets the field, and one that terminates nobody (mutations of
\* Marked and of Terminates).
NeverMarked(c) == FALSE
NeverTerminates(c) == FALSE

Marked(c) == Pinged(c)
Terminates(c) == Silent(c)

\* ping(), at each tick of the interval: who has not answered the ping of the last
\* tick is terminated; the others are marked and pinged.
Ping ==
    /\ link' = [c \in Clients |-> IF Terminates(c) THEN "terminated" ELSE link[c]]
    /\ isAlive' = [c \in Clients |-> IF Marked(c) THEN FALSE ELSE isAlive[c]]
    /\ pongDue' = [c \in Clients |->
                      IF Terminates(c) THEN FALSE
                      ELSE pongDue[c] \/ (Pinged(c) /\ link[c] = "up")]
    /\ missed' = [c \in Clients |->
                     IF Terminates(c) THEN 0
                     ELSE IF link[c] = "lost" /\ missed[c] < 2 THEN missed[c] + 1
                     ELSE missed[c]]
    /\ UNCHANGED vars
-----------------------------------------------------------------------------
HeartbeatStep ==
    \/ \E c \in Clients : Vanish(c) \/ Pong(c)
    \/ Ping

HeartbeatNext == ProxyStep \/ HeartbeatStep

HeartbeatSpec == HeartbeatInit /\ [][HeartbeatNext]_<<vars, heartbeatVars>>

\* The interval keeps ticking; a terminated connection is closed; a client that is
\* there acknowledges what it holds.  Nothing is asked of one that has vanished, nor
\* of pongs, connections and losses.
HeartbeatFairness ==
    /\ Fairness
    /\ WF_heartbeatVars(Ping)
    /\ \A c \in Clients :
          /\ WF_vars(link[c] = "terminated" /\ (Disconnect(c) \/ DisconnectThrows(c)))
          /\ WF_vars(/\ link[c] = "up"
                     /\ \E m \in awaitingAck[c] : Ack(c, m) \/ AckThrows(c, m))

HeartbeatLiveSpec == HeartbeatSpec /\ HeartbeatFairness
-----------------------------------------------------------------------------
(* Properties *)

\* A client that is there is only terminated while the pong that the last ping asked
\* for is still on its way: whoever answers within an interval is never disconnected,
\* not even at the first tick after its connection (afterInit, handleConnection,
\* ping).
OnlyUnansweredTerminated ==
    [][\A c \in Clients :
          link[c] = "up" /\ link'[c] = "terminated" => pongDue[c]]_heartbeatVars

\* A client that vanished is terminated at the second tick at the latest, even if an
\* old pong of it arrives in between (ping).
VanishedWithinTwoTicks ==
    \A c \in Clients : link[c] = "lost" => missed[c] <= 1

\* A client that vanished is disconnected in the end, so what it holds is nacked, or
\* its namespaces closed (ping, handleDisconnect).
VanishedDisconnected ==
    \A c \in Clients : link[c] = "lost" ~> link[c] = "none"
=============================================================================
