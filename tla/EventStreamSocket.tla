-------------------------- MODULE EventStreamSocket --------------------------
(***************************************************************************)
(* One EventStreamSocket: the WebSocket to EVMConnect, its reconnection    *)
(* timer and its ping/pong heartbeat (event-stream.service.ts, class       *)
(* EventStreamSocket).  Node runs one callback at a time, so every event   *)
(* handler, timer callback and method call is one atomic step; a timer may *)
(* fire any time after it is set.                                          *)
(*                                                                         *)
(* Two counters of the model have no field in the class.  `abandoned'      *)
(* counts the ping timeouts still armed whose handle this.pingTimeout no   *)
(* longer holds: ping() overwrites the handle without clearing it.         *)
(* `pingDue' counts the pending setTimeout(() => this.ping()) calls of the *)
(* 'pong' handler: each one is a ping loop, and nothing ever cancels it.   *)
(***************************************************************************)
EXTENDS Naturals, SocketOps

CONSTANTS
    MaxConnections,  \* bound: how often init() creates a WebSocket
    MaxAbandoned     \* bound: abandoned ping timeouts armed at once

ASSUME BoundsAssumption == /\ MaxConnections \in Nat \ {0}
                           /\ MaxAbandoned \in Nat \ {0}

VARIABLES
    ws,              \* readyState of this.ws
    closeRequested,  \* this.closeRequested
    reconnects,      \* pending setTimeout(() => this.init(), RECONNECT_TIME)
    pingTimeout,     \* the timer whose handle is this.pingTimeout is armed
    abandoned,       \* armed ping timeouts whose handle was overwritten
    pingDue,         \* pending setTimeout(() => this.ping(), PING_INTERVAL)
    unanswered,      \* pings sent on this.ws whose pong has not arrived
    peerSilent,      \* the peer vanished without closing the connection
    connections,     \* calls of init() so far
    closeCalled      \* history: the owner has called close()

timers == <<reconnects, pingTimeout, abandoned, pingDue>>
vars == <<ws, closeRequested, timers, unanswered, peerSilent, connections,
          closeCalled>>

TypeOK ==
    /\ ws \in ReadyState
    /\ closeRequested \in BOOLEAN
    /\ reconnects \in Nat
    /\ pingTimeout \in BOOLEAN
    /\ abandoned \in 0..MaxAbandoned
    /\ pingDue \in Nat
    /\ unanswered \in Nat
    /\ peerSilent \in BOOLEAN
    /\ connections \in 1..MaxConnections
    /\ closeCalled \in BOOLEAN

\* The constructor calls init().
Init ==
    /\ ws = "connecting"
    /\ closeRequested = FALSE
    /\ reconnects = 0
    /\ pingTimeout = FALSE
    /\ abandoned = 0
    /\ pingDue = 0
    /\ unanswered = 0
    /\ peerSilent = FALSE
    /\ connections = 1
    /\ closeCalled = FALSE

\* A ping that nothing watches (a mutation of SendPing).
SendPingUnwatched ==
    /\ unanswered' = unanswered + 1
    /\ UNCHANGED <<pingTimeout, abandoned>>

\* ping() on an open WebSocket.  The handle of a timeout that is still armed is
\* overwritten, and that timeout stays armed.
SendPing ==
    /\ abandoned + (IF pingTimeout THEN 1 ELSE 0) <= MaxAbandoned
    /\ abandoned' = abandoned + (IF pingTimeout THEN 1 ELSE 0)
    /\ pingTimeout' = TRUE
    /\ unanswered' = unanswered + 1

\* A terminate() that forgets the handshake (a mutation of Terminate).
TerminateOpen == ws' = IF ws = "open" THEN "closing" ELSE ws

\* this.ws.terminate()
Terminate == ws' = IF ws \in {"connecting", "open"} THEN "closing" ELSE ws

\* The 'close' handler, and a mutation of it.
NeverReconnect == UNCHANGED reconnects
ScheduleReconnect == reconnects' = reconnects + (IF closeRequested THEN 0 ELSE 1)

\* What the 'pong' handler does to the timers, and mutations of it.
KeepTimeout == UNCHANGED pingTimeout
ClearTimeout == pingTimeout' = FALSE
NeverPingAgain == UNCHANGED pingDue
SchedulePing == pingDue' = pingDue + 1

\* setTimeout fires once; setInterval (a mutation) would fire again.
RepeatPing == pingDue' = pingDue
ConsumePing == pingDue' = pingDue - 1

\* on('open'): listen, listenreplies, then the first ping of a new ping loop.
OnOpen ==
    /\ ws = "connecting"
    /\ ws' = "open"
    /\ peerSilent' = FALSE
    /\ SendPing
    /\ UNCHANGED <<closeRequested, reconnects, pingDue, connections, closeCalled>>

\* The handshake fails, or the peer closes or resets the connection.
ConnectionLost ==
    /\ ws \in {"connecting", "open"}
    /\ Terminate
    /\ UNCHANGED <<closeRequested, timers, unanswered, peerSilent, connections,
                   closeCalled>>

\* The peer disappears without a FIN or RST: nothing arrives any more.
PeerVanishes ==
    /\ ws = "open"
    /\ peerSilent' = TRUE
    /\ UNCHANGED <<ws, closeRequested, timers, unanswered, connections, closeCalled>>

\* on('close').  No pong of the old WebSocket can arrive after it.
OnClose ==
    /\ ws = "closing"
    /\ ws' = "closed"
    /\ unanswered' = 0
    /\ ScheduleReconnect
    /\ UNCHANGED <<closeRequested, pingTimeout, abandoned, pingDue, peerSilent,
                   connections, closeCalled>>

\* The RECONNECT_TIME timer fires: init().
Reconnect ==
    /\ reconnects > 0
    /\ connections < MaxConnections
    /\ reconnects' = reconnects - 1
    /\ ws' = "connecting"
    /\ closeRequested' = FALSE
    /\ connections' = connections + 1
    /\ UNCHANGED <<pingTimeout, abandoned, pingDue, unanswered, peerSilent,
                   closeCalled>>

\* A pong handler that trusts every pong (a mutation of OnPong).
OnAnyPong ==
    /\ ws = "open"
    /\ unanswered' = unanswered - 1
    /\ ClearTimeout
    /\ SchedulePing
    /\ UNCHANGED <<ws, closeRequested, reconnects, abandoned, peerSilent,
                   connections, closeCalled>>

\* on('pong'): clears the timeout whose handle is held, whichever ping armed it.
OnPong ==
    /\ ws = "open"
    /\ ~peerSilent
    /\ unanswered > 0
    /\ unanswered' = unanswered - 1
    /\ ClearTimeout
    /\ SchedulePing
    /\ UNCHANGED <<ws, closeRequested, reconnects, abandoned, peerSilent,
                   connections, closeCalled>>

\* A PING_INTERVAL timer fires: ping() does nothing unless the WebSocket is open.
PingTimer ==
    /\ pingDue > 0
    /\ ConsumePing
    /\ IF ws = "open"
       THEN SendPing
       ELSE UNCHANGED <<pingTimeout, abandoned, unanswered>>
    /\ UNCHANGED <<ws, closeRequested, reconnects, peerSilent, connections,
                   closeCalled>>

\* The timeout whose handle is held fires and terminates the current WebSocket.
PingTimedOut ==
    /\ pingTimeout
    /\ pingTimeout' = FALSE
    /\ Terminate
    /\ UNCHANGED <<closeRequested, reconnects, abandoned, pingDue, unanswered,
                   peerSilent, connections, closeCalled>>

\* An abandoned timeout fires: it too terminates whatever this.ws is by then.
AbandonedTimedOut ==
    /\ abandoned > 0
    /\ abandoned' = abandoned - 1
    /\ Terminate
    /\ UNCHANGED <<closeRequested, reconnects, pingTimeout, pingDue, unanswered,
                   peerSilent, connections, closeCalled>>

\* close(), which the proxy calls once, and then drops the socket.
Close ==
    /\ ~closeCalled
    /\ closeCalled' = TRUE
    /\ closeRequested' = TRUE
    /\ Terminate
    /\ UNCHANGED <<timers, unanswered, peerSilent, connections>>

Next ==
    \/ OnOpen \/ ConnectionLost \/ PeerVanishes \/ OnClose \/ Reconnect
    \/ OnPong \/ PingTimer \/ PingTimedOut \/ AbandonedTimedOut \/ Close

Spec == Init /\ [][Next]_vars

\* Node's timers fire, and the ws library reports the end of every connection.
\* Nothing is assumed of the peer, the network or the owner.
Fairness ==
    /\ WF_vars(OnClose)
    /\ WF_vars(Reconnect)
    /\ WF_vars(PingTimer)
    /\ WF_vars(PingTimedOut)
    /\ WF_vars(AbandonedTimedOut)

LiveSpec == Spec /\ Fairness
-----------------------------------------------------------------------------
(* Safety *)

\* Exactly one reconnection is scheduled while the WebSocket is closed and nobody
\* asked for the close, and none is while a WebSocket exists: init() never
\* abandons a WebSocket that may still deliver events ('close' handler, init()).
ReconnectScheduledOnce ==
    /\ reconnects <= 1
    /\ reconnects = 1 => ws = "closed"
    /\ ws = "closed" /\ reconnects = 0 => closeCalled /\ closeRequested

\* An open connection is never left without a heartbeat: a ping timeout is armed
\* or a ping is due, however opens, pongs and timers of earlier connections
\* interleave ('open', 'pong' handlers and ping()).
Watched == ws = "open" => pingTimeout \/ abandoned > 0 \/ pingDue > 0

\* Each connection starts one ping loop and reconnecting cancels none, so there
\* are never more loops (a ping in flight or a ping due) than connections made.
PingLoopsBounded == unanswered + pingDue <= connections

\* Until the first reconnection a ping timeout is armed exactly while a ping is
\* unanswered, so only a peer that does not answer is timed out.  (After a
\* reconnection an abandoned timeout may terminate a healthy connection.)
FirstConnectionTimesOutOnlySilence ==
    connections = 1 /\ ws = "open" =>
        /\ abandoned = 0
        /\ pingTimeout <=> unanswered = 1

\* The socket implements the life cycle its owner relies on.
OwnerView ==
    [ws |-> ws,
     flags |-> {f \in Flags : \/ f = "closeRequested" /\ closeRequested
                              \/ f = "reconnecting" /\ reconnects > 0}]
Lifecycle == INSTANCE SocketLifecycle WITH socket <- OwnerView
ImplementsLifecycle == Lifecycle!Spec

(* Liveness *)

\* A peer that vanishes is detected: the heartbeat ends the connection.
HalfOpenDetected == ws = "open" /\ peerSilent ~> ws # "open"

\* A connection that is lost is replaced, unless the owner closes the socket (or
\* the bound on connections is reached).
Reconnects ==
    ws = "closed" /\ ~closeCalled
        ~> ws = "connecting" \/ closeCalled \/ connections = MaxConnections

\* What the proxy's comment promises of close(): "also close the connection to
\* EVMConnect" (eventstream-proxy.base.ts:153).  Once the owner has called
\* close(), no WebSocket of this object connects again.
ClosedForGood == closeCalled => ws \in {"closing", "closed"}
=============================================================================
