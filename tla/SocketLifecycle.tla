--------------------------- MODULE SocketLifecycle ---------------------------
(***************************************************************************)
(* What an EventStreamSocket promises its owner, without its timers: one   *)
(* WebSocket at a time, which opens, is lost, is closed on request, and is *)
(* replaced by a new one after a loss.                                     *)
(***************************************************************************)
EXTENDS SocketOps

VARIABLE socket

Init == socket = Initialized

Open == /\ socket.ws = "connecting"
        /\ socket' = Opened(socket)

Lose == /\ Live(socket)
        /\ socket' = Terminated(socket)

OnClose == /\ socket.ws = "closing"
           /\ socket' = AfterClose(socket)

\* The one reconnection timer fires: nothing of the old WebSocket is left.
Reconnect == /\ socket.ws = "closed"
             /\ Reconnecting(socket)
             /\ socket' = Initialized

Close == socket' = CloseRequested(socket)

Next == Open \/ Lose \/ OnClose \/ Reconnect \/ Close

Spec == Init /\ [][Next]_socket
=============================================================================
