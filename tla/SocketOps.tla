------------------------------ MODULE SocketOps ------------------------------
(***************************************************************************)
(* The transitions of one EventStreamSocket (event-stream.service.ts) that *)
(* its owner can observe, as pure operators on a record.  SocketLifecycle  *)
(* makes a specification of them, EventStreamSocket implements that        *)
(* specification with its timers, and EventStreamProxy keeps one such      *)
(* record per socket.                                                      *)
(*                                                                         *)
(*   ws     readyState of this.ws, as the ws library reports it            *)
(*   flags  "closeRequested": set by close(), reset by init();             *)
(*          "reconnecting": the RECONNECT_TIME timer that will call init() *)
(*          is set                                                         *)
(***************************************************************************)

ReadyState == {"connecting", "open", "closing", "closed"}
Flags == {"closeRequested", "reconnecting"}

Socket == [ws : ReadyState, flags : SUBSET Flags]

Live(s) == s.ws \in {"connecting", "open"}
Reconnecting(s) == "reconnecting" \in s.flags

\* init(): flags reset, a new WebSocket is created and starts its handshake.
Initialized == [ws |-> "connecting", flags |-> {}]

\* The 'open' event of the WebSocket.
Opened(s) == [ws |-> "open", flags |-> s.flags]

\* terminate(), a failed handshake, or a close by the peer: the library moves a
\* live WebSocket to CLOSING and leaves any other one alone.
Terminated(s) == IF Live(s) THEN [ws |-> "closing", flags |-> s.flags] ELSE s

\* A 'close' event that always schedules a reconnection (a mutation of AfterClose).
AlwaysReconnects(s) == [ws |-> "closed", flags |-> s.flags \cup {"reconnecting"}]

\* The 'close' event: a close nobody requested schedules a reconnection.
AfterClose(s) ==
    [ws |-> "closed",
     flags |-> IF "closeRequested" \in s.flags THEN s.flags
               ELSE s.flags \cup {"reconnecting"}]

\* close(), called by the owner.
CloseRequested(s) ==
    [ws |-> Terminated(s).ws, flags |-> s.flags \cup {"closeRequested"}]
=============================================================================
