----------------------- MODULE EventStreamSocketProofs -----------------------
(***************************************************************************)
(* Proofs about one EventStreamSocket, for any bound on its connections    *)
(* and timers: the inductive invariant IInv gives the safety properties,   *)
(* and the refinement shows that, to its owner, the socket is the life     *)
(* cycle of SocketLifecycle, whatever the heartbeat's timers do.           *)
(***************************************************************************)
EXTENDS EventStreamSocket, TLAPS

\* A connecting WebSocket has sent no ping yet, so one ping loop is still to start.
LoopsInv ==
    /\ PingLoopsBounded
    /\ ws = "connecting" => unanswered + pingDue <= connections - 1

\* Before the first reconnection no ping timeout has ever been abandoned.
FirstConnectionInv ==
    connections = 1 =>
        /\ abandoned = 0
        /\ ws = "connecting" => ~pingTimeout
        /\ ws = "open" => (pingTimeout <=> unanswered = 1)

\* Only close() sets the flag, and only init() resets it.
RequestInv == closeRequested => closeCalled

IInv == /\ TypeOK
        /\ RequestInv
        /\ ReconnectScheduledOnce
        /\ Watched
        /\ LoopsInv
        /\ FirstConnectionInv

\* The flags of the socket, and its counters: the two halves of TypeOK.
FlagsOK == /\ closeRequested \in BOOLEAN
           /\ pingTimeout \in BOOLEAN
           /\ peerSilent \in BOOLEAN
           /\ closeCalled \in BOOLEAN

CountersOK == /\ ws \in ReadyState
              /\ reconnects \in Nat
              /\ abandoned \in 0..MaxAbandoned
              /\ pingDue \in Nat
              /\ unanswered \in Nat
              /\ connections \in 1..MaxConnections

LEMMA TypeParts == TypeOK <=> FlagsOK /\ CountersOK
  BY DEF TypeOK, FlagsOK, CountersOK

\* The state of a new EventStreamSocket satisfies the invariant.
LEMMA InitIInv == Init => IInv
<1> SUFFICES ASSUME Init PROVE IInv
  OBVIOUS
<1>1. FlagsOK
  BY Zenon DEF Init, FlagsOK
<1>2. CountersOK
  BY BoundsAssumption DEF Init, CountersOK, ReadyState
<1>3. ReconnectScheduledOnce /\ Watched /\ LoopsInv /\ RequestInv
  BY DEF Init, RequestInv, ReconnectScheduledOnce, Watched, LoopsInv, PingLoopsBounded
<1>4. FirstConnectionInv
  BY DEF Init, FirstConnectionInv
<1> QED
  BY <1>1, <1>2, <1>3, <1>4, TypeParts DEF IInv

\* Every handler, timer and method call of the socket keeps its flags Boolean.
LEMMA FlagsStep == FlagsOK /\ [Next]_vars => FlagsOK'
<1> SUFFICES ASSUME FlagsOK, [Next]_vars PROVE FlagsOK'
  OBVIOUS
<1> USE DEF FlagsOK
<1>1. CASE OnOpen
  BY <1>1, Zenon DEF OnOpen, SendPing
<1>2. CASE ConnectionLost
  BY <1>2, Zenon DEF ConnectionLost, Terminate, timers
<1>3. CASE PeerVanishes
  BY <1>3, Zenon DEF PeerVanishes, timers
<1>4. CASE OnClose
  BY <1>4, Zenon DEF OnClose, ScheduleReconnect
<1>5. CASE Reconnect
  BY <1>5, Zenon DEF Reconnect
<1>6. CASE OnPong
  BY <1>6, Zenon DEF OnPong, ClearTimeout, SchedulePing
<1>7. CASE PingTimer
  BY <1>7, Zenon DEF PingTimer, ConsumePing, SendPing
<1>8. CASE PingTimedOut
  BY <1>8, Zenon DEF PingTimedOut, Terminate
<1>9. CASE AbandonedTimedOut
  BY <1>9, Zenon DEF AbandonedTimedOut, Terminate
<1>10. CASE Close
  BY <1>10, Zenon DEF Close, Terminate, timers
<1>11. CASE UNCHANGED vars
  BY <1>11, Zenon DEF vars, timers
<1> QED
  BY <1>1, <1>2, <1>3, <1>4, <1>5, <1>6, <1>7, <1>8, <1>9, <1>10, <1>11 DEF Next

\* Every handler, timer and method call of the socket keeps its counters in range.
LEMMA CountersStep == TypeOK /\ [Next]_vars => CountersOK'
<1> SUFFICES ASSUME TypeOK, [Next]_vars PROVE CountersOK'
  OBVIOUS
<1> USE BoundsAssumption DEF TypeOK, CountersOK, ReadyState
<1>1. CASE OnOpen
  BY <1>1 DEF OnOpen, SendPing
<1>2. CASE ConnectionLost
  BY <1>2 DEF ConnectionLost, Terminate, timers
<1>3. CASE PeerVanishes
  BY <1>3 DEF PeerVanishes, timers
<1>4. CASE OnClose
  BY <1>4 DEF OnClose, ScheduleReconnect
<1>5. CASE Reconnect
  BY <1>5 DEF Reconnect
<1>6. CASE OnPong
  BY <1>6 DEF OnPong, ClearTimeout, SchedulePing
<1>7. CASE PingTimer
  BY <1>7 DEF PingTimer, ConsumePing, SendPing
<1>8. CASE PingTimedOut
  BY <1>8 DEF PingTimedOut, Terminate
<1>9. CASE AbandonedTimedOut
  BY <1>9 DEF AbandonedTimedOut, Terminate
<1>10. CASE Close
  BY <1>10 DEF Close, Terminate, timers
<1>11. CASE UNCHANGED vars
  BY <1>11 DEF vars, timers
<1> QED
  BY <1>1, <1>2, <1>3, <1>4, <1>5, <1>6, <1>7, <1>8, <1>9, <1>10, <1>11 DEF Next

\* Every handler, timer and method call of the socket preserves the invariant.
LEMMA NextIInv == IInv /\ [Next]_vars => IInv'
<1> SUFFICES ASSUME IInv, [Next]_vars PROVE IInv'
  OBVIOUS
<1>0. TypeOK'
  BY TypeParts, FlagsStep, CountersStep, PTL DEF IInv
<1>a. (RequestInv /\ ReconnectScheduledOnce /\ Watched /\ LoopsInv /\ FirstConnectionInv)'
  <2> USE BoundsAssumption DEF IInv, TypeOK, ReadyState, RequestInv,
          ReconnectScheduledOnce, Watched, LoopsInv, PingLoopsBounded, FirstConnectionInv
  <2>1. CASE OnOpen
    BY <2>1 DEF OnOpen, SendPing
  <2>2. CASE ConnectionLost
    BY <2>2 DEF ConnectionLost, Terminate, timers
  <2>3. CASE PeerVanishes
    BY <2>3 DEF PeerVanishes, timers
  <2>4. CASE OnClose
    BY <2>4 DEF OnClose, ScheduleReconnect
  <2>5. CASE Reconnect
    BY <2>5 DEF Reconnect
  <2>6. CASE OnPong
    BY <2>6 DEF OnPong, ClearTimeout, SchedulePing
  <2>7. CASE PingTimer
    BY <2>7 DEF PingTimer, ConsumePing, SendPing
  <2>8. CASE PingTimedOut
    BY <2>8 DEF PingTimedOut, Terminate
  <2>9. CASE AbandonedTimedOut
    BY <2>9 DEF AbandonedTimedOut, Terminate
  <2>10. CASE Close
    BY <2>10 DEF Close, Terminate, timers
  <2>11. CASE UNCHANGED vars
    BY <2>11 DEF vars, timers
  <2> QED
    BY <2>1, <2>2, <2>3, <2>4, <2>5, <2>6, <2>7, <2>8, <2>9, <2>10, <2>11 DEF Next
<1> QED
  BY <1>0, <1>a DEF IInv

\* The invariant holds in every reachable state of a socket.
THEOREM Invariance == Spec => []IInv
  BY InitIInv, NextIInv, PTL DEF Spec

\* Types: every state of the socket is one the code can be in.
THEOREM TypeCorrect == Spec => []TypeOK
<1>1. IInv => TypeOK
  BY DEF IInv
<1> QED
  BY <1>1, Invariance, PTL

\* One reconnection at a time, and always one after an unrequested close ('close'
\* handler).
THEOREM OneReconnection == Spec => []ReconnectScheduledOnce
<1>1. IInv => ReconnectScheduledOnce
  BY DEF IInv
<1> QED
  BY <1>1, Invariance, PTL

\* An open connection always has a heartbeat (ping(), 'open' and 'pong' handlers).
THEOREM AlwaysWatched == Spec => []Watched
<1>1. IInv => Watched
  BY DEF IInv
<1> QED
  BY <1>1, Invariance, PTL

\* Each connection adds at most one ping loop (ping(), 'pong' handler).
THEOREM LoopsBounded == Spec => []PingLoopsBounded
<1>1. IInv => PingLoopsBounded
  BY DEF IInv, LoopsInv
<1> QED
  BY <1>1, Invariance, PTL

\* On the first connection only a silent peer is timed out (ping()).
THEOREM FirstConnectionSafe == Spec => []FirstConnectionTimesOutOnlySilence
<1>1. IInv => FirstConnectionTimesOutOnlySilence
  BY DEF IInv, FirstConnectionInv, FirstConnectionTimesOutOnlySilence
<1> QED
  BY <1>1, Invariance, PTL
-----------------------------------------------------------------------------
\* Every step of the socket is a step of the life cycle, or invisible to the owner.
\* IInv is needed where init() runs: its one timer must be the last one.
LEMMA RefinementStep == IInv /\ [Next]_vars => [Lifecycle!Next]_OwnerView
<1> SUFFICES ASSUME IInv, [Next]_vars PROVE [Lifecycle!Next]_OwnerView
  OBVIOUS
<1> USE BoundsAssumption DEF IInv, TypeOK, ReadyState, ReconnectScheduledOnce, OwnerView,
        Flags, Lifecycle!Reconnecting
<1>1. CASE OnOpen
  <2>1. Lifecycle!Open
    BY <1>1 DEF OnOpen, SendPing, Lifecycle!Open, Lifecycle!Opened
  <2> QED
    BY <2>1 DEF Lifecycle!Next
<1>2. CASE ConnectionLost
  <2>1. Lifecycle!Lose
    BY <1>2 DEF ConnectionLost, Terminate, timers, Lifecycle!Lose, Lifecycle!Live, Lifecycle!Terminated
  <2> QED
    BY <2>1 DEF Lifecycle!Next
<1>3. CASE PeerVanishes
  BY <1>3 DEF PeerVanishes, timers
<1>4. CASE OnClose
  <2>1. Lifecycle!OnClose
    BY <1>4 DEF OnClose, ScheduleReconnect, Lifecycle!OnClose, Lifecycle!AfterClose
  <2> QED
    BY <2>1 DEF Lifecycle!Next
<1>5. CASE Reconnect
  <2>1. Lifecycle!Reconnect
    BY <1>5 DEF Reconnect, Lifecycle!Reconnect, Lifecycle!Initialized
  <2> QED
    BY <2>1 DEF Lifecycle!Next
<1>6. CASE OnPong
  BY <1>6 DEF OnPong
<1>7. CASE PingTimer
  BY <1>7 DEF PingTimer
<1>8. CASE PingTimedOut
  <2>1. Lifecycle!Lose \/ UNCHANGED OwnerView
    BY <1>8 DEF PingTimedOut, Terminate, Lifecycle!Lose, Lifecycle!Live, Lifecycle!Terminated
  <2> QED
    BY <2>1 DEF Lifecycle!Next
<1>9. CASE AbandonedTimedOut
  <2>1. Lifecycle!Lose \/ UNCHANGED OwnerView
    BY <1>9 DEF AbandonedTimedOut, Terminate, Lifecycle!Lose, Lifecycle!Live, Lifecycle!Terminated
  <2> QED
    BY <2>1 DEF Lifecycle!Next
<1>10. CASE Close
  <2>1. Lifecycle!Close
    BY <1>10 DEF Close, Terminate, timers, Lifecycle!Close, Lifecycle!Live, Lifecycle!Terminated,
       Lifecycle!CloseRequested
  <2> QED
    BY <2>1 DEF Lifecycle!Next
<1>11. CASE UNCHANGED vars
  BY <1>11 DEF vars, timers
<1> QED
  BY <1>1, <1>2, <1>3, <1>4, <1>5, <1>6, <1>7, <1>8, <1>9, <1>10, <1>11 DEF Next

\* The detailed socket, with its timers and its heartbeat, implements the life cycle
\* the proxy model is built on.
THEOREM SocketImplementsLifecycle == Spec => ImplementsLifecycle
<1>1. Init => Lifecycle!Init
  BY DEF Init, Lifecycle!Init, OwnerView, Lifecycle!Initialized,
     Flags
<1> QED
  BY <1>1, Invariance, RefinementStep, PTL DEF Spec, ImplementsLifecycle, Lifecycle!Spec
=============================================================================
