------------------------ MODULE EventStreamProxyProofs ------------------------
(***************************************************************************)
(* Proofs about the event stream proxy, for any number of clients,         *)
(* namespaces, batches, sockets and messages.                              *)
(***************************************************************************)
EXTENDS EventStreamProxy, SequenceTheorems, TLAPS

\* The types of a queue and of a wire after a message is added or taken.
LEMMA AppendTyped ==
  ASSUME NEW S, NEW q \in Seq(S), NEW e \in S
  PROVE  /\ Append(q, e) \in Seq(S)
         /\ Len(Append(q, e)) = Len(q) + 1
         /\ \A i \in 1..Len(q) : Append(q, e)[i] = q[i]
         /\ Append(q, e)[Len(q) + 1] = e
  OBVIOUS

\* What is left of a queue or a wire is what followed its head.
LEMMA TailTyped ==
  ASSUME NEW S, NEW q \in Seq(S), q # <<>>
  PROVE  /\ 1 \in 1..Len(q) /\ Head(q) = q[1]
         /\ \A i \in 1..Len(Tail(q)) : i + 1 \in 1..Len(q) /\ Tail(q)[i] = q[i + 1]
<1>1. /\ Len(q) \in Nat \ {0} /\ Head(q) = q[1]
      /\ Len(Tail(q)) = Len(q) - 1
      /\ \A i \in 1..Len(Tail(q)) : Tail(q)[i] = q[i + 1]
  BY HeadTailProperties, LenProperties, EmptySeq
<1> QED
  BY <1>1

\* What the operators on one socket return is again a socket.
LEMMA SocketTyped ==
  ASSUME NEW s \in Socket
  PROVE  /\ Initialized \in Socket
         /\ Finished \in Socket
         /\ Opened(s) \in Socket
         /\ Terminated(s) \in Socket
         /\ AfterClose(s) \in Socket
         /\ CloseRequested(s) \in Socket
  BY DEF Socket, ReadyState, Flags, Initialized, Finished, Opened, Terminated,
     AfterClose, CloseRequested, Live

\* The types hold in the initial state.
LEMMA InitTypeOK == Init => TypeOK
<1> SUFFICES ASSUME Init PROVE TypeOK
  OBVIOUS
<1>1. Finished \in Socket
  BY DEF Finished, Socket, ReadyState, Flags
<1> QED
  BY <1>1, ProxyAssumption DEF Init, TypeOK, Batches, Sockets, NotDispatched

\* A restart preserves the types.
LEMMA RestartTypeOK ==
  ASSUME TypeOK, Restart, crashes' \in 0..MaxCrashes,
         clientAcked' \subseteq Namespaces \X Batches
  PROVE  TypeOK'
<1>1. Finished \in Socket
  BY DEF Finished, Socket, ReadyState, Flags
<1>2. dispatchedOn' \in [Namespaces -> {NotDispatched, Orphaned} \cup Sockets]
  BY DEF Restart, OrphanOn, TypeOK
<1>3. /\ sockets' \in [Sockets -> Socket] /\ wire' \in [Sockets -> Seq(Control)]
      /\ incoming' \in [Sockets -> Seq(Batches)]
  BY <1>1 DEF Restart
<1> QED
  BY <1>2, <1>3, ProxyAssumption DEF Restart, TypeOK

\* Every step preserves the types.
LEMMA TypeStep == TypeOK /\ [Next]_vars => TypeOK'
<1> SUFFICES ASSUME TypeOK, [Next]_vars PROVE TypeOK'
  OBVIOUS
<1> USE ProxyAssumption
<1>1. ASSUME NEW c \in Clients, ClientStep(c) PROVE TypeOK'
  <2>1. CASE Connect(c)
    BY <2>1 DEF Connect, TypeOK, socketVars, upstreamVars
  <2>2. CASE Disconnect(c)
    <3> DEFINE closed == {namespaceEventStreamSocket[n] : n \in Abandons(c)}
               nacks(s) == {m \in Nacked(c) :
                                namespaceEventStreamSocket[m.namespace] = s}
    <3>1. sockets' \in [Sockets -> Socket]
      <4>1. \A s \in Sockets : CloseRequested(sockets[s]) \in Socket
        BY SocketTyped DEF TypeOK
      <4> QED
        BY <2>2, <4>1 DEF Disconnect, TypeOK
    <3>2. wire' \in [Sockets -> Seq(Control)]
      <4>1. ASSUME NEW s \in Sockets
            PROVE  Append(wire[s], NackMessage(nacks(s))) \in Seq(Control)
        <5>1. NackMessage(nacks(s)) \in Control
          BY DEF NackMessage, Control, Nacked, TypeOK, Message
        <5> QED
          BY <5>1, AppendTyped DEF TypeOK
      <4>2. wire' = [s \in Sockets |->
                        IF s \in closed THEN <<>>
                        ELSE IF nacks(s) # {} /\ sockets[s].ws = "open"
                        THEN Append(wire[s], NackMessage(nacks(s)))
                        ELSE wire[s]]
        BY <2>2 DEF Disconnect
      <4> HIDE DEF nacks, closed
      <4> QED
        BY <4>1, <4>2 DEF TypeOK
    <3>3. dispatchedOn' \in [Namespaces -> {NotDispatched, Orphaned} \cup Sockets]
      BY <2>2 DEF Disconnect, OrphanOn, TypeOK
    <3>4. /\ insertedAt' \in [Namespaces -> 0..MaxSockets]
          /\ namespaceEventStreamSocket' \in [Namespaces -> 0..MaxSockets]
          /\ namespaceClients' \in [Namespaces -> SUBSET Clients]
      BY <2>2 DEF Disconnect, TypeOK
    <3>5. /\ clientState' \in [Clients -> {"new", "connected", "gone"}]
          /\ tracked' \subseteq Clients
          /\ awaitingAck' \in [Clients -> SUBSET Message]
      BY <2>2 DEF Disconnect, TypeOK
    <3>6. incoming' \in [Sockets -> Seq(Batches)]
      BY <2>2 DEF Disconnect, TypeOK
    <3> QED
      BY <2>2, <3>1, <3>2, <3>3, <3>4, <3>5, <3>6 DEF Disconnect, TypeOK
  <2>3. CASE DisconnectThrows(c)
    <3>1. crashes' \in 0..MaxCrashes /\ clientAcked' \subseteq Namespaces \X Batches
      BY <2>3 DEF DisconnectThrows, TypeOK
    <3> QED
      BY <2>3, <3>1, RestartTypeOK DEF DisconnectThrows
  <2>4. CASE SendBatch(c)
    <3> DEFINE message == [id |-> nextId, namespace |-> Head(queue).namespace,
                           batchNumber |-> Head(queue).batchNumber]
    <3>1. Head(queue) \in Task /\ queue' \in Seq(Task)
      BY <2>4, HeadTailProperties DEF SendBatch, TypeOK
    <3>2. nextId \in 1..MaxMessages /\ nextId' \in 1..MaxMessages + 1
      <4>1. nextId \in 1..MaxMessages + 1 /\ nextId <= MaxMessages /\ nextId' = nextId + 1
        BY <2>4 DEF SendBatch, TypeOK
      <4> QED
        BY <4>1
    <3>3. message \in Message
      BY <3>1, <3>2 DEF Message, Task
    <3>4. awaitingAck' \in [Clients -> SUBSET Message]
      <4>1. Send(c, message)
        BY <2>4 DEF SendBatch
      <4> HIDE DEF message
      <4> QED
        BY <3>3, <4>1 DEF Send, TypeOK
    <3> QED
      BY <2>4, <3>1, <3>2, <3>4 DEF SendBatch, TypeOK, socketVars, upstreamVars
  <2>5. ASSUME NEW n \in Namespaces, StartRegistered(c, n) PROVE TypeOK'
    BY <2>5 DEF StartRegistered, AddClient, TypeOK, socketVars, upstreamVars
  <2>6. ASSUME NEW n \in Namespaces, Start(c, n) PROVE TypeOK'
    BY <2>6 DEF Start, TypeOK, socketVars, upstreamVars
  <2>7. ASSUME NEW n \in Namespaces, StartConnected(c, n) PROVE TypeOK'
    <3>1. sockets' \in [Sockets -> Socket]
      BY <2>7 DEF StartConnected, TypeOK, Socket, Initialized, ReadyState
    <3> QED
      BY <2>7, <3>1 DEF StartConnected, AddClient, TypeOK, upstreamVars
  <2>8. ASSUME NEW n \in Namespaces, StartFailed(c, n) PROVE TypeOK'
    BY <2>8 DEF StartFailed, TypeOK, socketVars, upstreamVars
  <2>9. ASSUME NEW m \in awaitingAck[c], Ack(c, m) PROVE TypeOK'
    <3> DEFINE s == namespaceEventStreamSocket[m.namespace]
    <3>1. m \in Message
      BY DEF TypeOK
    <3>2. clientAcked' \subseteq Namespaces \X Batches
      BY <2>9, <3>1 DEF Ack, TypeOK, Message
    <3>3. wire' \in [Sockets -> Seq(Control)]
      <4>1. AckMessage(m) \in Control
        BY <3>1 DEF AckMessage, Control, Message
      <4>2. CASE wire' = wire
        BY <4>2 DEF TypeOK
      <4>3. CASE wire' = Produced(s, AckMessage(m))
        <5>1. CASE s # 0 /\ sockets[s].ws = "open"
          <6>1. s \in Sockets
            BY <3>1, <5>1 DEF TypeOK, Message, Sockets
          <6>2. Append(wire[s], AckMessage(m)) \in Seq(Control)
            BY <4>1, <6>1, AppendTyped DEF TypeOK
          <6> QED
            BY <4>3, <5>1, <6>1, <6>2 DEF Produced, TypeOK
        <5>2. CASE ~(s # 0 /\ sockets[s].ws = "open")
          BY <4>3, <5>2 DEF Produced, TypeOK
        <5> QED
          BY <5>1, <5>2
      <4> QED
        BY <2>9, <4>2, <4>3 DEF Ack
    <3>4. awaitingAck' \in [Clients -> SUBSET Message]
      BY <2>9 DEF Ack, TypeOK
    <3> QED
      BY <2>9, <3>2, <3>3, <3>4 DEF Ack, TypeOK, upstreamVars
  <2>10. ASSUME NEW m \in awaitingAck[c], AckThrows(c, m) PROVE TypeOK'
    <3>1. m \in Message
      BY DEF TypeOK
    <3>2. crashes' \in 0..MaxCrashes /\ clientAcked' \subseteq Namespaces \X Batches
      BY <2>10, <3>1 DEF AckThrows, TypeOK, Message
    <3> QED
      BY <2>10, <3>2, RestartTypeOK DEF AckThrows
  <2> QED
    BY <1>1, <2>1, <2>2, <2>3, <2>4, <2>5, <2>6, <2>7, <2>8, <2>9, <2>10 DEF ClientStep
<1>2. ASSUME NEW s \in Sockets, SocketEvent(s) PROVE TypeOK'
  <2> USE DEF proxyVars
  <2>0. sockets[s] \in Socket
    BY DEF TypeOK
  <2>1. CASE SocketOpens(s)
    BY <2>0, <2>1, SocketTyped DEF SocketOpens, SocketStep, TypeOK
  <2>2. CASE SocketLost(s)
    <3>1. dispatchedOn' \in [Namespaces -> {NotDispatched, Orphaned} \cup Sockets]
      BY <2>2 DEF SocketLost, OrphanOn, TypeOK
    <3>2. /\ sockets' \in [Sockets -> Socket] /\ wire' \in [Sockets -> Seq(Control)]
          /\ incoming' \in [Sockets -> Seq(Batches)]
      BY <2>0, <2>2, SocketTyped DEF SocketLost, SocketStep, TypeOK
    <3> QED
      BY <2>2, <3>1, <3>2 DEF SocketLost, SocketStep, TypeOK
  <2>3. CASE SocketOnClose(s)
    BY <2>0, <2>3, SocketTyped DEF SocketOnClose, SocketStep, TypeOK
  <2>4. CASE SocketReconnects(s)
    BY <2>0, <2>4, SocketTyped DEF SocketReconnects, SocketStep, TypeOK
  <2>5. CASE UpstreamDispatches(s)
    <3> PICK n \in Namespaces :
            /\ current[n] <= MaxBatch
            /\ dispatchedOn' = [dispatchedOn EXCEPT ![n] = s]
            /\ incoming' = [incoming EXCEPT ![s] = Append(incoming[s], current[n])]
            /\ crossed' \in {crossed, crossed \cup {n}}
      BY <2>5 DEF UpstreamDispatches
    <3>1. current[n] \in Batches
      BY DEF TypeOK, Batches
    <3>2. Append(incoming[s], current[n]) \in Seq(Batches)
      BY <3>1, AppendTyped DEF TypeOK
    <3>3. incoming' \in [Sockets -> Seq(Batches)]
      BY <3>2 DEF TypeOK
    <3>4. crossed' \subseteq Namespaces
      BY DEF TypeOK
    <3>5. dispatchedOn' \in [Namespaces -> {NotDispatched, Orphaned} \cup Sockets]
      BY DEF TypeOK
    <3>6. UNCHANGED <<clientState, proxyVars, nextId, created, sockets, socketNamespace,
                      wire, current, crashes, clientAcked>>
      BY <2>5 DEF UpstreamDispatches
    <3> QED
      BY <3>3, <3>4, <3>5, <3>6 DEF TypeOK
  <2>7. CASE BatchArrives(s)
    <3> PICK n \in Namespaces :
            /\ incoming[s] # <<>>
            /\ incoming' = [incoming EXCEPT ![s] = Tail(incoming[s])]
            /\ queue' = Append(queue, [namespace |-> n, batchNumber |-> Head(incoming[s])])
      BY <2>7 DEF BatchArrives, QueueTask
    <3>1. incoming[s] \in Seq(Batches)
      BY DEF TypeOK
    <3>2. Head(incoming[s]) \in Batches /\ Tail(incoming[s]) \in Seq(Batches)
      BY <3>1, HeadTailProperties
    <3>3. [namespace |-> n, batchNumber |-> Head(incoming[s])] \in Task
      BY <3>2 DEF Task
    <3>4. queue' \in Seq(Task)
      BY <3>3, AppendTyped DEF TypeOK
    <3>5. incoming' \in [Sockets -> Seq(Batches)]
      BY <3>2 DEF TypeOK
    <3> QED
      BY <2>7, <3>4, <3>5 DEF BatchArrives, TypeOK, upstreamVars
  <2>6. CASE UpstreamReceives(s)
    <3> PICK n \in Namespaces :
            /\ socketNamespace[s] = n
            /\ current' \in {current, [current EXCEPT ![n] = @ + 1]}
            /\ current' # current => current[n] \in Head(wire[s]).batchNumbers
            /\ dispatchedOn' \in {dispatchedOn,
                                  [dispatchedOn EXCEPT ![n] = NotDispatched]}
      BY <2>6 DEF UpstreamReceives
    <3>1. Head(wire[s]) \in Control /\ Tail(wire[s]) \in Seq(Control)
      BY <2>6, HeadTailProperties DEF UpstreamReceives, TypeOK
    <3>2. current' \in [Namespaces -> 1..MaxBatch + 1]
      <4>1. CASE current' = current
        BY <4>1 DEF TypeOK
      <4>2. CASE current' # current
        <5>1. current[n] \in Batches
          BY <3>1, <4>2 DEF Control
        <5>2. current[n] + 1 \in 1..MaxBatch + 1
          BY <5>1 DEF Batches
        <5>3. current' = [current EXCEPT ![n] = current[n] + 1]
          BY <4>2
        <5> QED
          BY <5>2, <5>3 DEF TypeOK
      <4> QED
        BY <4>1, <4>2
    <3> QED
      BY <2>6, <3>1, <3>2 DEF UpstreamReceives, TypeOK
  <2> QED
    BY <1>2, <2>1, <2>2, <2>3, <2>4, <2>5, <2>6, <2>7 DEF SocketEvent
<1>3. ASSUME NEW n \in Namespaces, UpstreamNoticesLoss(n) PROVE TypeOK'
  BY <1>3 DEF UpstreamNoticesLoss, TypeOK, proxyVars, socketVars
<1>4. CASE DropBatch
  <2>1. queue' \in Seq(Task)
    BY <1>4, HeadTailProperties DEF DropBatch, TypeOK
  <2> QED
    BY <1>4, <2>1 DEF DropBatch, TypeOK, socketVars, upstreamVars
<1>5. CASE Crash
  <2>1. crashes' \in 0..MaxCrashes /\ clientAcked' \subseteq Namespaces \X Batches
    BY <1>5 DEF Crash, TypeOK
  <2> QED
    BY <1>5, <2>1, RestartTypeOK DEF Crash
<1>6. CASE UNCHANGED vars
  BY <1>6 DEF vars, proxyVars, socketVars, upstreamVars, TypeOK
<1> QED
  BY <1>1, <1>2, <1>3, <1>4, <1>5, <1>6 DEF Next
-----------------------------------------------------------------------------
(***************************************************************************)
(* The registry: who is a client of which namespace, and on which socket.  *)
(***************************************************************************)

\* Nothing has happened yet on the sockets that have not been created, and a
\* registered socket has been.
SocketsInv ==
    /\ \A s \in Sockets : s > created =>
          wire[s] = <<>> /\ incoming[s] = <<>> /\ sockets[s] = Finished
    /\ \A n \in Namespaces : namespaceEventStreamSocket[n] <= created
    /\ \A n \in Namespaces : insertedAt[n] <= created

RegistryInv == RegistryConsistent /\ HolderIsClient /\ SocketsInv

\* In the initial state no namespace is registered and no message is held.
LEMMA InitRegistry == Init => RegistryInv
  BY ProxyAssumption DEF Init, RegistryInv, RegistryConsistent, HolderIsClient,
     SocketsInv, Sockets

\* A restart empties the registry.
LEMMA RestartRegistry == TypeOK /\ Restart => RegistryInv'
  BY ProxyAssumption DEF Restart, RegistryInv, RegistryConsistent, HolderIsClient,
     SocketsInv, Sockets, TypeOK

\* Every step keeps the registry consistent, and every message with a client of its
\* namespace.
LEMMA RegistryStep == TypeOK /\ RegistryInv /\ [Next]_vars => RegistryInv'
<1> SUFFICES ASSUME TypeOK, RegistryInv, [Next]_vars PROVE RegistryInv'
  OBVIOUS
<1> USE ProxyAssumption DEF RegistryInv
<1>1. ASSUME NEW c \in Clients, ClientStep(c) PROVE RegistryInv'
  <2>1. CASE Connect(c)
    BY <2>1 DEF Connect, TypeOK, RegistryConsistent, HolderIsClient, SocketsInv,
       socketVars
  <2>2. CASE Disconnect(c)
    <3>1. /\ namespaceClients' = [n \in Namespaces |-> namespaceClients[n] \ {c}]
          /\ insertedAt' = [n \in Namespaces |->
                               IF n \in Abandons(c) THEN 0 ELSE insertedAt[n]]
          /\ namespaceEventStreamSocket' =
                [n \in Namespaces |-> IF n \in Abandons(c) THEN 0
                                      ELSE namespaceEventStreamSocket[n]]
          /\ socketNamespace' = socketNamespace
          /\ created' = created
      BY <2>2 DEF Disconnect
    <3>2. \A n \in Namespaces : n \in Abandons(c) <=>
              insertedAt[n] # 0 /\ namespaceClients[n] \subseteq {c}
      BY DEF Abandons, Registered
    <3>3. RegistryConsistent'
      BY <3>1, <3>2 DEF RegistryConsistent, TypeOK
    <3>4. HolderIsClient'
      <4>1. awaitingAck'[c] = {}
        <5>1. CASE Registered = {}
          BY <2>2, <5>1 DEF Disconnect, Registered, RegistryConsistent,
             HolderIsClient, TypeOK, Message
        <5>2. CASE Registered # {}
          BY <2>2, <5>2 DEF Disconnect, TypeOK
        <5> QED
          BY <5>1, <5>2
      <4>2. \A d \in Clients : d # c => awaitingAck'[d] = awaitingAck[d]
        BY <2>2 DEF Disconnect, TypeOK
      <4>3. ASSUME NEW d \in Clients, NEW m \in awaitingAck'[d]
            PROVE  d \in namespaceClients'[m.namespace]
        <5>1. d # c /\ m \in awaitingAck[d]
          BY <4>1, <4>2, <4>3
        <5>2. m.namespace \in Namespaces /\ d \in namespaceClients[m.namespace]
          BY <5>1 DEF TypeOK, Message, HolderIsClient
        <5> QED
          BY <3>1, <5>1, <5>2
      <4> QED
        BY <4>3 DEF HolderIsClient
    <3>5. SocketsInv'
      <4>1. ASSUME NEW s \in Sockets, s > created
            PROVE  wire'[s] = <<>> /\ incoming'[s] = <<>> /\ sockets'[s] = Finished
        <5>1. \A n \in Namespaces : namespaceEventStreamSocket[n] # s
          BY <4>1 DEF SocketsInv, TypeOK, Sockets
        <5>2. wire[s] = <<>> /\ incoming[s] = <<>> /\ sockets[s] = Finished
          BY <4>1 DEF SocketsInv
        <5>3. s \notin {namespaceEventStreamSocket[n] : n \in Abandons(c)}
          BY <5>1, <3>2 DEF Abandons, Registered
        <5>4. sockets'[s] = sockets[s]
          BY <2>2, <5>3 DEF Disconnect
        <5>5. wire'[s] = wire[s] /\ incoming'[s] = incoming[s]
          BY <2>2, <5>2, <5>3 DEF Disconnect, Finished
        <5> QED
          BY <5>2, <5>4, <5>5
      <4>2. \A n \in Namespaces : /\ namespaceEventStreamSocket'[n] <= created'
                                  /\ insertedAt'[n] <= created'
        BY <3>1 DEF SocketsInv, TypeOK
      <4> QED
        BY <3>1, <4>1, <4>2 DEF SocketsInv
    <3> QED
      BY <3>3, <3>4, <3>5
  <2>3. CASE DisconnectThrows(c)
    BY <2>3, RestartRegistry DEF DisconnectThrows
  <2>4. CASE SendBatch(c)
    <3> DEFINE message == [id |-> nextId, namespace |-> Head(queue).namespace,
                           batchNumber |-> Head(queue).batchNumber]
    <3>1. RegistryConsistent' /\ SocketsInv'
      BY <2>4 DEF SendBatch, RegistryConsistent, SocketsInv, socketVars
    <3>2. /\ \A d \in Clients : awaitingAck'[d] \subseteq
                 awaitingAck[d] \cup (IF d = c THEN {message} ELSE {})
          /\ c \in namespaceClients[message.namespace]
          /\ namespaceClients' = namespaceClients
      BY <2>4 DEF SendBatch, Send, TypeOK
    <3>3. HolderIsClient'
      <4> HIDE DEF message
      <4> QED
        BY <3>2 DEF HolderIsClient
    <3> QED
      BY <3>1, <3>3
  <2>5. ASSUME NEW n \in Namespaces, StartRegistered(c, n) PROVE RegistryInv'
    BY <2>5 DEF StartRegistered, AddClient, TypeOK, RegistryConsistent,
       HolderIsClient, SocketsInv, socketVars, Message
  <2>6. ASSUME NEW n \in Namespaces, Start(c, n) PROVE RegistryInv'
    BY <2>6 DEF Start, TypeOK, RegistryConsistent, HolderIsClient, SocketsInv,
       socketVars
  <2>7a. ASSUME NEW n \in Namespaces, StartConnected(c, n) PROVE SocketsInv'
    <3>1. /\ sockets' = [sockets EXCEPT ![created + 1] = Initialized]
          /\ wire' = wire /\ incoming' = incoming
          /\ created' = created + 1
          /\ created \in Nat
          /\ sockets \in [Sockets -> Socket]
      BY <2>7a DEF StartConnected, TypeOK
    <3>2. ASSUME NEW s \in Sockets, s > created + 1
          PROVE  wire'[s] = <<>> /\ incoming'[s] = <<>> /\ sockets'[s] = Finished
      <4>1. s > created /\ s # created + 1
        BY <3>1, <3>2 DEF Sockets
      <4>2. wire'[s] = wire[s] /\ incoming'[s] = incoming[s] /\ sockets'[s] = sockets[s]
        BY <3>1, <4>1
      <4> QED
        BY <4>1, <4>2 DEF SocketsInv
    <3>3. ASSUME NEW k \in Namespaces
          PROVE  /\ namespaceEventStreamSocket'[k] <= created + 1
                 /\ insertedAt'[k] <= created + 1
      BY <2>7a DEF StartConnected, SocketsInv, TypeOK
    <3> QED
      BY <3>1, <3>2, <3>3 DEF SocketsInv
  <2>7. ASSUME NEW n \in Namespaces, StartConnected(c, n) PROVE RegistryInv'
    <3> USE <2>7 DEF StartConnected, AddClient, TypeOK, Sockets
    <3>1. RegistryConsistent'
      <4>1. created + 1 \in Sockets
        BY DEF Sockets
      <4>2. ASSUME NEW k \in Namespaces, k # n
            PROVE  /\ namespaceEventStreamSocket'[k] = namespaceEventStreamSocket[k]
                   /\ insertedAt'[k] = insertedAt[k]
                   /\ namespaceClients'[k] = namespaceClients[k]
                   /\ namespaceEventStreamSocket[k] # created + 1
        BY <4>2 DEF SocketsInv
      <4>3. /\ namespaceEventStreamSocket'[n] = created + 1
            /\ insertedAt'[n] # 0
            /\ namespaceClients'[n] # {}
            /\ socketNamespace'[created + 1] = n
        BY <4>1
      <4>4. \A s \in Sockets : s # created + 1 => socketNamespace'[s] = socketNamespace[s]
        OBVIOUS
      <4>5. created + 1 # 0 /\ \A k \in Namespaces : namespaceEventStreamSocket[k] # 0
                                  => namespaceEventStreamSocket[k] \in Sockets
        BY DEF Sockets
      <4> QED
        BY <4>2, <4>3, <4>4, <4>5 DEF RegistryConsistent
    <3>2. HolderIsClient'
      BY DEF HolderIsClient, Message
    <3> QED
      BY <3>1, <3>2, <2>7a
  <2>8. ASSUME NEW n \in Namespaces, StartFailed(c, n) PROVE RegistryInv'
    BY <2>8 DEF StartFailed, TypeOK, RegistryConsistent, HolderIsClient, SocketsInv,
       socketVars
  <2>9. ASSUME NEW m \in awaitingAck[c], Ack(c, m) PROVE RegistryInv'
    <3> DEFINE s == namespaceEventStreamSocket[m.namespace]
    <3>1. RegistryConsistent'
      BY <2>9 DEF Ack, RegistryConsistent
    <3>2. HolderIsClient'
      BY <2>9 DEF Ack, HolderIsClient, TypeOK
    <3>3. s <= created
      <4>1. m \in Message
        BY DEF TypeOK
      <4> QED
        BY <4>1 DEF SocketsInv, Message
    <3>4. \A t \in Sockets : t # s => wire'[t] = wire[t]
      BY <2>9 DEF Ack, Produced, TypeOK
    <3>5. SocketsInv'
      <4>1. /\ sockets' = sockets /\ created' = created /\ incoming' = incoming
            /\ namespaceEventStreamSocket' = namespaceEventStreamSocket
            /\ insertedAt' = insertedAt
        BY <2>9 DEF Ack
      <4>2. \A t \in Sockets : t > created => t # s
        BY <3>3 DEF Sockets, TypeOK
      <4> HIDE DEF s
      <4> QED
        BY <3>4, <4>1, <4>2 DEF SocketsInv
    <3> QED
      BY <3>1, <3>2, <3>5
  <2>10. ASSUME NEW m \in awaitingAck[c], AckThrows(c, m) PROVE RegistryInv'
    BY <2>10, RestartRegistry DEF AckThrows
  <2> QED
    BY <1>1, <2>1, <2>2, <2>3, <2>4, <2>5, <2>6, <2>7, <2>8, <2>9, <2>10 DEF ClientStep
<1>2. ASSUME NEW s \in Sockets, SocketEvent(s) PROVE RegistryInv'
  <2>1. UNCHANGED <<namespaceClients, insertedAt, namespaceEventStreamSocket,
                    awaitingAck, created, socketNamespace>>
    BY <1>2 DEF SocketEvent, SocketOpens, SocketLost, SocketOnClose,
       SocketReconnects, UpstreamDispatches, BatchArrives, UpstreamReceives,
       SocketStep, proxyVars, socketVars
  <2>2. RegistryConsistent' /\ HolderIsClient'
    BY <2>1 DEF RegistryConsistent, HolderIsClient
  <2>3. s <= created
    <3>1. \/ wire[s] # <<>> \/ incoming[s] # <<>>
          \/ sockets[s].ws # "closed"
          \/ "reconnecting" \in sockets[s].flags
      BY <1>2 DEF SocketEvent, SocketOpens, SocketLost, SocketOnClose,
         SocketReconnects, UpstreamDispatches, BatchArrives, UpstreamReceives, Live,
         Reconnecting
    <3>2. Finished.ws = "closed" /\ "reconnecting" \notin Finished.flags
      BY DEF Finished
    <3>3. ~(s > created)
      BY <3>1, <3>2 DEF SocketsInv
    <3>4. created \in Nat /\ s \in Nat
      BY DEF TypeOK, Sockets
    <3> QED
      BY <3>3, <3>4
  <2>4. \A t \in Sockets : t # s => /\ wire'[t] = wire[t]
                                    /\ incoming'[t] = incoming[t]
                                    /\ sockets'[t] = sockets[t]
    BY <1>2 DEF SocketEvent, SocketOpens, SocketLost, SocketOnClose,
       SocketReconnects, UpstreamDispatches, BatchArrives, UpstreamReceives, SocketStep,
       socketVars, TypeOK
  <2>5. SocketsInv'
    <3>1. ASSUME NEW t \in Sockets, t > created
          PROVE  wire'[t] = <<>> /\ incoming'[t] = <<>> /\ sockets'[t] = Finished
      <4>1. t # s
        BY <2>3, <3>1 DEF Sockets, TypeOK
      <4> QED
        BY <2>4, <3>1, <4>1 DEF SocketsInv
    <3> QED
      BY <2>1, <3>1 DEF SocketsInv
  <2> QED
    BY <2>2, <2>5
<1>3. ASSUME NEW n \in Namespaces, UpstreamNoticesLoss(n) PROVE RegistryInv'
  BY <1>3 DEF UpstreamNoticesLoss, proxyVars, socketVars, RegistryConsistent,
     HolderIsClient, SocketsInv
<1>4. CASE DropBatch
  BY <1>4 DEF DropBatch, socketVars, RegistryConsistent, HolderIsClient, SocketsInv
<1>5. CASE Crash
  BY <1>5, RestartRegistry DEF Crash
<1>6. CASE UNCHANGED vars
  BY <1>6 DEF vars, proxyVars, socketVars, RegistryConsistent, HolderIsClient,
     SocketsInv
<1> QED
  BY <1>1, <1>2, <1>3, <1>4, <1>5, <1>6 DEF Next
-----------------------------------------------------------------------------
(***************************************************************************)
(* The wire: an ack on its way to EVMConnect stands for a client's ack.    *)
(***************************************************************************)

AckJustified ==
    \A s \in Sockets : \A i \in 1..Len(wire[s]) :
        wire[s][i].type = "ack" =>
            \A b \in wire[s][i].batchNumbers : <<socketNamespace[s], b>> \in clientAcked

\* No step forgets what a client has acknowledged.
LEMMA AckedStable == [Next]_vars => clientAcked \subseteq clientAcked'
<1> SUFFICES ASSUME [Next]_vars PROVE clientAcked \subseteq clientAcked'
  OBVIOUS
<1>1. ASSUME NEW c \in Clients, ClientStep(c) PROVE clientAcked \subseteq clientAcked'
  BY <1>1 DEF ClientStep, Connect, Disconnect, DisconnectThrows, SendBatch,
     StartRegistered, Start, StartConnected, StartFailed, Ack, AckThrows
<1>2. ASSUME NEW s \in Sockets, SocketEvent(s) PROVE clientAcked \subseteq clientAcked'
  BY <1>2 DEF SocketEvent, SocketOpens, SocketLost, SocketOnClose, SocketReconnects,
     UpstreamDispatches, BatchArrives, UpstreamReceives, SocketStep
<1>3. ASSUME NEW n \in Namespaces, UpstreamNoticesLoss(n)
      PROVE  clientAcked \subseteq clientAcked'
  BY <1>3 DEF UpstreamNoticesLoss
<1>4. CASE DropBatch
  BY <1>4 DEF DropBatch
<1>5. CASE Crash
  BY <1>5 DEF Crash
<1>6. CASE UNCHANGED vars
  BY <1>6 DEF vars
<1> QED
  BY <1>1, <1>2, <1>3, <1>4, <1>5, <1>6 DEF Next

\* Acks stay justified when nothing is added to the wire.
LEMMA WireKept ==
  ASSUME AckJustified, [Next]_vars, UNCHANGED <<wire, socketNamespace>>
  PROVE  AckJustified'
  BY AckedStable DEF AckJustified

\* Acks stay justified when the wires of all sockets are emptied.
LEMMA WireEmptied ==
  ASSUME Restart PROVE AckJustified'
<1>1. \A s \in Sockets : wire'[s] = <<>>
  BY DEF Restart
<1> QED
  BY <1>1 DEF AckJustified

\* Every step keeps the acks on the wire justified.
LEMMA WireStep == TypeOK /\ RegistryInv /\ AckJustified /\ [Next]_vars => AckJustified'
<1> SUFFICES ASSUME TypeOK, RegistryInv, AckJustified, [Next]_vars
             PROVE  AckJustified'
  OBVIOUS
<1> USE ProxyAssumption
<1>1. ASSUME NEW c \in Clients, ClientStep(c) PROVE AckJustified'
  <2>1. CASE Connect(c) \/ SendBatch(c)
    BY <2>1, WireKept DEF Connect, SendBatch, socketVars
  <2>2. CASE Disconnect(c)
    <3> DEFINE nacks(s) == {m \in Nacked(c) :
                                namespaceEventStreamSocket[m.namespace] = s}
    <3>1. socketNamespace' = socketNamespace /\ clientAcked' = clientAcked
      BY <2>2 DEF Disconnect
    <3>2. \A s \in Sockets : \/ wire'[s] = <<>>
                             \/ wire'[s] = wire[s]
                             \/ wire'[s] = Append(wire[s], NackMessage(nacks(s)))
      BY <2>2 DEF Disconnect
    <3>3. \A s \in Sockets : NackMessage(nacks(s)).type = "nack"
      BY DEF NackMessage
    <3> HIDE DEF nacks
    <3>4. ASSUME NEW s \in Sockets, NEW i \in 1..Len(wire'[s]),
                 wire'[s][i].type = "ack"
          PROVE  i \in 1..Len(wire[s]) /\ wire'[s][i] = wire[s][i]
      <4>1. CASE wire'[s] = wire[s]
        BY <4>1
      <4>2. CASE wire'[s] = <<>>
        BY <4>2, <3>4
      <4>3. CASE wire'[s] = Append(wire[s], NackMessage(nacks(s)))
        <5>1. wire[s] \in Seq(Control)
          BY DEF TypeOK
        <5>2. /\ Len(wire[s]) \in Nat
              /\ Len(wire'[s]) = Len(wire[s]) + 1
              /\ \A j \in 1..Len(wire[s]) : wire'[s][j] = wire[s][j]
              /\ wire'[s][Len(wire[s]) + 1] = NackMessage(nacks(s))
          BY <4>3, <5>1, LenProperties
        <5> QED
          BY <3>3, <3>4, <5>2
      <4> QED
        BY <3>2, <4>1, <4>2, <4>3
    <3> QED
      BY <3>1, <3>4 DEF AckJustified
  <2>3. CASE DisconnectThrows(c)
    BY <2>3, WireEmptied DEF DisconnectThrows
  <2>4. ASSUME NEW n \in Namespaces,
               StartRegistered(c, n) \/ Start(c, n) \/ StartFailed(c, n)
        PROVE  AckJustified'
    BY <2>4, WireKept DEF StartRegistered, Start, StartFailed, socketVars
  <2>5. ASSUME NEW n \in Namespaces, StartConnected(c, n) PROVE AckJustified'
    <3>1. /\ wire' = wire
          /\ clientAcked' = clientAcked
          /\ created + 1 \in Sockets
          /\ created + 1 > created
          /\ \A s \in Sockets : s # created + 1 => socketNamespace'[s] = socketNamespace[s]
      BY <2>5 DEF StartConnected, Sockets, TypeOK
    <3>2. wire[created + 1] = <<>>
      BY <3>1 DEF RegistryInv, SocketsInv
    <3> QED
      BY <3>1, <3>2 DEF AckJustified
  <2>6. ASSUME NEW m \in awaitingAck[c], Ack(c, m) PROVE AckJustified'
    <3> DEFINE s == namespaceEventStreamSocket[m.namespace]
    <3>1. CASE wire' = wire
      BY <2>6, <3>1, WireKept DEF Ack
    <3>2. CASE wire' # wire
      <4>1. m \in Message /\ m.namespace \in Namespaces
        BY DEF TypeOK, Message
      <4>2. /\ wire' = [wire EXCEPT ![s] = Append(@, AckMessage(m))]
            /\ s # 0
            /\ clientAcked' = clientAcked \cup {<<m.namespace, m.batchNumber>>}
            /\ socketNamespace' = socketNamespace
        BY <2>6, <3>2 DEF Ack, Produced
      <4>3. s \in Sockets /\ socketNamespace[s] = m.namespace
        BY <4>1, <4>2 DEF RegistryInv, RegistryConsistent, TypeOK, Sockets
      <4> HIDE DEF s
      <4>4. wire[s] \in Seq(Control) /\ wire'[s] = Append(wire[s], AckMessage(m))
        BY <4>2, <4>3 DEF TypeOK
      <4>5. /\ Len(wire[s]) \in Nat
            /\ Len(wire'[s]) = Len(wire[s]) + 1
            /\ \A j \in 1..Len(wire[s]) : wire'[s][j] = wire[s][j]
            /\ wire'[s][Len(wire[s]) + 1] = AckMessage(m)
        BY <4>4, LenProperties
      <4>6. \A t \in Sockets : t # s => wire'[t] = wire[t]
        BY <4>2 DEF TypeOK
      <4>7. AckMessage(m).batchNumbers = {m.batchNumber}
        BY DEF AckMessage
      <4>8. ASSUME NEW i \in 1..Len(wire'[s]), wire'[s][i].type = "ack",
                   NEW b \in wire'[s][i].batchNumbers
            PROVE  <<socketNamespace'[s], b>> \in clientAcked'
        <5>1. CASE i \in 1..Len(wire[s])
          BY <4>2, <4>3, <4>5, <4>8, <5>1 DEF AckJustified
        <5>2. CASE i = Len(wire[s]) + 1
          BY <4>2, <4>3, <4>5, <4>7, <4>8, <5>2
        <5> QED
          BY <4>5, <5>1, <5>2
      <4> QED
        BY <4>2, <4>6, <4>8 DEF AckJustified
    <3> QED
      BY <3>1, <3>2
  <2>7. ASSUME NEW m \in awaitingAck[c], AckThrows(c, m) PROVE AckJustified'
    BY <2>7, WireEmptied DEF AckThrows
  <2> QED
    BY <1>1, <2>1, <2>2, <2>3, <2>4, <2>5, <2>6, <2>7 DEF ClientStep
<1>2. ASSUME NEW s \in Sockets, SocketEvent(s) PROVE AckJustified'
  <2>1. CASE SocketOpens(s) \/ SocketOnClose(s) \/ SocketReconnects(s)
             \/ UpstreamDispatches(s) \/ BatchArrives(s)
    BY <2>1, WireKept DEF SocketOpens, SocketOnClose, SocketReconnects,
       UpstreamDispatches, BatchArrives, SocketStep, socketVars
  <2>2. CASE SocketLost(s)
    <3>1. /\ wire'[s] = <<>>
          /\ \A t \in Sockets : t # s => wire'[t] = wire[t]
          /\ socketNamespace' = socketNamespace
      BY <2>2 DEF SocketLost, SocketStep, TypeOK
    <3> QED
      BY <3>1, AckedStable DEF AckJustified
  <2>3. CASE UpstreamReceives(s)
    <3>1. /\ wire'[s] = Tail(wire[s])
          /\ \A t \in Sockets : t # s => wire'[t] = wire[t]
          /\ socketNamespace' = socketNamespace
      BY <2>3 DEF UpstreamReceives, TypeOK
    <3>2. \A i \in 1..Len(wire'[s]) : i + 1 \in 1..Len(wire[s])
                                       /\ wire'[s][i] = wire[s][i + 1]
      <4>1. wire[s] \in Seq(Control) /\ wire[s] # <<>>
        BY <2>3 DEF UpstreamReceives, TypeOK
      <4> QED
        BY <3>1, <4>1, HeadTailProperties, LenProperties
    <3>3. clientAcked' = clientAcked
      BY <2>3 DEF UpstreamReceives
    <3>4. ASSUME NEW t \in Sockets, NEW i \in 1..Len(wire'[t]),
                 wire'[t][i].type = "ack", NEW b \in wire'[t][i].batchNumbers
          PROVE  <<socketNamespace[t], b>> \in clientAcked
      <4>1. CASE t = s
        <5>1. i + 1 \in 1..Len(wire[s]) /\ wire'[s][i] = wire[s][i + 1]
          BY <3>2, <3>4, <4>1
        <5> QED
          BY <3>4, <4>1, <5>1 DEF AckJustified
      <4>2. CASE t # s
        BY <3>1, <3>4, <4>2 DEF AckJustified
      <4> QED
        BY <4>1, <4>2
    <3> QED
      BY <3>1, <3>3, <3>4 DEF AckJustified
  <2> QED
    BY <1>2, <2>1, <2>2, <2>3 DEF SocketEvent
<1>3. ASSUME NEW n \in Namespaces, UpstreamNoticesLoss(n) PROVE AckJustified'
  BY <1>3, WireKept DEF UpstreamNoticesLoss, socketVars
<1>4. CASE DropBatch
  BY <1>4, WireKept DEF DropBatch, socketVars
<1>5. CASE Crash
  BY <1>5, WireEmptied DEF Crash
<1>6. CASE UNCHANGED vars
  BY <1>6, WireKept DEF vars, socketVars
<1> QED
  BY <1>1, <1>2, <1>3, <1>4, <1>5, <1>6 DEF Next
-----------------------------------------------------------------------------
(***************************************************************************)
(* Delivery: what EVMConnect and the clients have reached.                 *)
(***************************************************************************)

\* EVMConnect moves on by one batch, which a client has acknowledged.
Advances ==
    /\ clientAcked' = clientAcked
    /\ \E n \in Namespaces : /\ <<n, current[n]>> \in clientAcked
                             /\ current' = [current EXCEPT ![n] = @ + 1]

\* A client acknowledges a message it holds.
Acknowledged ==
    /\ current' = current
    /\ \E c \in Clients : \E m \in awaitingAck[c] :
          clientAcked' = clientAcked \cup {<<m.namespace, m.batchNumber>>}

\* A step either advances a stream past an acknowledged batch, or is the ack of a
\* held message, or changes neither what is acknowledged nor what is current.
LEMMA DeliveryStep ==
  ASSUME TypeOK, AckJustified, [Next]_vars
  PROVE  Advances \/ Acknowledged \/ UNCHANGED <<clientAcked, current>>
<1> USE ProxyAssumption
<1>1. ASSUME NEW c \in Clients, ClientStep(c)
      PROVE  Acknowledged \/ UNCHANGED <<clientAcked, current>>
  <2>1. ASSUME NEW m \in awaitingAck[c], Ack(c, m) \/ AckThrows(c, m)
        PROVE  Acknowledged
    BY <2>1 DEF Ack, AckThrows, Restart, Acknowledged, upstreamVars
  <2>2. CASE \/ Connect(c) \/ Disconnect(c) \/ DisconnectThrows(c) \/ SendBatch(c)
             \/ \E n \in Namespaces : \/ StartRegistered(c, n) \/ Start(c, n)
                                      \/ StartConnected(c, n) \/ StartFailed(c, n)
    BY <2>2 DEF Connect, Disconnect, DisconnectThrows, SendBatch, StartRegistered,
       Start, StartConnected, StartFailed, Restart, upstreamVars
  <2> QED
    BY <1>1, <2>1, <2>2 DEF ClientStep
<1>2. ASSUME NEW s \in Sockets, SocketEvent(s)
      PROVE  Advances \/ UNCHANGED <<clientAcked, current>>
  <2>1. CASE UpstreamReceives(s)
    <3>1. clientAcked' = clientAcked
      BY <2>1 DEF UpstreamReceives
    <3>2. CASE current' = current
      BY <3>1, <3>2
    <3>3. CASE current' # current
      <4>1. PICK n \in Namespaces :
                /\ socketNamespace[s] = n
                /\ Head(wire[s]).type = "ack"
                /\ current[n] \in Head(wire[s]).batchNumbers
                /\ current' = [current EXCEPT ![n] = @ + 1]
        BY <2>1, <3>3 DEF UpstreamReceives
      <4>2. wire[s] \in Seq(Control) /\ wire[s] # <<>>
        BY <2>1 DEF UpstreamReceives, TypeOK
      <4>3. 1 \in 1..Len(wire[s]) /\ Head(wire[s]) = wire[s][1]
        BY <4>2, HeadTailProperties, LenProperties
      <4>4. <<n, current[n]>> \in clientAcked
        BY <4>1, <4>3 DEF AckJustified
      <4> QED
        BY <3>1, <4>1, <4>4 DEF Advances
    <3> QED
      BY <3>2, <3>3
  <2>2. CASE SocketOpens(s) \/ SocketLost(s) \/ SocketOnClose(s)
             \/ SocketReconnects(s) \/ UpstreamDispatches(s) \/ BatchArrives(s)
    BY <2>2 DEF SocketOpens, SocketLost, SocketOnClose, SocketReconnects,
       SocketStep, UpstreamDispatches, BatchArrives, upstreamVars
  <2> QED
    BY <1>2, <2>1, <2>2 DEF SocketEvent
<1>3. ASSUME NEW n \in Namespaces, UpstreamNoticesLoss(n)
      PROVE  UNCHANGED <<clientAcked, current>>
  BY <1>3 DEF UpstreamNoticesLoss
<1>4. CASE DropBatch
  BY <1>4 DEF DropBatch, upstreamVars
<1>5. CASE Crash
  BY <1>5 DEF Crash, Restart
<1>6. CASE UNCHANGED vars
  BY <1>6 DEF vars, upstreamVars
<1> QED
  BY <1>1, <1>2, <1>3, <1>4, <1>5, <1>6 DEF Next

\* The batch b of the namespace n is in transit on a connection.
InTransit(n, b) ==
    \E s \in Sockets : /\ socketNamespace[s] = n
                       /\ \E i \in 1..Len(incoming[s]) : incoming[s][i] = b

\* No batch number is ahead of EVMConnect: in transit, queued or held.
Reached ==
    /\ \A n \in Namespaces : \A b \in Batches : InTransit(n, b) => b <= current[n]
    /\ \A i \in 1..Len(queue) : queue[i].batchNumber <= current[queue[i].namespace]
    /\ \A c \in Clients : \A m \in awaitingAck[c] :
          m.batchNumber <= current[m.namespace]

\* The parts of the types that the ordering of batches needs.
LEMMA OrderTypes ==
  ASSUME TypeOK
  PROVE  /\ current \in [Namespaces -> Int]
         /\ queue \in Seq(Task)
         /\ Len(queue) \in Nat
         /\ \A i \in 1..Len(queue) : /\ queue[i].namespace \in Namespaces
                                     /\ queue[i].batchNumber \in Batches
                                     /\ queue[i].batchNumber \in Int
         /\ \A c \in Clients : \A m \in awaitingAck[c] :
               m.namespace \in Namespaces /\ m.batchNumber \in Int /\ m.id \in Int
         /\ nextId \in Int
<1> USE ProxyAssumption
<1>1. /\ current \in [Namespaces -> 1..MaxBatch + 1]
      /\ queue \in Seq(Task)
      /\ awaitingAck \in [Clients -> SUBSET Message]
      /\ nextId \in 1..MaxMessages + 1
  BY DEF TypeOK
<1>2. \A n \in Namespaces : current[n] \in Int
  BY <1>1
<1>3. Len(queue) \in Nat /\ \A i \in 1..Len(queue) : queue[i] \in Task
  BY <1>1, LenProperties, ElementOfSeq
<1>4. \A t \in Task : t.namespace \in Namespaces /\ t.batchNumber \in Batches
  BY DEF Task
<1>5. \A m \in Message : /\ m.namespace \in Namespaces
                          /\ m.batchNumber \in Int
                          /\ m.id \in Int
  BY DEF Message, Batches
<1>6. \A c \in Clients : \A m \in awaitingAck[c] : m \in Message
  BY <1>1
<1>7. \A b \in Batches : b \in Int
  BY DEF Batches
<1> QED
  BY <1>1, <1>2, <1>3, <1>4, <1>5, <1>6, <1>7

\* What is in transit is a batch.
LEMMA TransitTypes ==
  ASSUME TypeOK, NEW s \in Sockets
  PROVE  /\ incoming[s] \in Seq(Batches)
         /\ Len(incoming[s]) \in Nat
         /\ \A i \in 1..Len(incoming[s]) : /\ incoming[s][i] \in Batches
                                           /\ incoming[s][i] \in Int
<1>1. incoming[s] \in Seq(Batches)
  BY DEF TypeOK
<1>2. Len(incoming[s]) \in Nat /\ \A i \in 1..Len(incoming[s]) : incoming[s][i] \in Batches
  BY <1>1, LenProperties, ElementOfSeq
<1>3. \A b \in Batches : b \in Int
  BY ProxyAssumption DEF Batches
<1> QED
  BY <1>1, <1>2, <1>3

\* EVMConnect never goes back.
LEMMA CurrentGrows ==
  ASSUME TypeOK, AckJustified, [Next]_vars
  PROVE  \A n \in Namespaces : current[n] <= current'[n] /\ current'[n] \in Int
<1>1. current \in [Namespaces -> Int]
  BY OrderTypes
<1>2. CASE Advances
  <2>1. PICK n \in Namespaces : current' = [current EXCEPT ![n] = @ + 1]
    BY <1>2 DEF Advances
  <2> QED
    BY <1>1, <2>1
<1>3. CASE current' = current
  BY <1>1, <1>3
<1>4. Advances \/ current' = current
  BY DeliveryStep DEF Acknowledged
<1> QED
  BY <1>2, <1>3, <1>4

\* A batch takes three steps to a client, in each of which nothing else moves: it is
\* dispatched on a connection, arrives in the queue, and is handed out under a new id.
Shrinks == \A c \in Clients : awaitingAck'[c] \subseteq awaitingAck[c]
Dispatched ==
    /\ Shrinks
    /\ UNCHANGED <<nextId, queue, socketNamespace>>
    /\ \E s \in Sockets :
          /\ socketNamespace[s] \in Namespaces
          /\ incoming' = [incoming EXCEPT ![s] = Append(@, current[socketNamespace[s]])]
          /\ current[socketNamespace[s]] \in Batches
          /\ crossed' = IF Crosses(socketNamespace[s], s)
                        THEN crossed \cup {socketNamespace[s]} ELSE crossed
Queued ==
    /\ Shrinks
    /\ UNCHANGED <<nextId, socketNamespace, crossed>>
    /\ \E s \in Sockets :
          /\ socketNamespace[s] \in Namespaces
          /\ incoming[s] # <<>>
          /\ incoming' = [incoming EXCEPT ![s] = Tail(@)]
          /\ queue' = Append(queue, [namespace |-> socketNamespace[s],
                                     batchNumber |-> Head(incoming[s])])
Handed ==
    /\ queue # <<>>
    /\ queue' = Tail(queue)
    /\ nextId' = nextId + 1
    /\ UNCHANGED <<incoming, socketNamespace, crossed>>
    /\ \E c \in Clients :
          /\ \A d \in Clients \ {c} : awaitingAck'[d] = awaitingAck[d]
          /\ awaitingAck'[c] \subseteq awaitingAck[c] \cup
                {[id |-> nextId, namespace |-> Head(queue).namespace,
                  batchNumber |-> Head(queue).batchNumber]}

\* Everything else only loses batches, or starts the process again.
Lost ==
    \A s \in Sockets :
        \/ incoming'[s] = <<>>
        \/ incoming'[s] = incoming[s] /\ socketNamespace'[s] = socketNamespace[s]
Kept ==
    /\ Shrinks
    /\ nextId' = nextId
    /\ crossed' = crossed
    /\ Lost
    /\ queue' = queue \/ (queue # <<>> /\ queue' = Tail(queue))
Restarted ==
    /\ \A c \in Clients : awaitingAck'[c] = {}
    /\ nextId' = nextId
    /\ queue' = <<>>
    /\ \A s \in Sockets : incoming'[s] = <<>>

\* A restart loses everything that is in transit, queued or held.
LEMMA RestartLoses == Restart => Restarted
  BY DEF Restart, Restarted

\* Every step is one of these five.
LEMMA QueueStep ==
  ASSUME TypeOK, SocketsInv, [Next]_vars
  PROVE  Kept \/ Restarted \/ Dispatched \/ Queued \/ Handed
<1> USE DEF Kept, Shrinks, Lost, upstreamVars
<1>1. ASSUME NEW c \in Clients, ClientStep(c) PROVE Kept \/ Restarted \/ Handed
  <2>1. CASE Connect(c)
    BY <2>1 DEF Connect, TypeOK, socketVars
  <2>2. CASE Disconnect(c)
    <3>1. /\ Shrinks /\ UNCHANGED <<nextId, queue, crossed, socketNamespace>>
      BY <2>2 DEF Disconnect, TypeOK
    <3>2. \A s \in Sockets : incoming'[s] = <<>> \/ incoming'[s] = incoming[s]
      BY <2>2 DEF Disconnect
    <3> QED
      BY <3>1, <3>2
  <2>3. CASE DisconnectThrows(c)
    BY <2>3, RestartLoses DEF DisconnectThrows
  <2>4. CASE SendBatch(c)
    <3>1. /\ queue # <<>> /\ queue' = Tail(queue) /\ nextId' = nextId + 1
          /\ \A d \in Clients \ {c} : awaitingAck'[d] = awaitingAck[d]
          /\ UNCHANGED <<incoming, socketNamespace, crossed>>
      BY <2>4 DEF SendBatch, Send, TypeOK, socketVars
    <3>2. awaitingAck'[c] \subseteq awaitingAck[c] \cup
             {[id |-> nextId, namespace |-> Head(queue).namespace,
               batchNumber |-> Head(queue).batchNumber]}
      BY <2>4 DEF SendBatch, Send, TypeOK
    <3> QED
      BY <3>1, <3>2 DEF Handed
  <2>5. ASSUME NEW n \in Namespaces, StartRegistered(c, n) \/ Start(c, n) \/ StartFailed(c, n)
        PROVE  Kept
    BY <2>5 DEF StartRegistered, Start, StartFailed, socketVars
  <2>6. ASSUME NEW n \in Namespaces, StartConnected(c, n) PROVE Kept
    <3>1. UNCHANGED <<awaitingAck, nextId, queue, crossed, incoming>>
      BY <2>6 DEF StartConnected
    <3>2. created + 1 \in Sockets /\ created + 1 > created
      BY <2>6, ProxyAssumption DEF StartConnected, Sockets, TypeOK
    <3>3. \A s \in Sockets : s # created + 1 => socketNamespace'[s] = socketNamespace[s]
      BY <2>6 DEF StartConnected, TypeOK
    <3>4. incoming[created + 1] = <<>>
      BY <3>2 DEF SocketsInv
    <3> QED
      BY <3>1, <3>3, <3>4
  <2>7. ASSUME NEW m \in awaitingAck[c], Ack(c, m) PROVE Kept
    BY <2>7 DEF Ack, TypeOK
  <2>8. ASSUME NEW m \in awaitingAck[c], AckThrows(c, m) PROVE Restarted
    BY <2>8, RestartLoses DEF AckThrows
  <2> QED
    BY <1>1, <2>1, <2>2, <2>3, <2>4, <2>5, <2>6, <2>7, <2>8 DEF ClientStep
<1>2. ASSUME NEW s \in Sockets, SocketEvent(s) PROVE Kept \/ Dispatched \/ Queued
  <2>1. CASE UpstreamDispatches(s)
    <3>1. PICK n \in Namespaces :
              /\ socketNamespace[s] = n
              /\ current[n] <= MaxBatch
              /\ incoming' = [incoming EXCEPT ![s] = Append(@, current[n])]
              /\ crossed' = IF Crosses(n, s) THEN crossed \cup {n} ELSE crossed
              /\ UNCHANGED <<awaitingAck, nextId, queue, socketNamespace>>
      BY <2>1 DEF UpstreamDispatches, proxyVars
    <3>2. current[n] \in Batches
      BY <3>1, ProxyAssumption DEF TypeOK, Batches
    <3> QED
      BY <3>1, <3>2 DEF Dispatched
  <2>2. CASE BatchArrives(s)
    BY <2>2 DEF BatchArrives, QueueTask, Queued
  <2>3. CASE SocketOpens(s) \/ SocketOnClose(s) \/ SocketReconnects(s)
    BY <2>3 DEF SocketOpens, SocketOnClose, SocketReconnects, SocketStep, proxyVars
  <2>4. CASE SocketLost(s)
    BY <2>4 DEF SocketLost, SocketStep, proxyVars, TypeOK
  <2>5. CASE UpstreamReceives(s)
    BY <2>5 DEF UpstreamReceives, proxyVars
  <2> QED
    BY <1>2, <2>1, <2>2, <2>3, <2>4, <2>5 DEF SocketEvent
<1>3. ASSUME NEW n \in Namespaces, UpstreamNoticesLoss(n) PROVE Kept
  BY <1>3 DEF UpstreamNoticesLoss, proxyVars, socketVars
<1>4. CASE DropBatch
  BY <1>4 DEF DropBatch, socketVars
<1>5. CASE Crash
  BY <1>5, RestartLoses DEF Crash
<1>6. CASE UNCHANGED vars
  BY <1>6 DEF vars, proxyVars, socketVars
<1> QED
  BY <1>1, <1>2, <1>3, <1>4, <1>5, <1>6 DEF Next

\* What is left of the queue is what followed its head.
LEMMA TailOfQueue ==
  ASSUME TypeOK, queue # <<>>, queue' = Tail(queue)
  PROVE  /\ 1 \in 1..Len(queue) /\ Head(queue) = queue[1]
         /\ \A i \in 1..Len(queue') : /\ i + 1 \in 1..Len(queue)
                                      /\ queue'[i] = queue[i + 1]
<1>1. queue \in Seq(Task)
  BY DEF TypeOK
<1> QED
  BY <1>1, TailTyped

\* What is left on a connection is what followed the batch that arrived.
LEMMA TailOfTransit ==
  ASSUME TypeOK, NEW s \in Sockets, incoming[s] # <<>>,
         incoming' = [incoming EXCEPT ![s] = Tail(@)]
  PROVE  /\ 1 \in 1..Len(incoming[s]) /\ Head(incoming[s]) = incoming[s][1]
         /\ \A i \in 1..Len(incoming'[s]) : /\ i + 1 \in 1..Len(incoming[s])
                                            /\ incoming'[s][i] = incoming[s][i + 1]
         /\ \A t \in Sockets : t # s => incoming'[t] = incoming[t]
<1>1. incoming[s] \in Seq(Batches) /\ incoming'[s] = Tail(incoming[s])
  BY DEF TypeOK
<1>2. \A t \in Sockets : t # s => incoming'[t] = incoming[t]
  BY DEF TypeOK
<1>3. /\ 1 \in 1..Len(incoming[s]) /\ Head(incoming[s]) = incoming[s][1]
      /\ \A i \in 1..Len(Tail(incoming[s])) :
            i + 1 \in 1..Len(incoming[s]) /\ Tail(incoming[s])[i] = incoming[s][i + 1]
  BY <1>1, TailTyped
<1> QED
  BY <1>1, <1>2, <1>3

\* What is on a connection after a dispatch is what was there, and the current batch.
LEMMA TransitGrown ==
  ASSUME TypeOK, NEW s \in Sockets, NEW b \in Batches,
         incoming' = [incoming EXCEPT ![s] = Append(@, b)]
  PROVE  /\ Len(incoming'[s]) = Len(incoming[s]) + 1
         /\ \A i \in 1..Len(incoming[s]) : incoming'[s][i] = incoming[s][i]
         /\ incoming'[s][Len(incoming[s]) + 1] = b
         /\ \A t \in Sockets : t # s => incoming'[t] = incoming[t]
<1>1. incoming[s] \in Seq(Batches) /\ incoming'[s] = Append(incoming[s], b)
  BY DEF TypeOK
<1>2. \A t \in Sockets : t # s => incoming'[t] = incoming[t]
  BY DEF TypeOK
<1> QED
  BY <1>1, <1>2, AppendTyped

\* What is in transit after a step was so before, or was dispatched by it.
LEMMA TransitStep ==
  ASSUME TypeOK, NEW n \in Namespaces, NEW b \in Batches, InTransit(n, b)',
         Kept \/ Restarted \/ Dispatched \/ Queued \/ Handed
  PROVE  InTransit(n, b) \/ (Dispatched /\ b = current[n])
<1>0. PICK s \in Sockets : /\ socketNamespace'[s] = n
                           /\ \E i \in 1..Len(incoming'[s]) : incoming'[s][i] = b
  BY DEF InTransit
<1>1. PICK i \in 1..Len(incoming'[s]) : socketNamespace'[s] = n /\ incoming'[s][i] = b
  BY <1>0
<1>2. CASE incoming'[s] = incoming[s] /\ socketNamespace'[s] = socketNamespace[s]
  BY <1>1, <1>2 DEF InTransit
<1>3. CASE incoming'[s] = <<>>
  BY <1>1, <1>3
<1>4. CASE Dispatched
  <2>1. PICK t \in Sockets :
            /\ incoming' = [incoming EXCEPT ![t] = Append(@, current[socketNamespace[t]])]
            /\ current[socketNamespace[t]] \in Batches
            /\ socketNamespace' = socketNamespace
    BY <1>4 DEF Dispatched
  <2>2. CASE s = t
    <3>1. /\ Len(incoming'[t]) = Len(incoming[t]) + 1
          /\ \A j \in 1..Len(incoming[t]) : incoming'[t][j] = incoming[t][j]
          /\ incoming'[t][Len(incoming[t]) + 1] = current[socketNamespace[t]]
          /\ Len(incoming[t]) \in Nat
      BY <2>1, TransitGrown, TransitTypes
    <3>2. CASE i \in 1..Len(incoming[t])
      BY <1>1, <2>1, <2>2, <3>1, <3>2 DEF InTransit
    <3>3. CASE i = Len(incoming[t]) + 1
      BY <1>1, <1>4, <2>1, <2>2, <3>1, <3>3
    <3> QED
      BY <1>1, <2>2, <3>1, <3>2, <3>3
  <2>3. CASE s # t
    BY <1>2, <2>1, <2>3, TransitGrown
  <2> QED
    BY <2>2, <2>3
<1>5. CASE Queued
  <2>1. PICK t \in Sockets : /\ incoming[t] # <<>>
                             /\ incoming' = [incoming EXCEPT ![t] = Tail(@)]
                             /\ socketNamespace' = socketNamespace
    BY <1>5 DEF Queued
  <2>2. CASE s = t
    <3>1. i + 1 \in 1..Len(incoming[s]) /\ incoming'[s][i] = incoming[s][i + 1]
      BY <1>1, <2>1, <2>2, TailOfTransit
    <3> QED
      BY <1>1, <2>1, <3>1 DEF InTransit
  <2>3. CASE s # t
    BY <1>2, <2>1, <2>3, TailOfTransit
  <2> QED
    BY <2>2, <2>3
<1> QED
  BY <1>2, <1>3, <1>4, <1>5 DEF Kept, Lost, Restarted, Handed

\* A batch that arrives was in transit.
LEMMA ArrivalWasInTransit ==
  ASSUME TypeOK, NEW s \in Sockets, incoming[s] # <<>>
  PROVE  InTransit(socketNamespace[s], Head(incoming[s])) /\ Head(incoming[s]) \in Batches
<1>1. 1 \in 1..Len(incoming[s]) /\ Head(incoming[s]) = incoming[s][1]
  BY TransitTypes, HeadTailProperties, LenProperties
<1>2. Head(incoming[s]) \in Batches
  BY <1>1, TransitTypes
<1> QED
  BY <1>1, <1>2 DEF InTransit

\* A task that is added to the queue leaves the others where they are.
LEMMA QueueGrown ==
  ASSUME TypeOK, NEW task, queue' = Append(queue, task)
  PROVE  /\ Len(queue') = Len(queue) + 1
         /\ \A i \in 1..Len(queue) : queue'[i] = queue[i]
         /\ queue'[Len(queue) + 1] = task
<1>1. queue \in Seq(Task)
  BY DEF TypeOK
<1> QED
  BY <1>1

\* No step lets a batch number get ahead of EVMConnect.
LEMMA ReachedStep ==
  ASSUME TypeOK, SocketsInv, AckJustified, Reached, [Next]_vars
  PROVE  Reached'
<1>1. /\ current \in [Namespaces -> Int]
      /\ \A n \in Namespaces : current[n] <= current'[n] /\ current'[n] \in Int
  BY OrderTypes, CurrentGrows
<1>2. Kept \/ Restarted \/ Dispatched \/ Queued \/ Handed
  BY QueueStep
<1>3. /\ Len(queue) \in Nat
      /\ \A i \in 1..Len(queue) : /\ queue[i].namespace \in Namespaces
                                  /\ queue[i].batchNumber \in Int
                                  /\ queue[i].batchNumber <= current'[queue[i].namespace]
  BY <1>1, OrderTypes DEF Reached
<1>4. \A c \in Clients : \A m \in awaitingAck[c] : m.batchNumber <= current'[m.namespace]
  BY <1>1, OrderTypes DEF Reached
<1>5. ASSUME NEW n \in Namespaces, NEW b \in Batches, InTransit(n, b)'
      PROVE  b <= current'[n]
  <2>1. b <= current[n]
    BY <1>1, <1>2, <1>5, TransitStep DEF Reached
  <2>2. b \in Int
    BY ProxyAssumption DEF Batches
  <2> QED
    BY <1>1, <2>1, <2>2
<1>6. ASSUME NEW i \in 1..Len(queue')
      PROVE  queue'[i].batchNumber <= current'[queue'[i].namespace]
  <2>1. CASE queue' = queue \/ queue' = <<>>
    BY <1>3, <1>6, <2>1
  <2>2. CASE queue # <<>> /\ queue' = Tail(queue)
    BY <1>3, <1>6, <2>2, TailOfQueue
  <2>3. CASE Queued
    <3>1. PICK s \in Sockets :
              /\ socketNamespace[s] \in Namespaces
              /\ incoming[s] # <<>>
              /\ queue' = Append(queue, [namespace |-> socketNamespace[s],
                                         batchNumber |-> Head(incoming[s])])
      BY <2>3 DEF Queued
    <3>2. CASE i \in 1..Len(queue)
      BY <1>3, <3>1, <3>2, QueueGrown
    <3>3. CASE i = Len(queue) + 1
      <4>1. /\ queue'[i].namespace = socketNamespace[s]
            /\ queue'[i].batchNumber = Head(incoming[s])
        BY <3>1, <3>3, QueueGrown
      <4>2. Head(incoming[s]) <= current[socketNamespace[s]] /\ Head(incoming[s]) \in Int
        BY <3>1, ArrivalWasInTransit, ProxyAssumption DEF Reached, Batches
      <4> QED
        BY <1>1, <3>1, <4>1, <4>2
    <3> QED
      BY <1>3, <1>6, <3>1, <3>2, <3>3, QueueGrown
  <2> QED
    BY <1>2, <2>1, <2>2, <2>3 DEF Kept, Restarted, Dispatched, Handed
<1>7. ASSUME NEW c \in Clients, NEW m \in awaitingAck'[c]
      PROVE  m.batchNumber <= current'[m.namespace]
  <2>1. CASE m \in awaitingAck[c]
    BY <1>4, <2>1
  <2>2. CASE m \notin awaitingAck[c]
    <3>1. Handed
      BY <1>2, <1>7, <2>2 DEF Kept, Restarted, Dispatched, Queued, Shrinks
    <3>2. /\ m.namespace = queue[1].namespace
          /\ m.batchNumber = queue[1].batchNumber
          /\ 1 \in 1..Len(queue)
      BY <1>7, <2>2, <3>1, TailOfQueue DEF Handed
    <3> QED
      BY <1>3, <3>2
  <2> QED
    BY <2>1, <2>2
<1> QED
  BY <1>5, <1>6, <1>7 DEF Reached
-----------------------------------------------------------------------------
(***************************************************************************)
(* Order: of two batches of a namespace, the earlier is handed out first,  *)
(* as long as none was dispatched on one connection while an earlier one   *)
(* was in transit on another.                                              *)
(***************************************************************************)

\* What is in transit on one connection of a namespace is in order, and on two
\* connections it is all the same batch.
TransitSorted ==
    \A s, t \in Sockets : \A i \in 1..Len(incoming[s]), j \in 1..Len(incoming[t]) :
        /\ socketNamespace[s] = socketNamespace[t]
        /\ socketNamespace[s] \in Namespaces \ crossed
        => /\ s # t => incoming[s][i] = incoming[t][j]
           /\ s = t /\ i < j => incoming[s][i] <= incoming[t][j]
QueueSorted ==
    \A i, j \in 1..Len(queue) :
        /\ i < j
        /\ queue[i].namespace = queue[j].namespace
        /\ queue[i].namespace \notin crossed
        => queue[i].batchNumber <= queue[j].batchNumber
QueueBeforeTransit ==
    \A n \in Namespaces \ crossed : \A i \in 1..Len(queue) : \A b \in Batches :
        queue[i].namespace = n /\ InTransit(n, b) => queue[i].batchNumber <= b
HeldBeforeQueued ==
    \A c \in Clients : \A m \in awaitingAck[c] : \A i \in 1..Len(queue) :
        m.namespace = queue[i].namespace /\ m.namespace \notin crossed =>
            m.batchNumber <= queue[i].batchNumber
HeldBeforeTransit ==
    \A n \in Namespaces \ crossed : \A b \in Batches : InTransit(n, b) =>
        \A c \in Clients : \A m \in awaitingAck[c] : m.namespace = n => m.batchNumber <= b
IdsSpent == \A c \in Clients : \A m \in awaitingAck[c] : m.id < nextId

QueueInv ==
    /\ TransitSorted
    /\ QueueSorted
    /\ QueueBeforeTransit
    /\ HeldBeforeQueued
    /\ HeldBeforeTransit
HeldInv == IdsSpent /\ HandedOutInOrder

\* A namespace whose batches have crossed stays so until the process ends, which loses all.
LEMMA CrossedStays ==
  ASSUME Kept \/ Restarted \/ Dispatched \/ Queued \/ Handed
  PROVE  Restarted \/ crossed \subseteq crossed'
  BY DEF Kept, Dispatched, Queued, Handed

\* A batch that arrives is not after any other that is still in transit.
LEMMA ArrivesFirst ==
  ASSUME TypeOK, TransitSorted, NEW s \in Sockets,
         socketNamespace[s] \in Namespaces \ crossed, incoming[s] # <<>>,
         incoming' = [incoming EXCEPT ![s] = Tail(@)], socketNamespace' = socketNamespace,
         NEW b \in Batches, InTransit(socketNamespace[s], b)'
  PROVE  Head(incoming[s]) <= b
<1>0. PICK t \in Sockets : /\ socketNamespace[t] = socketNamespace[s]
                           /\ \E j \in 1..Len(incoming'[t]) : incoming'[t][j] = b
  BY DEF InTransit
<1>1. PICK j \in 1..Len(incoming'[t]) :
          socketNamespace[t] = socketNamespace[s] /\ incoming'[t][j] = b
  BY <1>0
<1>2. 1 \in 1..Len(incoming[s]) /\ Head(incoming[s]) = incoming[s][1]
  BY TailOfTransit
<1>3. CASE t = s
  <2>1. j + 1 \in 1..Len(incoming[s]) /\ incoming'[s][j] = incoming[s][j + 1]
    BY <1>1, <1>3, TailOfTransit
  <2>2. 1 < j + 1
    BY <1>1
  <2> QED
    BY <1>1, <1>2, <1>3, <2>1, <2>2 DEF TransitSorted
<1>4. CASE t # s
  <2>1. incoming'[t] = incoming[t]
    BY <1>4, TailOfTransit
  <2>2. incoming[s][1] = incoming[t][j]
    BY <1>1, <1>2, <1>4, <2>1 DEF TransitSorted
  <2>3. Head(incoming[s]) = b
    BY <1>1, <1>2, <2>1, <2>2
  <2>4. b \in Int
    BY ProxyAssumption DEF Batches
  <2> QED
    BY <2>3, <2>4
<1> QED
  BY <1>3, <1>4

\* What is queued after a step was queued before, or arrived by it.
Arrived(task) ==
    /\ Queued
    /\ \E s \in Sockets :
          /\ socketNamespace[s] \in Namespaces
          /\ incoming[s] # <<>>
          /\ incoming' = [incoming EXCEPT ![s] = Tail(@)]
          /\ task.namespace = socketNamespace[s]
          /\ task.batchNumber = Head(incoming[s])

LEMMA QueueElement ==
  ASSUME TypeOK, Kept \/ Restarted \/ Dispatched \/ Queued \/ Handed,
         NEW i \in 1..Len(queue')
  PROVE  (\E k \in 1..Len(queue) : queue'[i] = queue[k]) \/ Arrived(queue'[i])
<1>1. CASE queue' = queue \/ queue' = <<>>
  BY <1>1
<1>2. CASE queue # <<>> /\ queue' = Tail(queue)
  BY <1>2, TailOfQueue
<1>3. CASE Queued
  <2>1. PICK s \in Sockets :
            /\ socketNamespace[s] \in Namespaces
            /\ incoming[s] # <<>>
            /\ incoming' = [incoming EXCEPT ![s] = Tail(@)]
            /\ queue' = Append(queue, [namespace |-> socketNamespace[s],
                                       batchNumber |-> Head(incoming[s])])
    BY <1>3 DEF Queued
  <2>2. /\ Len(queue) \in Nat
        /\ Len(queue') = Len(queue) + 1
        /\ \A k \in 1..Len(queue) : queue'[k] = queue[k]
        /\ queue'[Len(queue) + 1].namespace = socketNamespace[s]
        /\ queue'[Len(queue) + 1].batchNumber = Head(incoming[s])
    BY <2>1, OrderTypes, QueueGrown
  <2>3. CASE i \in 1..Len(queue)
    BY <2>2, <2>3
  <2>4. CASE i = Len(queue) + 1
    <3>1. /\ queue'[i].namespace = socketNamespace[s]
          /\ queue'[i].batchNumber = Head(incoming[s])
      BY <2>2, <2>4
    <3> QED
      BY <1>3, <2>1, <3>1 DEF Arrived
  <2> QED
    BY <2>2, <2>3, <2>4
<1> QED
  BY <1>1, <1>2, <1>3 DEF Kept, Restarted, Dispatched, Handed

\* Every step keeps what is in transit sorted.
LEMMA TransitSortedStep ==
  ASSUME TypeOK, Reached, TransitSorted, Kept \/ Restarted \/ Dispatched \/ Queued \/ Handed
  PROVE  TransitSorted'
<1>1. CASE Restarted
  <2>1. \A s \in Sockets : Len(incoming'[s]) = 0
    BY <1>1 DEF Restarted
  <2> QED
    BY <2>1 DEF TransitSorted
<1>2. CASE Kept
  <2>1. ASSUME NEW s \in Sockets, NEW i \in 1..Len(incoming'[s])
        PROVE  incoming'[s] = incoming[s] /\ socketNamespace'[s] = socketNamespace[s]
    BY <1>2, <2>1 DEF Kept, Lost
  <2>2. crossed' = crossed
    BY <1>2 DEF Kept
  <2> QED
    BY <2>1, <2>2 DEF TransitSorted
<1>3. CASE Handed
  BY <1>3 DEF Handed, TransitSorted
<1>4. CASE Queued
  <2>1. PICK r \in Sockets : /\ incoming[r] # <<>>
                             /\ incoming' = [incoming EXCEPT ![r] = Tail(@)]
                             /\ socketNamespace' = socketNamespace
                             /\ crossed' = crossed
    BY <1>4 DEF Queued
  <2>2. /\ \A i \in 1..Len(incoming'[r]) : /\ i + 1 \in 1..Len(incoming[r])
                                           /\ incoming'[r][i] = incoming[r][i + 1]
        /\ \A t \in Sockets : t # r => incoming'[t] = incoming[t]
    BY <2>1, TailOfTransit
  <2>3. ASSUME NEW s \in Sockets, NEW t \in Sockets, NEW i \in 1..Len(incoming'[s]),
               NEW j \in 1..Len(incoming'[t]), socketNamespace[s] = socketNamespace[t],
               socketNamespace[s] \in Namespaces \ crossed
        PROVE  /\ s # t => incoming'[s][i] = incoming'[t][j]
               /\ s = t /\ i < j => incoming'[s][i] <= incoming'[t][j]
    <3>1. CASE s # t
      <4>1. \E k \in 1..Len(incoming[s]) : incoming'[s][i] = incoming[s][k]
        BY <2>2, <2>3
      <4>2. \E k \in 1..Len(incoming[t]) : incoming'[t][j] = incoming[t][k]
        BY <2>2, <2>3
      <4> QED
        BY <2>3, <3>1, <4>1, <4>2 DEF TransitSorted
    <3>2. CASE s = t /\ s # r
      BY <2>2, <2>3, <3>2 DEF TransitSorted
    <3>3. CASE s = t /\ s = r /\ i < j
      <4>1. i + 1 \in 1..Len(incoming[r]) /\ incoming'[r][i] = incoming[r][i + 1]
        BY <2>2, <2>3, <3>3
      <4>2. j + 1 \in 1..Len(incoming[r]) /\ incoming'[r][j] = incoming[r][j + 1]
        BY <2>2, <2>3, <3>3
      <4>3. i + 1 < j + 1
        BY <3>3
      <4> QED
        BY <2>3, <3>3, <4>1, <4>2, <4>3 DEF TransitSorted
    <3> QED
      BY <3>1, <3>2, <3>3
  <2> QED
    BY <2>1, <2>3 DEF TransitSorted
<1>5. CASE Dispatched
  <2>1. PICK r \in Sockets :
            /\ socketNamespace[r] \in Namespaces
            /\ incoming' = [incoming EXCEPT ![r] = Append(@, current[socketNamespace[r]])]
            /\ current[socketNamespace[r]] \in Batches
            /\ crossed' = IF Crosses(socketNamespace[r], r)
                          THEN crossed \cup {socketNamespace[r]} ELSE crossed
            /\ socketNamespace' = socketNamespace
    BY <1>5 DEF Dispatched
  <2> DEFINE n == socketNamespace[r]
             b == current[n]
  <2>2. /\ Len(incoming'[r]) = Len(incoming[r]) + 1
        /\ \A i \in 1..Len(incoming[r]) : incoming'[r][i] = incoming[r][i]
        /\ incoming'[r][Len(incoming[r]) + 1] = b
        /\ \A t \in Sockets : t # r => incoming'[t] = incoming[t]
        /\ Len(incoming[r]) \in Nat
    BY <2>1, TransitGrown, TransitTypes
  <2>3. \A s \in Sockets : socketNamespace[s] \in Namespaces \ crossed' =>
            socketNamespace[s] \in Namespaces \ crossed
    BY <2>1
  <2>4. ASSUME n \notin crossed', NEW t \in Sockets \ {r}, socketNamespace[t] = n,
               NEW j \in 1..Len(incoming[t])
        PROVE  incoming[t][j] = b
    <3>1. ~Crosses(n, r)
      BY <2>1, <2>4
    <3>2. j \in DOMAIN incoming[t]
      BY <2>4, TransitTypes
    <3> QED
      BY <2>4, <3>1, <3>2 DEF Crosses
  <2>5. \A i \in 1..Len(incoming[r]) : incoming[r][i] <= b
    <3>1. ASSUME NEW i \in 1..Len(incoming[r]) PROVE incoming[r][i] <= b
      <4>1. InTransit(n, incoming[r][i])
        BY DEF InTransit
      <4>2. incoming[r][i] \in Batches
        BY TransitTypes
      <4> QED
        BY <2>1, <4>1, <4>2 DEF Reached
    <3> QED
      BY <3>1
  <2> HIDE DEF b
  <2>6. ASSUME NEW s \in Sockets, NEW t \in Sockets, NEW i \in 1..Len(incoming'[s]),
               NEW j \in 1..Len(incoming'[t]), socketNamespace[s] = socketNamespace[t],
               socketNamespace[s] \in Namespaces \ crossed'
        PROVE  /\ s # t => incoming'[s][i] = incoming'[t][j]
               /\ s = t /\ i < j => incoming'[s][i] <= incoming'[t][j]
    <3>1. CASE s # r /\ t # r
      BY <2>2, <2>3, <2>6, <3>1 DEF TransitSorted
    <3>2. CASE s = r /\ t # r
      <4>1. incoming'[t] = incoming[t] /\ incoming[t][j] = b
        BY <2>2, <2>4, <2>6, <3>2
      <4>2. CASE i \in 1..Len(incoming[r])
        BY <2>2, <2>3, <2>6, <3>2, <4>1, <4>2 DEF TransitSorted
      <4>3. CASE i = Len(incoming[r]) + 1
        BY <2>2, <3>2, <4>1, <4>3
      <4> QED
        BY <2>2, <2>6, <3>2, <4>2, <4>3
    <3>3. CASE s # r /\ t = r
      <4>1. incoming'[s] = incoming[s] /\ incoming[s][i] = b
        BY <2>2, <2>4, <2>6, <3>3
      <4>2. CASE j \in 1..Len(incoming[r])
        BY <2>2, <2>3, <2>6, <3>3, <4>1, <4>2 DEF TransitSorted
      <4>3. CASE j = Len(incoming[r]) + 1
        BY <2>2, <3>3, <4>1, <4>3
      <4> QED
        BY <2>2, <2>6, <3>3, <4>2, <4>3
    <3>4. CASE s = r /\ t = r /\ i < j
      <4>1. i \in 1..Len(incoming[r]) /\ incoming'[r][i] = incoming[r][i]
        BY <2>2, <2>6, <3>4
      <4>2. CASE j \in 1..Len(incoming[r])
        BY <2>2, <2>3, <2>6, <3>4, <4>1, <4>2 DEF TransitSorted
      <4>3. CASE j = Len(incoming[r]) + 1
        BY <2>2, <2>5, <3>4, <4>1, <4>3
      <4> QED
        BY <2>2, <2>6, <3>4, <4>2, <4>3
    <3> QED
      BY <2>6, <3>1, <3>2, <3>3, <3>4
  <2> QED
    BY <2>1, <2>6 DEF TransitSorted
<1> QED
  BY <1>1, <1>2, <1>3, <1>4, <1>5

\* What followed the head of the queue comes after it, and is as sorted as it was.
LEMMA TailStaysSorted ==
  ASSUME TypeOK, QueueSorted, queue # <<>>, queue' = Tail(queue)
  PROVE  /\ \A i, j \in 1..Len(queue') :
               /\ i < j
               /\ queue'[i].namespace = queue'[j].namespace
               /\ queue'[i].namespace \notin crossed
               => queue'[i].batchNumber <= queue'[j].batchNumber
         /\ \A i \in 1..Len(queue') :
               /\ Head(queue).namespace = queue'[i].namespace
               /\ Head(queue).namespace \notin crossed
               => Head(queue).batchNumber <= queue'[i].batchNumber
<1>1. \A i \in 1..Len(queue') : i + 1 \in 1..Len(queue) /\ queue'[i] = queue[i + 1]
  BY TailOfQueue
<1>2. 1 \in 1..Len(queue) /\ Head(queue) = queue[1]
  BY TailOfQueue
<1>3. ASSUME NEW i \in 1..Len(queue'), NEW j \in 1..Len(queue'), i < j,
             queue'[i].namespace = queue'[j].namespace, queue'[i].namespace \notin crossed
      PROVE  queue'[i].batchNumber <= queue'[j].batchNumber
  <2>1. /\ i + 1 \in 1..Len(queue) /\ queue'[i] = queue[i + 1]
        /\ j + 1 \in 1..Len(queue) /\ queue'[j] = queue[j + 1]
        /\ i + 1 < j + 1
    BY <1>1, <1>3
  <2> QED
    BY <1>3, <2>1 DEF QueueSorted
<1>4. ASSUME NEW i \in 1..Len(queue'), Head(queue).namespace = queue'[i].namespace,
             Head(queue).namespace \notin crossed
      PROVE  Head(queue).batchNumber <= queue'[i].batchNumber
  <2>1. i + 1 \in 1..Len(queue) /\ queue'[i] = queue[i + 1] /\ 1 < i + 1
    BY <1>1, <1>4
  <2> QED
    BY <1>2, <1>4, <2>1 DEF QueueSorted
<1> QED
  BY <1>3, <1>4

\* Every step keeps the queue sorted.
LEMMA QueueSortedStep ==
  ASSUME TypeOK, QueueInv, Kept \/ Restarted \/ Dispatched \/ Queued \/ Handed
  PROVE  QueueSorted'
<1> USE DEF QueueInv
<1>1. CASE queue' = queue /\ crossed \subseteq crossed'
  BY <1>1 DEF QueueSorted
<1>2. CASE queue' = <<>>
  BY <1>2 DEF QueueSorted
<1>3. CASE queue # <<>> /\ queue' = Tail(queue) /\ crossed' = crossed
  BY <1>3, TailStaysSorted DEF QueueSorted
<1>4. CASE Queued
  <2>1. PICK s \in Sockets :
            /\ socketNamespace[s] \in Namespaces
            /\ incoming[s] # <<>>
            /\ queue' = Append(queue, [namespace |-> socketNamespace[s],
                                       batchNumber |-> Head(incoming[s])])
            /\ crossed' = crossed
    BY <1>4 DEF Queued
  <2>2. /\ Len(queue) \in Nat
        /\ Len(queue') = Len(queue) + 1
        /\ \A i \in 1..Len(queue) : queue'[i] = queue[i]
        /\ queue'[Len(queue) + 1].namespace = socketNamespace[s]
        /\ queue'[Len(queue) + 1].batchNumber = Head(incoming[s])
    BY <2>1, OrderTypes, QueueGrown
  <2>3. ASSUME NEW i \in 1..Len(queue'), NEW j \in 1..Len(queue'), i < j,
               queue'[i].namespace = queue'[j].namespace, queue'[i].namespace \notin crossed
        PROVE  queue'[i].batchNumber <= queue'[j].batchNumber
    <3>1. i \in 1..Len(queue) /\ queue'[i] = queue[i]
      BY <2>2, <2>3
    <3>2. CASE j \in 1..Len(queue)
      BY <2>2, <2>3, <3>1, <3>2 DEF QueueSorted
    <3>3. CASE j = Len(queue) + 1
      BY <2>1, <2>2, <2>3, <3>1, <3>3, ArrivalWasInTransit DEF QueueBeforeTransit
    <3> QED
      BY <2>2, <2>3, <3>2, <3>3
  <2> QED
    BY <2>1, <2>3 DEF QueueSorted
<1> QED
  BY <1>1, <1>2, <1>3, <1>4 DEF Kept, Restarted, Dispatched, Handed

\* Every step keeps what is queued before what is in transit.
LEMMA QueueBeforeTransitStep ==
  ASSUME TypeOK, Reached, QueueInv, Kept \/ Restarted \/ Dispatched \/ Queued \/ Handed
  PROVE  QueueBeforeTransit'
<1> USE DEF QueueInv
<1>1. CASE Restarted
  BY <1>1 DEF Restarted, QueueBeforeTransit
<1>2. ASSUME NEW n \in Namespaces \ crossed', NEW i \in 1..Len(queue'),
             NEW b \in Batches, ~Restarted, queue'[i].namespace = n, InTransit(n, b)'
      PROVE  queue'[i].batchNumber <= b
  <2>1. n \in Namespaces \ crossed
    BY <1>2, CrossedStays
  <2>2. ASSUME NEW k \in 1..Len(queue), queue'[i] = queue[k]
        PROVE  queue'[i].batchNumber <= b
    <3>1. CASE InTransit(n, b)
      BY <1>2, <2>1, <2>2, <3>1 DEF QueueBeforeTransit
    <3>2. CASE b = current[n]
      BY <1>2, <2>2, <3>2 DEF Reached
    <3> QED
      BY <1>2, <3>1, <3>2, TransitStep
  <2>3. ASSUME Arrived(queue'[i]) PROVE queue'[i].batchNumber <= b
    <3>1. PICK s \in Sockets :
              /\ incoming[s] # <<>>
              /\ incoming' = [incoming EXCEPT ![s] = Tail(@)]
              /\ n = socketNamespace[s]
              /\ queue'[i].batchNumber = Head(incoming[s])
      BY <1>2, <2>3 DEF Arrived
    <3>2. socketNamespace' = socketNamespace
      BY <2>3 DEF Arrived, Queued
    <3>3. InTransit(socketNamespace[s], b)'
      BY <1>2, <3>1, <3>2 DEF InTransit
    <3> QED
      BY <2>1, <3>1, <3>2, <3>3, ArrivesFirst
  <2> QED
    BY <2>2, <2>3, QueueElement
<1> QED
  BY <1>1, <1>2 DEF QueueBeforeTransit

\* What is held after a step was held before, or was the head of the queue.
LEMMA HeldElement ==
  ASSUME TypeOK, Kept \/ Restarted \/ Dispatched \/ Queued \/ Handed,
         NEW c \in Clients, NEW m \in awaitingAck'[c]
  PROVE  \/ m \in awaitingAck[c] /\ ~Restarted
         \/ /\ Handed
            /\ m.id = nextId
            /\ 1 \in 1..Len(queue)
            /\ m.namespace = queue[1].namespace
            /\ m.batchNumber = queue[1].batchNumber
<1>1. CASE m \in awaitingAck[c]
  BY <1>1 DEF Restarted
<1>2. CASE m \notin awaitingAck[c]
  <2>1. Handed
    BY <1>2 DEF Kept, Restarted, Dispatched, Queued, Shrinks
  <2>2. /\ m.id = nextId
        /\ m.namespace = Head(queue).namespace
        /\ m.batchNumber = Head(queue).batchNumber
    BY <1>2, <2>1 DEF Handed
  <2>3. 1 \in 1..Len(queue) /\ Head(queue) = queue[1]
    BY <2>1, TailOfQueue DEF Handed
  <2> QED
    BY <2>1, <2>2, <2>3
<1> QED
  BY <1>1, <1>2

\* Every step keeps what is held before what is queued.
LEMMA HeldBeforeQueuedStep ==
  ASSUME TypeOK, QueueInv, Kept \/ Restarted \/ Dispatched \/ Queued \/ Handed
  PROVE  HeldBeforeQueued'
<1> USE DEF QueueInv
<1>1. ASSUME NEW c \in Clients, NEW m \in awaitingAck'[c], NEW i \in 1..Len(queue'),
             m.namespace = queue'[i].namespace, m.namespace \notin crossed'
      PROVE  m.batchNumber <= queue'[i].batchNumber
  <2>1. m.namespace \notin crossed
    BY <1>1, CrossedStays, HeldElement DEF Handed
  <2>2. CASE m \in awaitingAck[c]
    <3>1. ASSUME NEW k \in 1..Len(queue), queue'[i] = queue[k]
          PROVE  m.batchNumber <= queue'[i].batchNumber
      BY <1>1, <2>1, <2>2, <3>1 DEF HeldBeforeQueued
    <3>2. ASSUME Arrived(queue'[i]) PROVE m.batchNumber <= queue'[i].batchNumber
      <4>1. PICK s \in Sockets :
                /\ socketNamespace[s] \in Namespaces
                /\ incoming[s] # <<>>
                /\ queue'[i].namespace = socketNamespace[s]
                /\ queue'[i].batchNumber = Head(incoming[s])
        BY <3>2 DEF Arrived
      <4> QED
        BY <1>1, <2>1, <2>2, <4>1, ArrivalWasInTransit DEF HeldBeforeTransit
    <3> QED
      BY <3>1, <3>2, QueueElement
  <2>3. CASE m \notin awaitingAck[c]
    <3>1. /\ Handed
          /\ m.namespace = Head(queue).namespace
          /\ m.batchNumber = Head(queue).batchNumber
      BY <2>3, HeldElement, TailOfQueue DEF Handed
    <3> QED
      BY <1>1, <2>1, <3>1, TailStaysSorted DEF Handed
  <2> QED
    BY <2>2, <2>3
<1> QED
  BY <1>1 DEF HeldBeforeQueued

\* Every step keeps what is held before what is in transit.
LEMMA HeldBeforeTransitStep ==
  ASSUME TypeOK, Reached, QueueInv, Kept \/ Restarted \/ Dispatched \/ Queued \/ Handed
  PROVE  HeldBeforeTransit'
<1> USE DEF QueueInv
<1>1. ASSUME NEW n \in Namespaces \ crossed', NEW b \in Batches, InTransit(n, b)',
             NEW c \in Clients, NEW m \in awaitingAck'[c], m.namespace = n
      PROVE  m.batchNumber <= b
  <2>1. n \in Namespaces \ crossed
    BY <1>1, CrossedStays, HeldElement DEF Handed
  <2>2. InTransit(n, b) \/ (Dispatched /\ b = current[n])
    BY <1>1, TransitStep
  <2>3. CASE m \in awaitingAck[c]
    BY <1>1, <2>1, <2>2, <2>3 DEF HeldBeforeTransit, Reached
  <2>4. CASE m \notin awaitingAck[c]
    <3>1. /\ 1 \in 1..Len(queue)
          /\ queue[1].namespace = n
          /\ m.batchNumber = queue[1].batchNumber
      BY <1>1, <2>4, HeldElement
    <3> QED
      BY <2>1, <2>2, <3>1 DEF QueueBeforeTransit, Reached
  <2> QED
    BY <2>3, <2>4
<1> QED
  BY <1>1 DEF HeldBeforeTransit

\* Every step keeps what is in transit and what is queued sorted, and the held messages
\* before both.
LEMMA QueueInvStep ==
  ASSUME TypeOK, SocketsInv, Reached, QueueInv, [Next]_vars
  PROVE  QueueInv'
<1>1. Kept \/ Restarted \/ Dispatched \/ Queued \/ Handed
  BY QueueStep
<1>2. TransitSorted' /\ QueueSorted'
  BY <1>1, TransitSortedStep, QueueSortedStep DEF QueueInv
<1>3. QueueBeforeTransit' /\ HeldBeforeQueued' /\ HeldBeforeTransit'
  BY <1>1, QueueBeforeTransitStep, HeldBeforeQueuedStep, HeldBeforeTransitStep
<1> QED
  BY <1>2, <1>3 DEF QueueInv

\* Every step keeps the held messages in the order they were handed out.
LEMMA HeldInvStep ==
  ASSUME TypeOK, SocketsInv, QueueInv, HeldInv, [Next]_vars
  PROVE  HeldInv'
<1> USE DEF HeldInv
<1>1. Kept \/ Restarted \/ Dispatched \/ Queued \/ Handed
  BY QueueStep
<1>2. nextId \in Int /\ nextId' \in Int /\ nextId <= nextId' /\ (Handed => nextId < nextId')
  BY <1>1, OrderTypes DEF Kept, Restarted, Dispatched, Queued, Handed
<1>3. \A d \in Clients : \A m \in awaitingAck[d] : m.id \in Int /\ m.id < nextId
  BY OrderTypes DEF IdsSpent
<1>4. ASSUME NEW d \in Clients, NEW m \in awaitingAck'[d] PROVE m.id < nextId'
  BY <1>1, <1>2, <1>3, HeldElement
<1>5. ASSUME NEW d \in Clients, NEW e \in Clients,
             NEW m \in awaitingAck'[d], NEW o \in awaitingAck'[e],
             m.namespace = o.namespace, m.namespace \notin crossed', m.id < o.id
      PROVE  m.batchNumber <= o.batchNumber
  <2>1. CASE o \in awaitingAck[e]
    <3>1. m \in awaitingAck[d] /\ ~Restarted
      BY <1>1, <1>2, <1>3, <1>5, <2>1, HeldElement
    <3>2. m.namespace \notin crossed
      BY <1>1, <1>5, <3>1, CrossedStays
    <3> QED
      BY <1>5, <2>1, <3>1, <3>2 DEF HandedOutInOrder
  <2>2. CASE o \notin awaitingAck[e]
    <3>1. /\ Handed
          /\ o.id = nextId
          /\ 1 \in 1..Len(queue)
          /\ o.namespace = queue[1].namespace
          /\ o.batchNumber = queue[1].batchNumber
      BY <1>1, <2>2, HeldElement
    <3>2. m \in awaitingAck[d]
      BY <1>1, <1>2, <1>5, <3>1, HeldElement
    <3>3. m.namespace \notin crossed
      BY <1>5, <3>1 DEF Handed
    <3> QED
      BY <1>5, <3>1, <3>2, <3>3 DEF QueueInv, HeldBeforeQueued
  <2> QED
    BY <2>1, <2>2
<1> QED
  BY <1>4, <1>5 DEF IdsSpent, HandedOutInOrder
-----------------------------------------------------------------------------
(***************************************************************************)
(* One batch at a time: what is queued comes after what was acknowledged.  *)
(***************************************************************************)

\* No client has acknowledged a batch that EVMConnect has not reached, or, unless batches
\* have crossed, one that comes after a batch that is queued or in transit.
AckedInv ==
    /\ \A n \in Namespaces : \A b \in Batches : <<n, b>> \in clientAcked => b <= current[n]
    /\ \A n \in Namespaces \ crossed : \A b \in Batches : <<n, b>> \in clientAcked =>
          /\ \A i \in 1..Len(queue) : queue[i].namespace = n => b <= queue[i].batchNumber
          /\ \A d \in Batches : InTransit(n, d) => b <= d

\* What a step adds to what was acknowledged is the batch of a message that is held.
LEMMA NewlyAcked ==
  ASSUME TypeOK, AckJustified, [Next]_vars,
         NEW n, NEW b, <<n, b>> \in clientAcked', <<n, b>> \notin clientAcked
  PROVE  \E c \in Clients : \E m \in awaitingAck[c] : m.namespace = n /\ m.batchNumber = b
<1>1. Acknowledged
  BY DeliveryStep DEF Advances
<1> QED
  BY <1>1 DEF Acknowledged

\* Every step keeps acknowledged batches before what is queued and in transit: only held
\* messages are acknowledged, which come before both, and only the current batch is
\* dispatched.
LEMMA AckedStep ==
  ASSUME TypeOK, SocketsInv, AckJustified, Reached, QueueInv, AckedInv, [Next]_vars
  PROVE  AckedInv'
<1>1. /\ \A n \in Namespaces : current[n] \in Int /\ current'[n] \in Int
      /\ \A n \in Namespaces : current[n] <= current'[n]
      /\ \A b \in Batches : b \in Int
  BY OrderTypes, CurrentGrows, ProxyAssumption DEF Batches
<1>2. Kept \/ Restarted \/ Dispatched \/ Queued \/ Handed
  BY QueueStep
<1>3. ASSUME NEW n \in Namespaces, NEW b \in Batches, <<n, b>> \in clientAcked'
      PROVE  b <= current[n]
  BY <1>3, NewlyAcked DEF AckedInv, Reached
<1>4. ASSUME NEW n \in Namespaces \ crossed, NEW b \in Batches, <<n, b>> \in clientAcked'
      PROVE  /\ \A i \in 1..Len(queue) : queue[i].namespace = n => b <= queue[i].batchNumber
             /\ \A d \in Batches : InTransit(n, d) => b <= d
  <2>1. CASE <<n, b>> \in clientAcked
    BY <2>1 DEF AckedInv
  <2>2. CASE <<n, b>> \notin clientAcked
    <3>1. PICK c \in Clients : \E m \in awaitingAck[c] : m.namespace = n /\ m.batchNumber = b
      BY <1>4, <2>2, NewlyAcked
    <3> QED
      BY <3>1 DEF QueueInv, HeldBeforeQueued, HeldBeforeTransit
  <2> QED
    BY <2>1, <2>2
<1>5. ASSUME NEW n \in Namespaces \ crossed', NEW b \in Batches, <<n, b>> \in clientAcked',
             NEW i \in 1..Len(queue'), queue'[i].namespace = n
      PROVE  b <= queue'[i].batchNumber
  <2>1. n \in Namespaces \ crossed
    BY <1>2, <1>5, CrossedStays DEF Restarted
  <2>2. ASSUME NEW k \in 1..Len(queue), queue'[i] = queue[k]
        PROVE  b <= queue'[i].batchNumber
    BY <1>4, <1>5, <2>1, <2>2
  <2>3. ASSUME Arrived(queue'[i]) PROVE b <= queue'[i].batchNumber
    <3>1. PICK s \in Sockets : /\ incoming[s] # <<>>
                               /\ n = socketNamespace[s]
                               /\ queue'[i].batchNumber = Head(incoming[s])
      BY <1>5, <2>3 DEF Arrived
    <3> QED
      BY <1>4, <1>5, <2>1, <3>1, ArrivalWasInTransit
  <2> QED
    BY <1>2, <2>2, <2>3, QueueElement
<1>6. ASSUME NEW n \in Namespaces \ crossed', NEW b \in Batches, <<n, b>> \in clientAcked',
             NEW d \in Batches, InTransit(n, d)'
      PROVE  b <= d
  <2>1. ~Restarted
    <3>1. PICK s \in Sockets : \E i \in 1..Len(incoming'[s]) : incoming'[s][i] = d
      BY <1>6 DEF InTransit
    <3> QED
      BY <3>1 DEF Restarted
  <2>2. n \in Namespaces \ crossed
    BY <1>2, <1>6, <2>1, CrossedStays
  <2>3. CASE InTransit(n, d)
    BY <1>4, <1>6, <2>2, <2>3
  <2>4. CASE d = current[n]
    BY <1>3, <1>6, <2>4
  <2> QED
    BY <1>2, <1>6, <2>3, <2>4, TransitStep
<1>7. \A n \in Namespaces : \A b \in Batches : <<n, b>> \in clientAcked' => b <= current'[n]
  BY <1>1, <1>3
<1> QED
  BY <1>5, <1>6, <1>7 DEF AckedInv

-----------------------------------------------------------------------------
(***************************************************************************)
(* Connections: where EVMConnect waits, and for what.                      *)
(***************************************************************************)

\* A batch waits on an open connection of its stream, nothing is on its way, to EVMConnect
\* or from it, on a connection that is not open, a client that is connected is tracked, and
\* a socket that has been created belongs to a namespace.
DispatchedOnOpen ==
    \A n \in Namespaces : dispatchedOn[n] \in Sockets =>
        /\ sockets[dispatchedOn[n]].ws = "open"
        /\ socketNamespace[dispatchedOn[n]] = n
WireOnOpen == \A s \in Sockets : wire[s] # <<>> => sockets[s].ws = "open"
TransitOnOpen == \A s \in Sockets : incoming[s] # <<>> => sockets[s].ws = "open"
ConnectedTracked == \A c \in Clients : clientState[c] = "connected" => c \in tracked
ConnectionsInv == DispatchedOnOpen /\ WireOnOpen /\ TransitOnOpen /\ ConnectedTracked
CreatedInv == \A s \in Sockets : s <= created => socketNamespace[s] \in Namespaces

\* Initially nothing is dispatched or on its way, and nobody is connected.
LEMMA InitConnections == Init => ConnectionsInv
<1> SUFFICES ASSUME Init PROVE ConnectionsInv
  OBVIOUS
<1>1. DispatchedOnOpen
  BY DEF Init, DispatchedOnOpen, Sockets, NotDispatched
<1>2. WireOnOpen /\ TransitOnOpen
  BY DEF Init, WireOnOpen, TransitOnOpen
<1>3. ConnectedTracked
  BY DEF Init, ConnectedTracked
<1> QED
  BY <1>1, <1>2, <1>3 DEF ConnectionsInv

\* After a restart the same holds: what was dispatched is orphaned.
LEMMA RestartConnections == TypeOK /\ Restart => ConnectionsInv'
<1> SUFFICES ASSUME TypeOK, Restart PROVE ConnectionsInv'
  OBVIOUS
<1>1. \A n \in Namespaces : dispatchedOn'[n] \notin Sockets
  BY ProxyAssumption DEF Restart, OrphanOn, Sockets, Orphaned
<1>2. WireOnOpen' /\ TransitOnOpen'
  BY DEF Restart, WireOnOpen, TransitOnOpen
<1>3. ConnectedTracked'
  BY DEF Restart, ConnectedTracked
<1> QED
  BY <1>1, <1>2, <1>3 DEF ConnectionsInv, DispatchedOnOpen

\* The sockets that are open, and what is on its way on them, stay as they are.
LEMMA ConnectionsKept ==
  ASSUME ConnectionsInv, UNCHANGED <<sockets, socketNamespace, wire, incoming>>,
         UNCHANGED <<dispatchedOn, clientState, tracked>>
  PROVE  ConnectionsInv'
  BY DEF ConnectionsInv, DispatchedOnOpen, WireOnOpen, TransitOnOpen, ConnectedTracked

\* A socket that has been created belongs to a namespace, and stays there.
LEMMA CreatedStep ==
  ASSUME TypeOK, CreatedInv, [Next]_vars
  PROVE  CreatedInv'
<1>1. ASSUME NEW c \in Clients, NEW n \in Namespaces, StartConnected(c, n) PROVE CreatedInv'
  <2>1. /\ created' = created + 1 /\ created + 1 \in Sockets /\ created \in Nat
        /\ socketNamespace' = [socketNamespace EXCEPT ![created + 1] = n]
    BY <1>1, ProxyAssumption DEF StartConnected, Sockets, TypeOK
  <2>2. ASSUME NEW s \in Sockets, s <= created + 1 PROVE socketNamespace'[s] \in Namespaces
    <3>1. CASE s = created + 1
      BY <2>1, <3>1 DEF TypeOK
    <3>2. CASE s # created + 1
      <4>1. s <= created
        BY <2>1, <2>2, <3>2, ProxyAssumption DEF Sockets
      <4>2. socketNamespace'[s] = socketNamespace[s]
        BY <2>1, <3>2 DEF TypeOK
      <4> QED
        BY <4>1, <4>2 DEF CreatedInv
    <3> QED
      BY <3>1, <3>2
  <2> QED
    BY <2>1, <2>2 DEF CreatedInv
<1>2. CASE UNCHANGED <<created, socketNamespace>>
  BY <1>2 DEF CreatedInv
<1>3. ASSUME NEW c \in Clients, ClientStep(c),
             ~\E n \in Namespaces : StartConnected(c, n)
      PROVE  UNCHANGED <<created, socketNamespace>>
  BY <1>3 DEF ClientStep, Connect, Disconnect, DisconnectThrows, SendBatch, StartRegistered,
     Start, StartFailed, Ack, AckThrows, Restart, socketVars
<1>4. ASSUME NEW s \in Sockets, SocketEvent(s) PROVE UNCHANGED <<created, socketNamespace>>
  BY <1>4 DEF SocketEvent, SocketOpens, SocketLost, SocketOnClose, SocketReconnects,
     SocketStep, UpstreamDispatches, BatchArrives, UpstreamReceives
<1>5. ASSUME NEW n \in Namespaces, UpstreamNoticesLoss(n)
      PROVE  UNCHANGED <<created, socketNamespace>>
  BY <1>5 DEF UpstreamNoticesLoss, socketVars
<1>6. ASSUME DropBatch \/ Crash \/ UNCHANGED vars
      PROVE  UNCHANGED <<created, socketNamespace>>
  BY <1>6 DEF DropBatch, Crash, Restart, vars, socketVars
<1> QED
  BY <1>1, <1>2, <1>3, <1>4, <1>5, <1>6 DEF Next

\* Every step keeps what waits, and what is on its way, on open connections.
LEMMA ConnectionsStep ==
  TypeOK /\ RegistryInv /\ ConnectionsInv /\ [Next]_vars => ConnectionsInv'
<1> SUFFICES ASSUME TypeOK, RegistryInv, ConnectionsInv, [Next]_vars
             PROVE  ConnectionsInv'
  OBVIOUS
<1> USE ProxyAssumption
<1>0. /\ dispatchedOn \in [Namespaces -> {NotDispatched, Orphaned} \cup Sockets]
      /\ sockets \in [Sockets -> Socket]
      /\ wire \in [Sockets -> Seq(Control)]
      /\ incoming \in [Sockets -> Seq(Batches)]
      /\ clientState \in [Clients -> {"new", "connected", "gone"}]
  BY DEF TypeOK
<1>1. ASSUME NEW c \in Clients, ClientStep(c) PROVE ConnectionsInv'
  <2>1. CASE Connect(c)
    <3>1. ConnectedTracked'
      BY <1>0, <2>1 DEF Connect, ConnectionsInv, ConnectedTracked
    <3> QED
      BY <2>1, <3>1 DEF Connect, ConnectionsInv, DispatchedOnOpen, WireOnOpen,
         TransitOnOpen, socketVars, upstreamVars
  <2>2. CASE Disconnect(c)
    <3> DEFINE closed == {namespaceEventStreamSocket[n] : n \in Abandons(c)}
               nacks(s) == {m \in Nacked(c) : namespaceEventStreamSocket[m.namespace] = s}
    <3>1. /\ socketNamespace' = socketNamespace
          /\ OrphanOn(closed)
          /\ sockets' = [s \in Sockets |-> IF s \in closed THEN CloseRequested(sockets[s])
                                           ELSE sockets[s]]
          /\ wire' = [s \in Sockets |->
                         IF s \in closed THEN <<>>
                         ELSE IF nacks(s) # {} /\ sockets[s].ws = "open"
                         THEN Append(wire[s], NackMessage(nacks(s)))
                         ELSE wire[s]]
          /\ incoming' = [s \in Sockets |-> IF s \in closed THEN <<>> ELSE incoming[s]]
      BY <2>2 DEF Disconnect
    <3> HIDE DEF closed, nacks
    <3>2. DispatchedOnOpen'
      BY <1>0, <3>1 DEF ConnectionsInv, DispatchedOnOpen, OrphanOn, Orphaned, Sockets
    <3>3. WireOnOpen' /\ TransitOnOpen'
      BY <3>1 DEF ConnectionsInv, WireOnOpen, TransitOnOpen
    <3>4. ConnectedTracked'
      BY <1>0, <2>2 DEF Disconnect, ConnectionsInv, ConnectedTracked
    <3> QED
      BY <3>2, <3>3, <3>4 DEF ConnectionsInv
  <2>3. CASE DisconnectThrows(c)
    BY <2>3, RestartConnections DEF DisconnectThrows
  <2>4. CASE SendBatch(c)
    BY <2>4, ConnectionsKept DEF SendBatch, socketVars, upstreamVars
  <2>5. ASSUME NEW n \in Namespaces,
               StartRegistered(c, n) \/ Start(c, n) \/ StartFailed(c, n)
        PROVE  ConnectionsInv'
    BY <2>5, ConnectionsKept DEF StartRegistered, Start, StartFailed, socketVars, upstreamVars
  <2>6. ASSUME NEW n \in Namespaces, StartConnected(c, n) PROVE ConnectionsInv'
    <3>1. /\ \A s \in Sockets : s # created + 1 => /\ sockets'[s] = sockets[s]
                                                   /\ socketNamespace'[s] = socketNamespace[s]
          /\ UNCHANGED <<wire, incoming, dispatchedOn, clientState, tracked>>
          /\ created + 1 \in Sockets
      BY <2>6 DEF StartConnected, TypeOK, Sockets, upstreamVars
    <3>2. /\ sockets[created + 1] = Finished
          /\ wire[created + 1] = <<>> /\ incoming[created + 1] = <<>>
      BY <3>1 DEF RegistryInv, SocketsInv, Sockets, TypeOK
    <3>3. sockets[created + 1].ws # "open"
      BY <3>2 DEF Finished
    <3>4. DispatchedOnOpen'
      BY <3>1, <3>3 DEF ConnectionsInv, DispatchedOnOpen
    <3>5. WireOnOpen' /\ TransitOnOpen'
      BY <3>1, <3>2 DEF ConnectionsInv, WireOnOpen, TransitOnOpen
    <3> QED
      BY <3>1, <3>4, <3>5 DEF ConnectionsInv, ConnectedTracked
  <2>7. ASSUME NEW m \in awaitingAck[c], Ack(c, m) PROVE ConnectionsInv'
    <3> DEFINE r == namespaceEventStreamSocket[m.namespace]
    <3>1. /\ UNCHANGED <<sockets, socketNamespace, incoming, dispatchedOn, clientState,
                        tracked>>
          /\ wire' = wire \/ wire' = Produced(r, AckMessage(m))
      BY <2>7 DEF Ack, upstreamVars
    <3>2. \A s \in Sockets : wire'[s] # wire[s] => sockets[s].ws = "open"
      BY <1>0, <3>1 DEF Produced
    <3> QED
      BY <3>1, <3>2 DEF ConnectionsInv, DispatchedOnOpen, WireOnOpen, TransitOnOpen,
         ConnectedTracked
  <2>8. ASSUME NEW m \in awaitingAck[c], AckThrows(c, m) PROVE ConnectionsInv'
    BY <2>8, RestartConnections DEF AckThrows
  <2> QED
    BY <1>1, <2>1, <2>2, <2>3, <2>4, <2>5, <2>6, <2>7, <2>8 DEF ClientStep
<1>2. ASSUME NEW s \in Sockets, SocketEvent(s) PROVE ConnectionsInv'
  <2>1. UNCHANGED <<clientState, tracked, socketNamespace>>
    BY <1>2 DEF SocketEvent, SocketOpens, SocketLost, SocketOnClose, SocketReconnects,
       SocketStep, UpstreamDispatches, BatchArrives, UpstreamReceives, proxyVars, socketVars
  <2>2. CASE SocketOpens(s)
    <3>1. /\ sockets' = [sockets EXCEPT ![s] = Opened(sockets[s])]
          /\ UNCHANGED <<wire, incoming, dispatchedOn>>
      BY <2>2 DEF SocketOpens, SocketStep
    <3>2. sockets'[s].ws = "open" /\ \A t \in Sockets : t # s => sockets'[t] = sockets[t]
      BY <1>0, <3>1 DEF Opened
    <3> QED
      BY <2>1, <3>1, <3>2 DEF ConnectionsInv, DispatchedOnOpen, WireOnOpen, TransitOnOpen,
         ConnectedTracked
  <2>3. CASE SocketLost(s)
    <3>1. /\ \A t \in Sockets : t # s => /\ sockets'[t] = sockets[t]
                                          /\ wire'[t] = wire[t]
                                          /\ incoming'[t] = incoming[t]
          /\ wire'[s] = <<>> /\ incoming'[s] = <<>>
          /\ OrphanOn({s})
      BY <1>0, <2>3 DEF SocketLost, SocketStep
    <3>2. DispatchedOnOpen'
      <4>1. \A k \in Namespaces : dispatchedOn'[k] \in Sockets =>
                dispatchedOn'[k] = dispatchedOn[k] /\ dispatchedOn[k] # s
        BY <3>1 DEF OrphanOn, Orphaned, Sockets
      <4> QED
        BY <2>1, <3>1, <4>1 DEF ConnectionsInv, DispatchedOnOpen
    <3> QED
      BY <2>1, <3>1, <3>2 DEF ConnectionsInv, WireOnOpen, TransitOnOpen, ConnectedTracked
  <2>4. CASE SocketOnClose(s) \/ SocketReconnects(s)
    <3>1. /\ \A t \in Sockets : t # s => sockets'[t] = sockets[t]
          /\ sockets[s].ws # "open"
          /\ UNCHANGED <<wire, incoming, dispatchedOn>>
      BY <1>0, <2>4 DEF SocketOnClose, SocketReconnects, SocketStep
    <3> QED
      BY <2>1, <3>1 DEF ConnectionsInv, DispatchedOnOpen, WireOnOpen, TransitOnOpen,
         ConnectedTracked
  <2>5. CASE UpstreamDispatches(s)
    <3>1. PICK n \in Namespaces : /\ socketNamespace[s] = n
                                  /\ sockets[s].ws = "open"
                                  /\ dispatchedOn' = [dispatchedOn EXCEPT ![n] = s]
                                  /\ UNCHANGED <<sockets, wire>>
                                  /\ incoming' = [incoming EXCEPT
                                                      ![s] = Append(@, current[n])]
      BY <2>5 DEF UpstreamDispatches, socketVars
    <3>3. \A t \in Sockets : t # s => incoming'[t] = incoming[t]
      BY <1>0, <3>1
    <3>2. DispatchedOnOpen'
      BY <1>0, <2>1, <3>1 DEF ConnectionsInv, DispatchedOnOpen
    <3> QED
      BY <2>1, <3>1, <3>2, <3>3 DEF ConnectionsInv, WireOnOpen, TransitOnOpen,
         ConnectedTracked
  <2>7. CASE BatchArrives(s)
    <3>1. /\ UNCHANGED <<sockets, wire, dispatchedOn>>
          /\ incoming[s] # <<>>
          /\ \A t \in Sockets : t # s => incoming'[t] = incoming[t]
      BY <1>0, <2>7 DEF BatchArrives, upstreamVars
    <3> QED
      BY <2>1, <3>1 DEF ConnectionsInv, DispatchedOnOpen, WireOnOpen, TransitOnOpen,
         ConnectedTracked
  <2>6. CASE UpstreamReceives(s)
    <3>1. /\ wire[s] # <<>>
          /\ sockets' = sockets /\ incoming' = incoming
          /\ \A t \in Sockets : t # s => wire'[t] = wire[t]
      BY <1>0, <2>6 DEF UpstreamReceives
    <3>2. \A k \in Namespaces : dispatchedOn'[k] \in {dispatchedOn[k], NotDispatched}
      BY <1>0, <2>6 DEF UpstreamReceives
    <3>3. DispatchedOnOpen'
      BY <2>1, <3>1, <3>2 DEF ConnectionsInv, DispatchedOnOpen, NotDispatched, Sockets
    <3> QED
      BY <2>1, <3>1, <3>3 DEF ConnectionsInv, WireOnOpen, TransitOnOpen, ConnectedTracked
  <2> QED
    BY <1>2, <2>2, <2>3, <2>4, <2>5, <2>6, <2>7 DEF SocketEvent
<1>3. ASSUME NEW n \in Namespaces, UpstreamNoticesLoss(n) PROVE ConnectionsInv'
  <2>1. /\ UNCHANGED <<sockets, socketNamespace, wire, incoming, clientState, tracked>>
        /\ dispatchedOn' = [dispatchedOn EXCEPT ![n] = NotDispatched]
    BY <1>3 DEF UpstreamNoticesLoss, proxyVars, socketVars
  <2>2. DispatchedOnOpen'
    BY <1>0, <2>1 DEF ConnectionsInv, DispatchedOnOpen, NotDispatched, Sockets
  <2> QED
    BY <2>1, <2>2 DEF ConnectionsInv, WireOnOpen, TransitOnOpen, ConnectedTracked
<1>4. CASE DropBatch
  BY <1>4, ConnectionsKept DEF DropBatch, socketVars, upstreamVars
<1>5. CASE Crash
  BY <1>5, RestartConnections DEF Crash
<1>6. CASE UNCHANGED vars
  BY <1>6, ConnectionsKept DEF vars, proxyVars, socketVars, upstreamVars
<1> QED
  BY <1>1, <1>2, <1>3, <1>4, <1>5, <1>6 DEF Next

-----------------------------------------------------------------------------
(***************************************************************************)
(* What waits is not forgotten.                                            *)
(***************************************************************************)

\* The stream n waits, before a step and after it, for a batch on a connection.
Waits(n) ==
    /\ n \in Namespaces
    /\ dispatchedOn[n] \in Sockets
    /\ dispatchedOn'[n] \in Sockets

\* A stream that waits on a connection before and after a step waits for the same batch.
LEMMA StillWaiting ==
  ASSUME TypeOK, [Next]_vars, NEW n, Waits(n)
  PROVE  current'[n] = current[n] /\ dispatchedOn'[n] = dispatchedOn[n] /\ ~Restart
<1> USE ProxyAssumption DEF Waits
<1>0. /\ dispatchedOn \in [Namespaces -> {NotDispatched, Orphaned} \cup Sockets]
      /\ current \in [Namespaces -> 1..MaxBatch + 1]
      /\ NotDispatched \notin Sockets /\ Orphaned \notin Sockets
  BY DEF TypeOK, NotDispatched, Orphaned, Sockets
<1>1. ~Restart
  BY <1>0 DEF Restart, OrphanOn
<1>2. ASSUME NEW c \in Clients, ClientStep(c)
      PROVE  current' = current /\ dispatchedOn'[n] = dispatchedOn[n]
  <2>1. CASE Disconnect(c)
    BY <1>0, <2>1 DEF Disconnect, OrphanOn
  <2>2. CASE \/ Connect(c) \/ DisconnectThrows(c) \/ SendBatch(c)
             \/ \E k \in Namespaces : \/ StartRegistered(c, k) \/ Start(c, k)
                                      \/ StartConnected(c, k) \/ StartFailed(c, k)
             \/ \E m \in awaitingAck[c] : Ack(c, m) \/ AckThrows(c, m)
    BY <1>1, <2>2 DEF Connect, DisconnectThrows, SendBatch, StartRegistered, Start,
       StartConnected, StartFailed, Ack, AckThrows, upstreamVars
  <2> QED
    BY <1>2, <2>1, <2>2 DEF ClientStep
<1>3. ASSUME NEW s \in Sockets, SocketEvent(s)
      PROVE  current'[n] = current[n] /\ dispatchedOn'[n] = dispatchedOn[n]
  <2>1. CASE SocketLost(s)
    BY <1>0, <2>1 DEF SocketLost, SocketStep, OrphanOn
  <2>2. CASE UpstreamDispatches(s)
    BY <1>0, <2>2 DEF UpstreamDispatches
  <2>3. CASE UpstreamReceives(s)
    <3>1. PICK k \in Namespaces :
              \/ current' = current /\ dispatchedOn' = dispatchedOn
              \/ /\ current' \in {current, [current EXCEPT ![k] = @ + 1]}
                 /\ dispatchedOn' = [dispatchedOn EXCEPT ![k] = NotDispatched]
      BY <2>3 DEF UpstreamReceives
    <3> QED
      BY <1>0, <3>1
  <2>4. CASE SocketOpens(s) \/ SocketOnClose(s) \/ SocketReconnects(s) \/ BatchArrives(s)
    BY <2>4 DEF SocketOpens, SocketOnClose, SocketReconnects, SocketStep, BatchArrives,
       upstreamVars
  <2> QED
    BY <1>3, <2>1, <2>2, <2>3, <2>4 DEF SocketEvent
<1>4. ASSUME NEW k \in Namespaces, UpstreamNoticesLoss(k)
      PROVE  current' = current /\ dispatchedOn'[n] = dispatchedOn[n]
  BY <1>0, <1>4 DEF UpstreamNoticesLoss
<1>5. ASSUME DropBatch \/ UNCHANGED vars
      PROVE  current' = current /\ dispatchedOn'[n] = dispatchedOn[n]
  BY <1>5 DEF DropBatch, vars, upstreamVars
<1>6. ~Crash
  BY <1>1 DEF Crash
<1> QED
  BY <1>1, <1>2, <1>3, <1>4, <1>5, <1>6 DEF Next

\* A stream that begins to wait has its batch in transit.
LEMMA WaitBegins ==
  ASSUME TypeOK, [Next]_vars, NEW n \in Namespaces,
         dispatchedOn[n] \notin Sockets, dispatchedOn'[n] \in Sockets
  PROVE  OnItsWay(n)'
<1> USE ProxyAssumption
<1>0. /\ dispatchedOn \in [Namespaces -> {NotDispatched, Orphaned} \cup Sockets]
      /\ NotDispatched \notin Sockets /\ Orphaned \notin Sockets
  BY DEF TypeOK, NotDispatched, Orphaned, Sockets
<1>1. ~Restart
  BY <1>0 DEF Restart, OrphanOn
<1>2. ASSUME NEW c \in Clients, ClientStep(c) PROVE FALSE
  <2>1. CASE Disconnect(c)
    BY <1>0, <2>1 DEF Disconnect, OrphanOn
  <2>2. CASE \/ Connect(c) \/ DisconnectThrows(c) \/ SendBatch(c)
             \/ \E k \in Namespaces : \/ StartRegistered(c, k) \/ Start(c, k)
                                      \/ StartConnected(c, k) \/ StartFailed(c, k)
             \/ \E m \in awaitingAck[c] : Ack(c, m) \/ AckThrows(c, m)
    BY <1>1, <2>2 DEF Connect, DisconnectThrows, SendBatch, StartRegistered, Start,
       StartConnected, StartFailed, Ack, AckThrows, upstreamVars
  <2> QED
    BY <1>2, <2>1, <2>2 DEF ClientStep
<1>3. ASSUME NEW s \in Sockets, SocketEvent(s), ~UpstreamDispatches(s) PROVE FALSE
  <2>1. CASE SocketLost(s)
    BY <1>0, <2>1 DEF SocketLost, SocketStep, OrphanOn
  <2>2. CASE UpstreamReceives(s)
    BY <1>0, <2>2 DEF UpstreamReceives
  <2>3. CASE SocketOpens(s) \/ SocketOnClose(s) \/ SocketReconnects(s) \/ BatchArrives(s)
    BY <2>3 DEF SocketOpens, SocketOnClose, SocketReconnects, SocketStep, BatchArrives,
       upstreamVars
  <2> QED
    BY <1>3, <2>1, <2>2, <2>3 DEF SocketEvent
<1>4. ASSUME NEW k \in Namespaces, UpstreamNoticesLoss(k) PROVE FALSE
  BY <1>0, <1>4 DEF UpstreamNoticesLoss
<1>5. ASSUME DropBatch \/ UNCHANGED vars PROVE FALSE
  BY <1>5 DEF DropBatch, vars, upstreamVars
<1>6. ~Crash
  BY <1>1 DEF Crash
<1>7. PICK s \in Sockets : UpstreamDispatches(s)
  BY <1>2, <1>3, <1>4, <1>5, <1>6 DEF Next
<1>8. PICK k \in Namespaces :
          /\ socketNamespace[s] = k
          /\ dispatchedOn' = [dispatchedOn EXCEPT ![k] = s]
          /\ incoming' = [incoming EXCEPT ![s] = Append(@, current[k])]
          /\ UNCHANGED <<current, socketNamespace>>
  BY <1>7 DEF UpstreamDispatches
<1>9. k = n
  BY <1>0, <1>8
<1>10. incoming[s] \in Seq(Batches) /\ incoming'[s] = Append(incoming[s], current[n])
  BY <1>8, <1>9 DEF TypeOK
<1>11. Len(incoming[s]) + 1 \in DOMAIN incoming'[s]
       /\ incoming'[s][Len(incoming[s]) + 1] = current[n]
  BY <1>10
<1> QED
  BY <1>8, <1>9, <1>11 DEF OnItsWay

\* An open connection of a stream that waits stays open, when nothing slips: the one it
\* waits on because it waits on, and any other because losing it is a slip.
LEMMA OpenStays ==
  ASSUME ConnectionsInv', [Next]_vars, TypeOK, NEW n, Waits(n), ~Slips(n),
         NEW s \in Sockets, sockets[s].ws = "open", socketNamespace[s] = n
  PROVE  sockets'[s].ws = "open"
<1>1. CASE s = dispatchedOn[n]
  BY <1>1, StillWaiting DEF Waits, ConnectionsInv, DispatchedOnOpen
<1>2. CASE s # dispatchedOn[n]
  BY <1>2 DEF Slips, LosesOther
<1> QED
  BY <1>1, <1>2

\* The queue loses its head, when it is sent or dropped, and otherwise only grows.
LEMMA QueueTaken ==
  ASSUME [Next]_vars, ~Restart
  PROVE  \/ queue' = queue
         \/ \E task : queue' = Append(queue, task)
         \/ /\ queue # <<>> /\ queue' = Tail(queue)
            /\ DropBatch \/ \E c \in Clients : SendBatch(c)
<1>1. ASSUME NEW c \in Clients, ClientStep(c), ~SendBatch(c) PROVE queue' = queue
  BY <1>1 DEF ClientStep, Connect, Disconnect, DisconnectThrows, StartRegistered, Start,
     StartConnected, StartFailed, Ack, AckThrows
<1>2. ASSUME NEW s \in Sockets, SocketEvent(s), ~BatchArrives(s) PROVE queue' = queue
  BY <1>2 DEF SocketEvent, SocketOpens, SocketLost, SocketOnClose, SocketReconnects,
     SocketStep, UpstreamDispatches, UpstreamReceives, proxyVars
<1>3. ASSUME NEW s \in Sockets, BatchArrives(s)
      PROVE  \E task : queue' = Append(queue, task)
  BY <1>3 DEF BatchArrives, QueueTask
<1>4. ASSUME NEW n \in Namespaces, UpstreamNoticesLoss(n) PROVE queue' = queue
  BY <1>4 DEF UpstreamNoticesLoss, proxyVars
<1>5. ASSUME NEW c \in Clients, SendBatch(c) PROVE queue # <<>> /\ queue' = Tail(queue)
  BY <1>5 DEF SendBatch
<1>6. ASSUME DropBatch PROVE queue # <<>> /\ queue' = Tail(queue)
  BY <1>6 DEF DropBatch
<1>7. ASSUME UNCHANGED vars PROVE queue' = queue
  BY <1>7 DEF vars, proxyVars
<1>8. ~Crash
  BY DEF Crash
<1> QED
  BY <1>1, <1>2, <1>3, <1>4, <1>5, <1>6, <1>7, <1>8 DEF Next

\* A task stays in the queue, or is the head that a client receives.
LEMMA QueuedStays ==
  ASSUME TypeOK, [Next]_vars, ConnectedTracked, NEW n, Waits(n), ~Slips(n),
         NEW i \in DOMAIN queue, Carries(queue[i], n)
  PROVE  OnItsWay(n)'
<1>1. queue \in Seq(Task) /\ Len(queue) \in Nat /\ i \in 1..Len(queue)
  BY OrderTypes DEF TypeOK
<1>2. current'[n] = current[n] /\ ~Restart
  BY StillWaiting
<1>3. ASSUME NEW j \in DOMAIN queue', queue'[j] = queue[i] PROVE OnItsWay(n)'
  BY <1>2, <1>3 DEF OnItsWay, Carries
<1>4. CASE queue' = queue
  BY <1>3, <1>4
<1>5. ASSUME NEW task, queue' = Append(queue, task) PROVE OnItsWay(n)'
  <2>1. i \in DOMAIN queue' /\ queue'[i] = queue[i]
    BY <1>1, <1>5
  <2> QED
    BY <1>3, <2>1
<1>6. CASE queue # <<>> /\ queue' = Tail(queue) /\ i # 1
  <2>1. i - 1 \in DOMAIN queue' /\ queue'[i - 1] = queue[i]
    BY <1>1, <1>6, HeadTailProperties
  <2> QED
    BY <1>3, <2>1
<1>7. ASSUME NEW c \in Clients, SendBatch(c), i = 1 PROVE OnItsWay(n)'
  <2>1. Carries(Head(queue), n)
    BY <1>1, <1>7
  <2>2. clientState[c] = "connected" /\ c \in tracked
    BY <1>7, <2>1 DEF Slips, ConnectedTracked
  <2> DEFINE message == [id |-> nextId, namespace |-> Head(queue).namespace,
                         batchNumber |-> Head(queue).batchNumber]
  <2>3. message \in awaitingAck'[c] /\ clientState' = clientState
    BY <1>7, <2>2 DEF SendBatch, Send, TypeOK
  <2>4. message.namespace = n /\ message.batchNumber = current'[n]
    BY <1>2, <2>1 DEF Carries
  <2> HIDE DEF message
  <2> QED
    BY <2>2, <2>3, <2>4 DEF OnItsWay, Carries
<1>8. CASE DropBatch /\ i = 1
  BY <1>1, <1>8 DEF Slips
<1> QED
  BY <1>2, <1>4, <1>5, <1>6, <1>7, <1>8, QueueTaken

\* The batch is on its way when it is in the queue after the step.
LEMMA OnItsWayQueued ==
  ASSUME NEW n, current'[n] = current[n], NEW i \in DOMAIN queue',
         queue'[i].namespace = n, queue'[i].batchNumber = current[n]
  PROVE  OnItsWay(n)'
  BY DEF OnItsWay, Carries

\* What is appended to a wire does not hide what was on it.
LEMMA WireGrown ==
  ASSUME TypeOK, NEW n, current'[n] = current[n],
         NEW s \in Sockets, socketNamespace[s] = n, socketNamespace'[s] = n,
         NEW i \in DOMAIN wire[s], current[n] \in wire[s][i].batchNumbers,
         wire'[s] = wire[s] \/ \E e : wire'[s] = Append(wire[s], e)
  PROVE  OnItsWay(n)'
<1>1. wire[s] \in Seq(Control)
  BY DEF TypeOK
<1>2. i \in DOMAIN wire'[s] /\ wire'[s][i] = wire[s][i]
  BY <1>1
<1> QED
  BY <1>2 DEF OnItsWay

\* What a step appends to the wire of a stream may be the answer it waits for.
LEMMA WireAnswered ==
  ASSUME TypeOK, NEW n, current'[n] = current[n], UNCHANGED socketNamespace,
         NEW s \in Sockets, socketNamespace[s] = n,
         NEW e, wire'[s] = Append(wire[s], e), current[n] \in e.batchNumbers
  PROVE  OnItsWay(n)'
<1>1. wire[s] \in Seq(Control)
  BY DEF TypeOK
<1>2. Len(wire[s]) + 1 \in DOMAIN wire'[s] /\ wire'[s][Len(wire[s]) + 1] = e
  BY <1>1
<1> QED
  BY <1>2 DEF OnItsWay

\* A connection that stays open keeps its namespace and what is on its way on it, except
\* that EVMConnect reads the oldest answer, and the proxy queues the oldest batch.
LEMMA ConnectionKept ==
  ASSUME TypeOK, RegistryInv, [Next]_vars, ~Restart, NEW s \in Sockets,
         sockets[s].ws = "open", sockets'[s].ws = "open"
  PROVE  /\ socketNamespace'[s] = socketNamespace[s]
         /\ \/ wire'[s] = wire[s] \/ \E e : wire'[s] = Append(wire[s], e)
            \/ UpstreamReceives(s) /\ wire'[s] = Tail(wire[s])
         /\ \/ incoming'[s] = incoming[s] \/ \E b : incoming'[s] = Append(incoming[s], b)
            \/ BatchArrives(s) /\ incoming'[s] = Tail(incoming[s])
<1> USE ProxyAssumption
<1>0. /\ wire \in [Sockets -> Seq(Control)] /\ incoming \in [Sockets -> Seq(Batches)]
      /\ sockets \in [Sockets -> Socket]
      /\ socketNamespace \in [Sockets -> Namespaces \cup {NoNamespace}]
  BY DEF TypeOK
<1> DEFINE Same == /\ socketNamespace'[s] = socketNamespace[s]
                   /\ wire'[s] = wire[s]
                   /\ incoming'[s] = incoming[s]
           Answered == /\ socketNamespace'[s] = socketNamespace[s]
                       /\ \E e : wire'[s] = Append(wire[s], e)
                       /\ incoming'[s] = incoming[s]
           Sent == /\ socketNamespace'[s] = socketNamespace[s]
                   /\ wire'[s] = wire[s]
                   /\ \E b : incoming'[s] = Append(incoming[s], b)
           Read == /\ socketNamespace'[s] = socketNamespace[s]
                   /\ UpstreamReceives(s) /\ wire'[s] = Tail(wire[s])
                   /\ incoming'[s] = incoming[s]
           Came == /\ socketNamespace'[s] = socketNamespace[s]
                   /\ wire'[s] = wire[s]
                   /\ BatchArrives(s) /\ incoming'[s] = Tail(incoming[s])
<1>1. ASSUME NEW c \in Clients, ClientStep(c) PROVE Same \/ Answered
  <2>1. CASE Disconnect(c)
    <3> DEFINE closed == {namespaceEventStreamSocket[k] : k \in Abandons(c)}
               nacks == {m \in Nacked(c) : namespaceEventStreamSocket[m.namespace] = s}
    <3>1. /\ socketNamespace' = socketNamespace
          /\ s \in closed => sockets'[s] = CloseRequested(sockets[s])
          /\ s \notin closed => incoming'[s] = incoming[s]
          /\ s \notin closed => \/ wire'[s] = wire[s]
                                \/ wire'[s] = Append(wire[s], NackMessage(nacks))
      BY <2>1 DEF Disconnect
    <3>2. s \notin closed
      <4>1. CloseRequested(sockets[s]).ws = "closing"
        BY DEF CloseRequested, Terminated, Live
      <4> HIDE DEF closed
      <4> QED
        BY <3>1, <4>1
    <3> HIDE DEF closed, nacks
    <3> QED
      BY <3>1, <3>2
  <2>2. CASE Connect(c) \/ SendBatch(c)
    BY <2>2 DEF Connect, SendBatch, socketVars
  <2>3. ASSUME NEW k \in Namespaces, StartRegistered(c, k) \/ Start(c, k) \/ StartFailed(c, k)
        PROVE  Same
    BY <2>3 DEF StartRegistered, Start, StartFailed, socketVars
  <2>4. ASSUME NEW k \in Namespaces, StartConnected(c, k) PROVE Same
    <3>1. /\ s # created + 1 => socketNamespace'[s] = socketNamespace[s]
          /\ wire' = wire /\ incoming' = incoming
          /\ created \in Nat
      BY <1>0, <2>4 DEF StartConnected, TypeOK
    <3>2. s # created + 1
      <4>1. sockets[s] # Finished
        BY DEF Finished
      <4> QED
        BY <3>1, <4>1 DEF RegistryInv, SocketsInv
    <3> QED
      BY <3>1, <3>2
  <2>5. ASSUME NEW m \in awaitingAck[c], Ack(c, m) PROVE Same \/ Answered
    <3> DEFINE r == namespaceEventStreamSocket[m.namespace]
    <3>1. /\ socketNamespace' = socketNamespace /\ incoming' = incoming
          /\ wire' = wire \/ wire' = Produced(r, AckMessage(m))
      BY <2>5 DEF Ack
    <3>2. wire'[s] = wire[s] \/ wire'[s] = Append(wire[s], AckMessage(m))
      BY <1>0, <3>1 DEF Produced
    <3> QED
      BY <3>1, <3>2
  <2> QED
    BY <1>1, <2>1, <2>2, <2>3, <2>4, <2>5 DEF ClientStep, DisconnectThrows, AckThrows
<1>2. ASSUME NEW t \in Sockets, SocketEvent(t) PROVE Same \/ Sent \/ Read \/ Came
  <2>1. CASE SocketOpens(t) \/ SocketOnClose(t) \/ SocketReconnects(t)
    BY <2>1 DEF SocketOpens, SocketOnClose, SocketReconnects, SocketStep
  <2>2. CASE SocketLost(t)
    <3>1. t # s
      BY <1>0, <2>2 DEF SocketLost, SocketStep, Terminated
    <3> QED
      BY <1>0, <2>2, <3>1 DEF SocketLost, SocketStep
  <2>3. CASE UpstreamDispatches(t)
    <3>1. PICK k : incoming' = [incoming EXCEPT ![t] = Append(@, current[k])]
      BY <2>3 DEF UpstreamDispatches
    <3>2. incoming'[s] = incoming[s] \/ incoming'[s] = Append(incoming[s], current[k])
      BY <1>0, <3>1
    <3>3. UNCHANGED <<socketNamespace, wire>>
      BY <2>3 DEF UpstreamDispatches
    <3> QED
      BY <3>2, <3>3
  <2>4. CASE BatchArrives(t)
    <3>1. incoming' = [incoming EXCEPT ![t] = Tail(@)] /\ UNCHANGED <<socketNamespace, wire>>
      BY <2>4 DEF BatchArrives
    <3>2. (t # s => incoming'[s] = incoming[s]) /\ (t = s => incoming'[s] = Tail(incoming[s]))
      BY <1>0, <3>1
    <3> QED
      BY <2>4, <3>1, <3>2
  <2>5. CASE UpstreamReceives(t)
    <3>1. wire' = [wire EXCEPT ![t] = Tail(@)] /\ UNCHANGED <<socketNamespace, incoming>>
      BY <2>5 DEF UpstreamReceives
    <3>2. (t # s => wire'[s] = wire[s]) /\ (t = s => wire'[s] = Tail(wire[s]))
      BY <1>0, <3>1
    <3> QED
      BY <2>5, <3>1, <3>2
  <2> QED
    BY <1>2, <2>1, <2>2, <2>3, <2>4, <2>5 DEF SocketEvent
<1>3. ASSUME NEW k \in Namespaces, UpstreamNoticesLoss(k) PROVE Same
  BY <1>3 DEF UpstreamNoticesLoss, socketVars
<1>4. ASSUME DropBatch \/ UNCHANGED vars PROVE Same
  BY <1>4 DEF DropBatch, vars, socketVars
<1>5. ~Crash
  BY DEF Crash
<1>6. Same \/ Answered \/ Sent \/ Read \/ Came
  <2> HIDE DEF Same, Answered, Sent, Read, Came
  <2> QED
    BY <1>1, <1>2, <1>3, <1>4, <1>5 DEF Next
<1> QED
  BY <1>6

\* An answer on the wire stays there until EVMConnect reads it.
LEMMA AnswerStays ==
  ASSUME TypeOK, RegistryInv, ConnectionsInv, ConnectionsInv', [Next]_vars,
         NEW n, Waits(n), ~Slips(n), NEW s \in Sockets, socketNamespace[s] = n,
         NEW i \in DOMAIN wire[s], current[n] \in wire[s][i].batchNumbers
  PROVE  OnItsWay(n)'
<1>1. /\ current'[n] = current[n] /\ dispatchedOn'[n] = dispatchedOn[n] /\ ~Restart
      /\ n \in Namespaces /\ dispatchedOn[n] \in Sockets
  BY StillWaiting DEF Waits
<1>2. wire[s] \in Seq(Control) /\ i \in 1..Len(wire[s]) /\ wire[s] # <<>>
  BY DEF TypeOK
<1>3. sockets[s].ws = "open" /\ sockets'[s].ws = "open"
  BY <1>2, OpenStays DEF ConnectionsInv, WireOnOpen
<1>4. socketNamespace'[s] = n
  BY <1>1, <1>3, ConnectionKept
<1>5. CASE wire'[s] = wire[s] \/ \E e : wire'[s] = Append(wire[s], e)
  BY <1>1, <1>4, <1>5, WireGrown
<1>6. CASE UpstreamReceives(s) /\ wire'[s] = Tail(wire[s])
  <2>1. current[n] \notin Head(wire[s]).batchNumbers
    <3>1. NotDispatched \notin Sockets
      BY DEF NotDispatched, Sockets
    <3> QED
      BY <1>1, <1>6, <3>1 DEF UpstreamReceives, TypeOK
  <2>2. i # 1
    BY <1>2, <2>1, TailTyped
  <2>3. i - 1 \in DOMAIN Tail(wire[s]) /\ Tail(wire[s])[i - 1] = wire[s][i]
    BY <1>2, <2>2, HeadTailProperties
  <2> QED
    BY <1>1, <1>4, <1>6, <2>3 DEF OnItsWay
<1> QED
  BY <1>1, <1>3, <1>5, <1>6, ConnectionKept

\* A batch in transit stays there until it arrives and is queued.
LEMMA TransitStays ==
  ASSUME TypeOK, RegistryInv, ConnectionsInv, ConnectionsInv', [Next]_vars,
         NEW n, Waits(n), ~Slips(n), NEW s \in Sockets, socketNamespace[s] = n,
         NEW i \in DOMAIN incoming[s], incoming[s][i] = current[n]
  PROVE  OnItsWay(n)'
<1>1. current'[n] = current[n] /\ ~Restart
  BY StillWaiting
<1>2. incoming[s] \in Seq(Batches) /\ i \in 1..Len(incoming[s]) /\ incoming[s] # <<>>
  BY DEF TypeOK
<1>3. sockets[s].ws = "open" /\ sockets'[s].ws = "open"
  BY <1>2, OpenStays DEF ConnectionsInv, TransitOnOpen
<1>4. socketNamespace'[s] = n
  BY <1>1, <1>3, ConnectionKept
<1>5. ASSUME NEW j \in DOMAIN incoming'[s], incoming'[s][j] = incoming[s][i]
      PROVE  OnItsWay(n)'
  BY <1>1, <1>4, <1>5 DEF OnItsWay
<1>6. CASE incoming'[s] = incoming[s]
  BY <1>5, <1>6
<1>7. ASSUME NEW b, incoming'[s] = Append(incoming[s], b) PROVE OnItsWay(n)'
  <2>1. i \in DOMAIN incoming'[s] /\ incoming'[s][i] = incoming[s][i]
    BY <1>2, <1>7
  <2> QED
    BY <1>5, <2>1
<1>8. CASE BatchArrives(s) /\ incoming'[s] = Tail(incoming[s])
  <2>1. CASE i = 1
    <3>1. queue' = Append(queue, [namespace |-> n, batchNumber |-> Head(incoming[s])])
      BY <1>8 DEF BatchArrives, QueueTask
    <3>2. Head(incoming[s]) = current[n]
      BY <1>2, <2>1, TailTyped
    <3>3. Len(queue) \in Nat /\ Len(queue') = Len(queue) + 1
          /\ queue'[Len(queue) + 1].namespace = n
          /\ queue'[Len(queue) + 1].batchNumber = current[n]
      BY <3>1, <3>2, QueueGrown, OrderTypes
    <3>4. Len(queue) + 1 \in DOMAIN queue'
      <4>1. queue \in Seq(Task)
        BY DEF TypeOK
      <4> QED
        BY <3>1, <4>1
    <3> QED
      BY <1>1, <3>3, <3>4, OnItsWayQueued
  <2>2. CASE i # 1
    <3>1. i - 1 \in DOMAIN Tail(incoming[s]) /\ Tail(incoming[s])[i - 1] = incoming[s][i]
      BY <1>2, <2>2, HeadTailProperties
    <3> QED
      BY <1>5, <1>8, <3>1
  <2> QED
    BY <2>1, <2>2
<1> QED
  BY <1>1, <1>3, <1>6, <1>7, <1>8, ConnectionKept

\* A client that holds a message of a namespace is answered for on its registered socket.
LEMMA HolderRegistered ==
  ASSUME TypeOK, RegistryInv, NEW n \in Namespaces, NEW c \in Clients,
         NEW m \in awaitingAck[c], m.namespace = n
  PROVE  /\ namespaceEventStreamSocket[n] \in Sockets
         /\ socketNamespace[namespaceEventStreamSocket[n]] = n
         /\ n \in Registered
<1>1. namespaceClients[n] # {}
  BY DEF RegistryInv, HolderIsClient
<1>2. namespaceEventStreamSocket[n] \in 0..MaxSockets /\ namespaceEventStreamSocket[n] # 0
  BY <1>1 DEF RegistryInv, RegistryConsistent, TypeOK
<1>3. namespaceEventStreamSocket[n] \in Sockets
  BY <1>2, ProxyAssumption DEF Sockets
<1> QED
  BY <1>2, <1>3 DEF RegistryInv, RegistryConsistent, Registered

\* A client that leaves has its messages of the stream nacked on the registered socket.
LEMMA LeaverNacks ==
  ASSUME TypeOK, RegistryInv, ConnectionsInv', [Next]_vars, NEW n, Waits(n), ~Slips(n),
         NEW c \in Clients, Disconnect(c), NEW m \in awaitingAck[c], Carries(m, n)
  PROVE  OnItsWay(n)'
<1> USE ProxyAssumption
<1> DEFINE closed == {namespaceEventStreamSocket[k] : k \in Abandons(c)}
           r == namespaceEventStreamSocket[n]
           nacks(t) == {o \in Nacked(c) : namespaceEventStreamSocket[o.namespace] = t}
<1>1. current'[n] = current[n] /\ n \in Namespaces
  BY StillWaiting DEF Waits
<1>2. r \in Sockets /\ socketNamespace[r] = n /\ n \in Registered
  BY <1>1, HolderRegistered DEF Carries
<1>3. clientState[c] = "connected" /\ clientState'[c] = "gone"
  BY DEF Disconnect, TypeOK
<1>4. sockets[r].ws = "open"
  BY <1>3 DEF Slips, AnswersNobody, Leaves
<1>5. \A k \in Registered : insertedAt[n] <= insertedAt[k]
  <2>1. insertedAt \in [Namespaces -> Nat]
    BY DEF TypeOK
  <2> QED
    BY <1>1, <1>3, <2>1 DEF Slips, Leaves, Registered
<1>6. m \in Nacked(c) /\ m \in nacks(r)
  BY <1>5 DEF Nacked, Carries
<1>7. r \notin closed
  <2>1. sockets'[r].ws = "open"
    BY <1>2, <1>4, OpenStays
  <2>2. r \in closed => sockets'[r] = CloseRequested(sockets[r])
    BY <1>2 DEF Disconnect
  <2>3. CloseRequested(sockets[r]).ws = "closing"
    BY <1>4 DEF CloseRequested, Terminated, Live
  <2> HIDE DEF closed, r
  <2> QED
    BY <2>1, <2>2, <2>3
<1>8. wire'[r] = Append(wire[r], NackMessage(nacks(r))) /\ socketNamespace' = socketNamespace
  <2>1. /\ wire' = [t \in Sockets |->
                       IF t \in closed THEN <<>>
                       ELSE IF nacks(t) # {} /\ sockets[t].ws = "open"
                       THEN Append(wire[t], NackMessage(nacks(t)))
                       ELSE wire[t]]
        /\ socketNamespace' = socketNamespace
    BY DEF Disconnect
  <2>2. nacks(r) # {}
    BY <1>6
  <2> HIDE DEF nacks, closed, r
  <2> QED
    BY <1>2, <1>4, <1>7, <2>1, <2>2
<1>9. current[n] \in NackMessage(nacks(r)).batchNumbers
  <2> HIDE DEF nacks, r
  <2> QED
    BY <1>6 DEF NackMessage, Carries
<1> HIDE DEF nacks, closed, r
<1> QED
  BY <1>1, <1>2, <1>8, <1>9, WireAnswered

\* The ack of the last message a client holds is passed on.
LEMMA AckerAnswers ==
  ASSUME TypeOK, RegistryInv, [Next]_vars, NEW n, Waits(n), ~Slips(n),
         NEW c \in Clients, NEW m \in awaitingAck[c], Ack(c, m), Carries(m, n)
  PROVE  OnItsWay(n)'
<1> DEFINE r == namespaceEventStreamSocket[n]
<1>1. current'[n] = current[n] /\ n \in Namespaces
  BY StillWaiting DEF Waits
<1>2. r \in Sockets /\ socketNamespace[r] = n
  BY <1>1, HolderRegistered DEF Carries
<1>3. awaitingAck'[c] = awaitingAck[c] \ {m} /\ clientState'[c] = "connected"
  BY DEF Ack, TypeOK
<1>4. awaitingAck[c] \ {m} = {}
  BY <1>3 DEF Slips, Acknowledges
<1>5. sockets[r].ws = "open"
  BY <1>3 DEF Slips, AnswersNobody, Acknowledges
<1>6. wire' = Produced(r, AckMessage(m)) /\ socketNamespace' = socketNamespace
  BY <1>4 DEF Ack, BatchComplete, Carries
<1>7. wire'[r] = Append(wire[r], AckMessage(m))
  <2>1. r # 0
    BY <1>2 DEF Sockets
  <2>2. wire' = [wire EXCEPT ![r] = Append(@, AckMessage(m))]
    BY <1>5, <1>6, <2>1 DEF Produced
  <2> HIDE DEF r
  <2> QED
    BY <1>2, <2>2 DEF TypeOK
<1>8. current[n] \in AckMessage(m).batchNumbers
  BY DEF AckMessage, Carries
<1> QED
  BY <1>1, <1>2, <1>6, <1>7, <1>8, WireAnswered

\* A message stays with its client until the client acknowledges it or leaves.
LEMMA HeldStays ==
  ASSUME TypeOK, RegistryInv, ConnectionsInv', [Next]_vars, NEW n, Waits(n), ~Slips(n),
         NEW c \in Clients, clientState[c] = "connected",
         NEW m \in awaitingAck[c], Carries(m, n)
  PROVE  OnItsWay(n)'
<1>0. /\ awaitingAck \in [Clients -> SUBSET Message]
      /\ clientState \in [Clients -> {"new", "connected", "gone"}]
  BY DEF TypeOK
<1>1. current'[n] = current[n] /\ ~Restart
  BY StillWaiting
<1>2. CASE m \in awaitingAck'[c] /\ clientState'[c] = clientState[c]
  BY <1>1, <1>2 DEF OnItsWay, Carries
<1>3. ASSUME NEW d \in Clients, ClientStep(d) PROVE OnItsWay(n)'
  <2>1. CASE Connect(d)
    <3>1. d # c
      BY <2>1 DEF Connect
    <3> QED
      BY <1>0, <1>2, <2>1, <3>1 DEF Connect
  <2>2. CASE Disconnect(d)
    <3>1. CASE d = c
      BY <2>2, <3>1, LeaverNacks
    <3>2. CASE d # c
      BY <1>0, <1>2, <2>2, <3>2 DEF Disconnect
    <3> QED
      BY <3>1, <3>2
  <2>3. CASE SendBatch(d)
    BY <1>0, <1>2, <2>3 DEF SendBatch, Send
  <2>4. ASSUME NEW k \in Namespaces, \/ StartRegistered(d, k) \/ Start(d, k)
                                     \/ StartConnected(d, k) \/ StartFailed(d, k)
        PROVE  OnItsWay(n)'
    BY <1>2, <2>4 DEF StartRegistered, Start, StartConnected, StartFailed
  <2>5. ASSUME NEW o \in awaitingAck[d], Ack(d, o) PROVE OnItsWay(n)'
    <3>1. CASE d = c /\ o = m
      BY <2>5, <3>1, AckerAnswers
    <3>2. CASE d # c \/ o # m
      BY <1>0, <1>2, <2>5, <3>2 DEF Ack
    <3> QED
      BY <3>1, <3>2
  <2> QED
    BY <1>1, <1>3, <2>1, <2>2, <2>3, <2>4, <2>5 DEF ClientStep, DisconnectThrows, AckThrows
<1>4. ASSUME NEW s \in Sockets, SocketEvent(s) PROVE OnItsWay(n)'
  BY <1>2, <1>4 DEF SocketEvent, SocketOpens, SocketLost, SocketOnClose, SocketReconnects,
     SocketStep, UpstreamDispatches, BatchArrives, UpstreamReceives, proxyVars
<1>5. ASSUME NEW k \in Namespaces, UpstreamNoticesLoss(k) PROVE OnItsWay(n)'
  BY <1>2, <1>5 DEF UpstreamNoticesLoss, proxyVars
<1>6. CASE DropBatch \/ UNCHANGED vars
  BY <1>2, <1>6 DEF DropBatch, vars, proxyVars
<1>7. ~Crash
  BY <1>1 DEF Crash
<1> QED
  BY <1>3, <1>4, <1>5, <1>6, <1>7 DEF Next
-----------------------------------------------------------------------------
(***************************************************************************)
(* The inductive invariant and what follows from it.                       *)
(***************************************************************************)

IInv ==
    /\ TypeOK
    /\ RegistryInv
    /\ AckJustified
    /\ NoBatchSkipped
    /\ Reached
    /\ QueueInv
    /\ HeldInv
    /\ AckedInv
    /\ ConnectionsInv
    /\ CreatedInv

\* The inductive invariant holds initially.
LEMMA InitIInv == Init => IInv
<1> SUFFICES ASSUME Init PROVE IInv
  OBVIOUS
<1> USE ProxyAssumption
<1>1. TypeOK /\ RegistryInv
  BY InitTypeOK, InitRegistry
<1>2. AckJustified /\ NoBatchSkipped
  BY DEF Init, AckJustified, NoBatchSkipped, Batches
<1>3. \A s \in Sockets : Len(incoming[s]) = 0
  BY DEF Init
<1>4. \A n, b : ~InTransit(n, b)
  BY <1>3 DEF InTransit
<1>5. Reached /\ QueueInv /\ HeldInv
  BY <1>3, <1>4 DEF Init, Reached, QueueInv, TransitSorted, QueueSorted,
     QueueBeforeTransit, HeldBeforeQueued, HeldBeforeTransit, HeldInv, IdsSpent,
     HandedOutInOrder
<1>6. AckedInv /\ ConnectionsInv
  BY InitConnections DEF Init, AckedInv
<1>7. CreatedInv
  BY DEF Init, CreatedInv, Sockets
<1> QED
  BY <1>1, <1>2, <1>5, <1>6, <1>7 DEF IInv

\* EVMConnect only moves past a batch that a client has acknowledged.
LEMMA NoBatchSkippedStep ==
  ASSUME TypeOK, AckJustified, NoBatchSkipped, [Next]_vars
  PROVE  NoBatchSkipped'
<1>1. current \in [Namespaces -> Int]
  BY OrderTypes
<1>2. clientAcked \subseteq clientAcked'
  BY AckedStable
<1>3. CASE Advances
  <2>1. PICK n \in Namespaces : /\ <<n, current[n]>> \in clientAcked
                                /\ current' = [current EXCEPT ![n] = @ + 1]
    BY <1>3 DEF Advances
  <2>2. ASSUME NEW k \in Namespaces, NEW b \in Batches, b < current'[k]
        PROVE  <<k, b>> \in clientAcked
    <3>1. b < current[k] \/ (k = n /\ b = current[n])
      BY <1>1, <2>1, <2>2, ProxyAssumption DEF Batches
    <3> QED
      BY <2>1, <3>1 DEF NoBatchSkipped
  <2> QED
    BY <1>2, <2>2 DEF NoBatchSkipped
<1>4. CASE current' = current
  BY <1>2, <1>4 DEF NoBatchSkipped
<1> QED
  BY <1>3, <1>4, DeliveryStep DEF Acknowledged

\* Every step preserves the inductive invariant.
LEMMA NextIInv == IInv /\ [Next]_vars => IInv'
<1> SUFFICES ASSUME IInv, [Next]_vars PROVE IInv'
  OBVIOUS
<1>1. TypeOK' /\ RegistryInv' /\ AckJustified'
  BY TypeStep, RegistryStep, WireStep DEF IInv
<1>2. NoBatchSkipped'
  BY NoBatchSkippedStep DEF IInv
<1>3. Reached'
  BY ReachedStep DEF IInv, RegistryInv
<1>4. QueueInv' /\ HeldInv'
  BY QueueInvStep, HeldInvStep DEF IInv, RegistryInv
<1>5. AckedInv' /\ ConnectionsInv' /\ CreatedInv'
  BY AckedStep, ConnectionsStep, CreatedStep DEF IInv, RegistryInv
<1> QED
  BY <1>1, <1>2, <1>3, <1>4, <1>5 DEF IInv

\* The proxy's inductive invariant holds in every reachable state.
THEOREM Invariance == Spec => []IInv
<1> QED
  BY InitIInv, NextIInv, PTL DEF Spec

\* Type correctness of the proxy.
THEOREM TypeCorrect == Spec => []TypeOK
<1>1. IInv => TypeOK
  BY DEF IInv
<1> QED
  BY <1>1, Invariance, PTL

\* Whatever starts, disconnections and restarts interleave, a namespace has a socket
\* exactly when it has a client set with a member, and that socket is its own.
THEOREM RegistryAlwaysConsistent == Spec => []RegistryConsistent
<1>1. IInv => RegistryConsistent
  BY DEF IInv, RegistryInv
<1> QED
  BY <1>1, Invariance, PTL

\* A held message can always be answered: its holder is a client of its namespace,
\* so the namespace has a socket (handleAck, handleDisconnect).
THEOREM HolderIsAlwaysClient == Spec => []HolderIsClient
<1>1. IInv => HolderIsClient
  BY DEF IInv, RegistryInv
<1> QED
  BY <1>1, Invariance, PTL

\* EVMConnect never moves past a batch that no client acknowledged.
THEOREM NoBatchEverSkipped == Spec => []NoBatchSkipped
<1>1. IInv => NoBatchSkipped
  BY DEF IInv
<1> QED
  BY <1>1, Invariance, PTL

\* Batches of a namespace are handed out in order, redeliveries included, as long as none
\* was dispatched while an earlier one was in transit on another connection of it
\* (handleMessage, queueTask).
THEOREM AlwaysHandedOutInOrder == Spec => []HandedOutInOrder
<1>1. IInv => HandedOutInOrder
  BY DEF IInv, HeldInv
<1> QED
  BY <1>1, Invariance, PTL

\* A message that a step gives to a client is the head of the queue, so all batches
\* before its own have been acknowledged, and, unless batches of its namespace have
\* crossed, none after it.
LEMMA HandedOneBatch ==
  ASSUME IInv, [Next]_vars, NEW c \in Clients, NEW m \in awaitingAck'[c] \ awaitingAck[c],
         NEW b \in Batches
  PROVE  /\ b < m.batchNumber => <<m.namespace, b>> \in clientAcked
         /\ b > m.batchNumber /\ m.namespace \notin crossed =>
               <<m.namespace, b>> \notin clientAcked
<1>1. TypeOK /\ SocketsInv /\ Reached /\ NoBatchSkipped /\ AckedInv
  BY DEF IInv, RegistryInv
<1>2. /\ m.namespace = queue[1].namespace /\ m.batchNumber = queue[1].batchNumber
      /\ 1 \in 1..Len(queue)
  BY <1>1, QueueStep, HeldElement
<1>3. /\ m.namespace \in Namespaces /\ m.batchNumber \in Int /\ b \in Int
      /\ current[m.namespace] \in Int
  BY <1>1, <1>2, OrderTypes, ProxyAssumption DEF Batches
<1>4. m.batchNumber <= current[m.namespace]
  BY <1>1, <1>2 DEF Reached
<1>5. ASSUME b < m.batchNumber PROVE <<m.namespace, b>> \in clientAcked
  BY <1>1, <1>3, <1>4, <1>5 DEF NoBatchSkipped
<1>6. ASSUME m.namespace \notin crossed, <<m.namespace, b>> \in clientAcked
      PROVE  ~(b > m.batchNumber)
  BY <1>1, <1>2, <1>3, <1>6 DEF AckedInv
<1> QED
  BY <1>5, <1>6

\* Batches of a namespace are handed out one at a time: whatever is queued, redelivered
\* or restarted, a message is only sent of a batch whose predecessors have been
\* acknowledged, and, as long as no batch was dispatched while an earlier one was in transit
\* on another connection, none of whose successors has (processEvents, queueTask).
THEOREM AlwaysOneBatchAtATime == Spec => OneBatchAtATime
<1>1. IInv /\ [Next]_vars =>
         [\A c \in Clients : \A m \in awaitingAck'[c] \ awaitingAck[c] : \A b \in Batches :
             /\ b < m.batchNumber => <<m.namespace, b>> \in clientAcked
             /\ b > m.batchNumber /\ m.namespace \notin crossed =>
                   <<m.namespace, b>> \notin clientAcked]_vars
  BY HandedOneBatch
<1> QED
  BY <1>1, Invariance, PTL DEF Spec, OneBatchAtATime

\* A socket that has a connection, or will have one, has been created, and no step gives a
\* connection to a socket that has none and will have none, except the one that creates it.
LEMMA PersistsStep ==
  ASSUME IInv, [Next]_vars, NEW s \in Sockets, Persists(s)'
  PROVE  \/ Persists(s)
         \/ \E c \in Clients, n \in Namespaces : StartConnected(c, n) /\ s = created + 1
<1> SUFFICES ASSUME ~Persists(s) PROVE \E c \in Clients, n \in Namespaces :
                                           StartConnected(c, n) /\ s = created + 1
  OBVIOUS
<1>0. sockets \in [Sockets -> Socket] /\ sockets[s] \in Socket
  BY DEF IInv, TypeOK
<1>1. ~Live(sockets[s]) /\ ~Reconnecting(sockets[s])
      /\ (sockets[s].ws = "closing" => "closeRequested" \in sockets[s].flags)
  BY DEF Persists
<1>2. sockets'[s] # sockets[s]
  BY DEF Persists
<1>3. sockets'[s] # Finished
  BY DEF Persists, Finished, Live, Reconnecting
<1>4. ~Restart
  BY <1>3 DEF Restart
<1>5. ASSUME NEW c \in Clients, ClientStep(c)
      PROVE  \E n \in Namespaces : StartConnected(c, n) /\ s = created + 1
  <2>1. ASSUME NEW n \in Namespaces, StartConnected(c, n)
        PROVE  \E k \in Namespaces : StartConnected(c, k) /\ s = created + 1
    BY <1>0, <1>2, <2>1 DEF StartConnected
  <2>2. ~Disconnect(c)
    <3>1. ASSUME Disconnect(c) PROVE sockets'[s] = CloseRequested(sockets[s])
      BY <1>2, <3>1 DEF Disconnect
    <3>2. CloseRequested(sockets[s]) =
              [ws |-> sockets[s].ws, flags |-> sockets[s].flags \cup {"closeRequested"}]
      BY <1>1 DEF CloseRequested, Terminated
    <3>3. ASSUME Disconnect(c)
          PROVE  /\ sockets'[s].ws = sockets[s].ws
                 /\ sockets'[s].flags = sockets[s].flags \cup {"closeRequested"}
      BY <3>1, <3>2, <3>3
    <3> QED
      BY <1>1, <3>3 DEF Persists, Live, Reconnecting
  <2>3. ASSUME \/ Connect(c) \/ SendBatch(c)
               \/ \E n \in Namespaces : \/ StartRegistered(c, n) \/ Start(c, n)
                                        \/ StartFailed(c, n)
               \/ \E m \in awaitingAck[c] : Ack(c, m)
        PROVE  sockets' = sockets
    BY <2>3 DEF Connect, SendBatch, StartRegistered, Start, StartFailed, Ack, socketVars
  <2> QED
    BY <1>2, <1>4, <1>5, <2>1, <2>2, <2>3 DEF ClientStep, DisconnectThrows, AckThrows
<1>6. ASSUME NEW t \in Sockets, SocketEvent(t) PROVE FALSE
  <2>1. ASSUME SocketOpens(t) \/ SocketLost(t) \/ SocketReconnects(t)
        PROVE  t # s /\ sockets'[s] = sockets[s]
    BY <1>0, <1>1, <2>1 DEF SocketOpens, SocketLost, SocketReconnects, SocketStep, Live
  <2>2. ASSUME SocketOnClose(t) PROVE FALSE
    <3>1. t = s /\ sockets[s].ws = "closing" /\ sockets'[s] = AfterClose(sockets[s])
      BY <1>0, <1>2, <2>2 DEF SocketOnClose, SocketStep
    <3>2. sockets'[s] = [ws |-> "closed", flags |-> sockets[s].flags]
      BY <1>1, <3>1 DEF AfterClose
    <3> QED
      BY <1>1, <3>2 DEF Persists, Live, Reconnecting
  <2>3. ASSUME UpstreamDispatches(t) \/ BatchArrives(t) \/ UpstreamReceives(t)
        PROVE  sockets' = sockets
    BY <2>3 DEF UpstreamDispatches, BatchArrives, UpstreamReceives
  <2> QED
    BY <1>2, <1>6, <2>1, <2>2, <2>3 DEF SocketEvent
<1>7. ASSUME NEW n \in Namespaces, UpstreamNoticesLoss(n) PROVE sockets' = sockets
  BY <1>7 DEF UpstreamNoticesLoss, socketVars
<1>8. ASSUME DropBatch \/ UNCHANGED vars PROVE sockets' = sockets
  BY <1>8 DEF DropBatch, vars, socketVars
<1>9. ~Crash
  BY <1>4 DEF Crash
<1> QED
  BY <1>2, <1>5, <1>6, <1>7, <1>8, <1>9 DEF Next

\* A registered socket stays registered in a step that is neither of a start nor of a
\* disconnection, and does not end the process.
LEMMA RegisteredStays ==
  ASSUME [Next]_vars, ~Restart, NEW s \in Sockets,
         namespaceEventStreamSocket'[socketNamespace'[s]] # s,
         namespaceEventStreamSocket[socketNamespace[s]] = s
  PROVE  \E c \in Clients : \/ Disconnect(c)
                            \/ \E n \in Namespaces : StartConnected(c, n)
<1> DEFINE Same == UNCHANGED <<namespaceEventStreamSocket, socketNamespace>>
<1>1. ASSUME NEW c \in Clients, ClientStep(c)
      PROVE  Same \/ Disconnect(c) \/ \E n \in Namespaces : StartConnected(c, n)
  BY <1>1 DEF ClientStep, Connect, DisconnectThrows, SendBatch, StartRegistered, Start,
     StartFailed, Ack, AckThrows, socketVars
<1>2. ASSUME NEW t \in Sockets, SocketEvent(t) PROVE Same
  BY <1>2 DEF SocketEvent, SocketOpens, SocketLost, SocketOnClose, SocketReconnects,
     SocketStep, UpstreamDispatches, BatchArrives, UpstreamReceives, proxyVars
<1>3. ASSUME NEW n \in Namespaces, UpstreamNoticesLoss(n) PROVE Same
  BY <1>3 DEF UpstreamNoticesLoss, proxyVars, socketVars
<1>4. ASSUME DropBatch \/ UNCHANGED vars PROVE Same
  BY <1>4 DEF DropBatch, vars, proxyVars, socketVars
<1>5. ~Crash
  BY DEF Crash
<1>6. ~Same
  OBVIOUS
<1> HIDE DEF Same
<1> QED
  BY <1>1, <1>2, <1>3, <1>4, <1>5, <1>6 DEF Next

\* A step that leaks a socket is one of the two races.
LEMMA LeakStep ==
  ASSUME IInv, [Next]_vars, NEW s \in Sockets, Leaked(s)', ~Leaked(s)
  PROVE  \/ \E c \in Clients, n \in Namespaces :
               StartConnected(c, n) /\ namespaceEventStreamSocket[n] = s
         \/ \E c \in Clients : Disconnect(c) /\ Reconnecting(sockets[s])
<1>1. Persists(s)' /\ namespaceEventStreamSocket'[socketNamespace'[s]] # s
  BY DEF Leaked
<1>2. Persists(s)
  <2>1. ASSUME NEW c \in Clients, NEW n \in Namespaces, StartConnected(c, n), s = created + 1
        PROVE  FALSE
    <3>1. socketNamespace'[s] = n /\ namespaceEventStreamSocket'[n] = s
      BY <2>1 DEF StartConnected, IInv, TypeOK
    <3> QED
      BY <1>1, <3>1
  <2> QED
    BY <1>1, <2>1, PersistsStep
<1>3. namespaceEventStreamSocket[socketNamespace[s]] = s
  BY <1>2 DEF Leaked
<1>4. /\ created \in Nat
      /\ sockets \in [Sockets -> Socket]
      /\ socketNamespace \in [Sockets -> Namespaces \cup {NoNamespace}]
      /\ namespaceEventStreamSocket \in [Namespaces -> 0..MaxSockets]
  BY DEF IInv, TypeOK
<1>5. s <= created /\ socketNamespace[s] \in Namespaces
  <2>1. sockets[s] # Finished
    BY <1>2 DEF Persists, Finished, Live, Reconnecting
  <2>2. s <= created
    BY <1>4, <2>1, ProxyAssumption DEF IInv, RegistryInv, SocketsInv, Sockets
  <2> QED
    BY <2>2 DEF IInv, CreatedInv
<1>6. ~Restart
  <2>1. ASSUME Restart PROVE sockets'[s] = Finished
    BY <2>1 DEF Restart
  <2> QED
    BY <1>1, <2>1 DEF Persists, Finished, Live, Reconnecting
<1>7. ASSUME NEW c \in Clients, NEW n \in Namespaces, StartConnected(c, n)
      PROVE  namespaceEventStreamSocket[n] = s
  <2>1. /\ socketNamespace' = [socketNamespace EXCEPT ![created + 1] = n]
        /\ namespaceEventStreamSocket' = [namespaceEventStreamSocket EXCEPT ![n] = created + 1]
    BY <1>7 DEF StartConnected
  <2>2. socketNamespace'[s] = socketNamespace[s]
    BY <1>4, <1>5, <2>1, ProxyAssumption DEF Sockets
  <2> QED
    BY <1>1, <1>3, <1>4, <1>5, <2>1, <2>2
<1>8. ASSUME NEW c \in Clients, Disconnect(c) PROVE Reconnecting(sockets[s])
  <2>1. /\ socketNamespace' = socketNamespace
        /\ namespaceEventStreamSocket' =
               [n \in Namespaces |-> IF n \in Abandons(c) THEN 0
                                     ELSE namespaceEventStreamSocket[n]]
        /\ sockets' = [t \in Sockets |->
                          IF t \in {namespaceEventStreamSocket[n] : n \in Abandons(c)}
                          THEN CloseRequested(sockets[t]) ELSE sockets[t]]
    BY <1>8 DEF Disconnect
  <2>2. socketNamespace[s] \in Abandons(c)
    BY <1>1, <1>3, <1>5, <2>1
  <2>3. s \in {namespaceEventStreamSocket[n] : n \in Abandons(c)}
    BY <1>3, <2>2
  <2>4. sockets'[s] = CloseRequested(sockets[s])
    BY <2>1, <2>3
  <2>5. /\ sockets'[s].ws = Terminated(sockets[s]).ws
        /\ sockets'[s].flags = sockets[s].flags \cup {"closeRequested"}
    BY <2>4 DEF CloseRequested
  <2>6. sockets'[s].ws \notin {"connecting", "open"}
    BY <2>5 DEF Terminated, Live
  <2> QED
    BY <1>1, <2>5, <2>6 DEF Persists, Live, Reconnecting
<1> QED
  BY <1>1, <1>3, <1>6, <1>7, <1>8, RegisteredStays

\* A socket gets a connection of its own beside the registered one, which nothing but the
\* end of the process closes, only by two starts of one namespace that overlap, or by a
\* close() that a pending reconnection undoes (startListening, handleDisconnect, init).
THEOREM LeaksNeedRaces == Spec => LeakedOnlyByRaces
<1>1. IInv /\ [Next]_vars =>
         [\A s \in Sockets : Leaked(s)' =>
             \/ Leaked(s)
             \/ \E c \in Clients, n \in Namespaces :
                   StartConnected(c, n) /\ namespaceEventStreamSocket[n] = s
             \/ \E c \in Clients : Disconnect(c) /\ Reconnecting(sockets[s])]_vars
  BY LeakStep
<1> QED
  BY <1>1, Invariance, PTL DEF Spec, LeakedOnlyByRaces

\* A step that forgets a batch is one of those that may.
LEMMA ForgetStep ==
  ASSUME IInv, [Next]_vars, NEW n \in Namespaces, Forgotten(n)'
  PROVE  Forgotten(n) \/ Slips(n)
<1> SUFFICES ASSUME ~Forgotten(n), ~Slips(n) PROVE FALSE
  OBVIOUS
<1>1. TypeOK /\ RegistryInv /\ ConnectionsInv /\ ConnectionsInv'
  BY NextIInv DEF IInv
<1>2. dispatchedOn'[n] \in Sockets /\ ~OnItsWay(n)'
  BY DEF Forgotten
<1>3. CASE dispatchedOn[n] \notin Sockets
  BY <1>1, <1>2, <1>3, WaitBegins
<1>4. CASE dispatchedOn[n] \in Sockets
  <2>1. OnItsWay(n) /\ Waits(n)
    BY <1>2, <1>4 DEF Forgotten, Waits
  <2>2. ASSUME NEW i \in DOMAIN queue, Carries(queue[i], n) PROVE OnItsWay(n)'
    BY <1>1, <2>1, <2>2, QueuedStays DEF ConnectionsInv
  <2>3. ASSUME NEW c \in Clients, clientState[c] = "connected",
               NEW m \in awaitingAck[c], Carries(m, n)
        PROVE  OnItsWay(n)'
    BY <1>1, <2>1, <2>3, HeldStays
  <2>4. ASSUME NEW s \in Sockets, socketNamespace[s] = n,
               NEW i \in DOMAIN wire[s], current[n] \in wire[s][i].batchNumbers
        PROVE  OnItsWay(n)'
    BY <1>1, <2>1, <2>4, AnswerStays
  <2>5. ASSUME NEW s \in Sockets, socketNamespace[s] = n,
               NEW i \in DOMAIN incoming[s], incoming[s][i] = current[n]
        PROVE  OnItsWay(n)'
    BY <1>1, <2>1, <2>5, TransitStays
  <2> QED
    BY <1>2, <2>1, <2>2, <2>3, <2>4, <2>5 DEF OnItsWay
<1> QED
  BY <1>3, <1>4

\* EVMConnect is left waiting for a batch only by the steps that Slips names: whatever else
\* happens to clients, connections and the process, the batch stays in transit, queued, held
\* by a client that is connected, or answered on a connection that is open (handleAck,
\* handleDisconnect, send).
THEOREM OnlySlipsForget == Spec => ForgottenOnlyBySlips
<1>1. IInv /\ [Next]_vars =>
         [\A n \in Namespaces : Forgotten(n)' => Forgotten(n) \/ Slips(n)]_vars
  BY ForgetStep
<1> QED
  BY <1>1, Invariance, PTL DEF Spec, ForgottenOnlyBySlips

\* Every step of the proxy is a step of at-least-once delivery, or changes nothing
\* of what that specification describes.
LEMMA DeliveryRefined ==
  IInv /\ [Next]_vars => [Delivery!Next]_<<clientAcked, current>>
<1> SUFFICES ASSUME IInv, [Next]_vars
             PROVE  [Delivery!Next]_<<clientAcked, current>>
  OBVIOUS
<1>1. TypeOK /\ AckJustified /\ Reached
  BY DEF IInv
<1>2. CASE Advances
  <2>1. PICK n \in Namespaces : /\ <<n, current[n]>> \in clientAcked
                                /\ current' = [current EXCEPT ![n] = @ + 1]
    BY <1>2 DEF Advances
  <2>2. Delivery!Advance(n)
    BY <1>2, <2>1 DEF Advances, Delivery!Advance
  <2> QED
    BY <2>2 DEF Delivery!Next
<1>3. CASE Acknowledged
  <2>1. PICK c \in Clients : \E m \in awaitingAck[c] :
            clientAcked' = clientAcked \cup {<<m.namespace, m.batchNumber>>}
    BY <1>3 DEF Acknowledged
  <2>2. PICK m \in awaitingAck[c] :
            clientAcked' = clientAcked \cup {<<m.namespace, m.batchNumber>>}
    BY <2>1
  <2>3. m \in Message
    BY <1>1 DEF TypeOK
  <2>4. /\ m.namespace \in Namespaces
        /\ m.batchNumber \in 1..MaxBatch
        /\ m.batchNumber <= current[m.namespace]
    BY <1>1, <2>3 DEF Message, Batches, Reached
  <2>5. Delivery!ClientAcks(m.namespace, m.batchNumber)
    BY <1>3, <2>2, <2>4 DEF Acknowledged, Delivery!ClientAcks
  <2> QED
    BY <2>4, <2>5 DEF Delivery!Next
<1> QED
  BY <1>1, <1>2, <1>3, DeliveryStep

\* The proxy, with its registry, sockets, redeliveries and restarts, implements
\* in-order, at-least-once delivery.
THEOREM ProxyImplementsAtLeastOnce == Spec => ImplementsAtLeastOnce
<1>1. Init => Delivery!Init
  BY DEF Init, Delivery!Init
<1> QED
  BY <1>1, DeliveryRefined, Invariance, PTL
  DEF Spec, ImplementsAtLeastOnce, Delivery!Spec
=============================================================================
