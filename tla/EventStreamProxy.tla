--------------------------- MODULE EventStreamProxy ---------------------------
(***************************************************************************)
(* The event stream proxy (eventstream-proxy.base.ts) between the          *)
(* WebSocket clients of this connector and EVMConnect: it opens one        *)
(* EventStreamSocket per namespace, hands every batch it receives to one   *)
(* client of the namespace, and turns the client's ack, or its             *)
(* disconnection, into an ack or a nack upstream.                          *)
(*                                                                         *)
(* Node runs one callback at a time, so a step is the code between two     *)
(* awaits.  startListening is two steps around `await connect'.            *)
(* processEvents awaits too, but reads and writes nothing of this state    *)
(* before its send(), so a queued task is one step.                        *)
(*                                                                         *)
(* A Map of the code is a total function; a key that is absent has         *)
(* insertedAt = 0, no socket, or is outside `tracked'.                     *)
(***************************************************************************)
EXTENDS Integers, Sequences, FiniteSets, SocketOps

CONSTANTS
    Clients,       \* WebSocket connections; an id is never used again
    Namespaces,
    NoNamespace,   \* the namespace of a socket that does not exist yet
    Leavers,       \* the clients that may disconnect
    AcksInOrder,   \* clients acknowledge in the order they received
    LookupFails,   \* the subscription of an event may be unknown
    MaxBatch,      \* bound: batches per namespace
    MaxSockets,    \* bound: EventStreamSockets created
    MaxMessages,   \* bound: messages sent to clients
    MaxQueue,      \* bound: tasks queued at once
    MaxCrashes     \* bound: crashes of the process, besides those it causes itself

ASSUME ProxyAssumption ==
    /\ NoNamespace \notin Namespaces
    /\ Leavers \subseteq Clients
    /\ AcksInOrder \in BOOLEAN
    /\ LookupFails \in BOOLEAN
    /\ MaxBatch \in Nat /\ MaxSockets \in Nat /\ MaxMessages \in Nat
    /\ MaxQueue \in Nat /\ MaxCrashes \in Nat

VARIABLES
    clientState,       \* each client's connection to the proxy
    tracked,           \* the keys of awaitingAck
    awaitingAck,       \* messages each client has been sent and not acked
    namespaceClients,  \* the started clients of each namespace
    insertedAt,        \* insertion order of the keys of namespaceClients
    namespaceEventStreamSocket,
    starting,          \* startListening calls inside `await connect'
    queue,             \* the tasks chained on this.queue
    nextId,            \* uuidv4(): ids are never used twice
    created,           \* EventStreamSockets created so far
    sockets,           \* see SocketOps
    socketNamespace,
    wire,              \* acks and nacks sent and not yet received upstream
    incoming,          \* batches dispatched on each connection and not yet received
    current,           \* upstream: the batch each stream waits to complete
    dispatchedOn,      \* upstream: where that batch was dispatched
    crossed,           \* history: the namespaces of which a batch was dispatched while
                       \* an earlier one was in transit on another connection, since
                       \* the process started
    crashes,
    clientAcked        \* history: the batches some client has acknowledged

proxyVars == <<tracked, awaitingAck, namespaceClients, insertedAt,
               namespaceEventStreamSocket, starting, queue>>
socketVars == <<created, sockets, socketNamespace, wire, incoming>>
upstreamVars == <<current, dispatchedOn, crossed>>
vars == <<clientState, proxyVars, nextId, socketVars, upstreamVars, crashes,
          clientAcked>>

Sockets == 1..MaxSockets
Batches == 1..MaxBatch
Message == [id : 1..MaxMessages, namespace : Namespaces, batchNumber : Batches]
Task == [namespace : Namespaces, batchNumber : Batches]
\* The nacks of one disconnection are sent together, and are one record.
Control == [type : {"ack", "nack"}, batchNumbers : SUBSET Batches]

NotDispatched == 0   \* upstream may dispatch the current batch
Orphaned == -1       \* dispatched on a connection that is gone

TypeOK ==
    /\ clientState \in [Clients -> {"new", "connected", "gone"}]
    /\ tracked \subseteq Clients
    /\ awaitingAck \in [Clients -> SUBSET Message]
    /\ namespaceClients \in [Namespaces -> SUBSET Clients]
    /\ insertedAt \in [Namespaces -> 0..MaxSockets]
    /\ namespaceEventStreamSocket \in [Namespaces -> 0..MaxSockets]
    /\ starting \subseteq Clients \X Namespaces
    /\ queue \in Seq(Task)
    /\ nextId \in 1..MaxMessages + 1
    /\ created \in 0..MaxSockets
    /\ sockets \in [Sockets -> Socket]
    /\ socketNamespace \in [Sockets -> Namespaces \cup {NoNamespace}]
    /\ wire \in [Sockets -> Seq(Control)]
    /\ incoming \in [Sockets -> Seq(Batches)]
    /\ current \in [Namespaces -> 1..MaxBatch + 1]
    /\ dispatchedOn \in [Namespaces -> {NotDispatched, Orphaned} \cup Sockets]
    /\ crossed \subseteq Namespaces
    /\ crashes \in 0..MaxCrashes
    /\ clientAcked \subseteq Namespaces \X Batches

\* A socket that does not exist (any more): nothing ever happens on it.
Finished == [ws |-> "closed", flags |-> {"closeRequested"}]

Init ==
    /\ clientState = [c \in Clients |-> "new"]
    /\ tracked = {}
    /\ awaitingAck = [c \in Clients |-> {}]
    /\ namespaceClients = [n \in Namespaces |-> {}]
    /\ insertedAt = [n \in Namespaces |-> 0]
    /\ namespaceEventStreamSocket = [n \in Namespaces |-> 0]
    /\ starting = {}
    /\ queue = <<>>
    /\ nextId = 1
    /\ created = 0
    /\ sockets = [s \in Sockets |-> Finished]
    /\ socketNamespace = [s \in Sockets |-> NoNamespace]
    /\ wire = [s \in Sockets |-> <<>>]
    /\ incoming = [s \in Sockets |-> <<>>]
    /\ current = [n \in Namespaces |-> 1]
    /\ dispatchedOn = [n \in Namespaces |-> NotDispatched]
    /\ crossed = {}
    /\ crashes = 0
    /\ clientAcked = {}
-----------------------------------------------------------------------------
(* Clients connect and start namespaces *)

\* handleConnection
Connect(c) ==
    /\ clientState[c] = "new"
    /\ clientState' = [clientState EXCEPT ![c] = "connected"]
    /\ tracked' = tracked \cup {c}
    /\ awaitingAck' = [awaitingAck EXCEPT ![c] = {}]
    /\ UNCHANGED <<namespaceClients, insertedAt, namespaceEventStreamSocket,
                   starting, queue, nextId, socketVars, upstreamVars, crashes,
                   clientAcked>>

\* A start that replaces the set of clients (a mutation of AddClient).
SetClient(c, n) == namespaceClients' = [namespaceClients EXCEPT ![n] = {c}]

AddClient(c, n) ==
    namespaceClients' = [namespaceClients EXCEPT ![n] = @ \cup {c}]

\* 'start' for a namespace that has a socket: no await.
StartRegistered(c, n) ==
    /\ clientState[c] = "connected"
    /\ namespaceEventStreamSocket[n] # 0
    /\ AddClient(c, n)
    /\ UNCHANGED <<clientState, tracked, awaitingAck, insertedAt,
                   namespaceEventStreamSocket, starting, queue, nextId,
                   socketVars, upstreamVars, crashes, clientAcked>>

\* 'start' for a namespace that has none: up to `await connect'.
Start(c, n) ==
    /\ clientState[c] = "connected"
    /\ namespaceEventStreamSocket[n] = 0
    /\ <<c, n>> \notin starting
    /\ starting' = starting \cup {<<c, n>>}
    /\ UNCHANGED <<clientState, tracked, awaitingAck, namespaceClients, insertedAt,
                   namespaceEventStreamSocket, queue, nextId, socketVars,
                   upstreamVars, crashes, clientAcked>>

\* createOrUpdateStream succeeds: the socket is created and replaces any other one
\* of the namespace; the client is added whether or not it is still connected.
StartConnected(c, n) ==
    /\ <<c, n>> \in starting
    /\ created < MaxSockets
    /\ starting' = starting \ {<<c, n>>}
    /\ created' = created + 1
    /\ sockets' = [sockets EXCEPT ![created + 1] = Initialized]
    /\ socketNamespace' = [socketNamespace EXCEPT ![created + 1] = n]
    /\ namespaceEventStreamSocket' =
           [namespaceEventStreamSocket EXCEPT ![n] = created + 1]
    /\ AddClient(c, n)
    /\ insertedAt' = [insertedAt EXCEPT ![n] = IF @ = 0 THEN created + 1 ELSE @]
    /\ UNCHANGED <<clientState, tracked, awaitingAck, queue, nextId, wire, incoming,
                   upstreamVars, crashes, clientAcked>>

\* createOrUpdateStream throws: the error is only logged.
StartFailed(c, n) ==
    /\ <<c, n>> \in starting
    /\ starting' = starting \ {<<c, n>>}
    /\ UNCHANGED <<clientState, tracked, awaitingAck, namespaceClients, insertedAt,
                   namespaceEventStreamSocket, queue, nextId, socketVars,
                   upstreamVars, crashes, clientAcked>>
-----------------------------------------------------------------------------
(* Sockets *)

\* What EVMConnect dispatched on a connection that is gone is orphaned; what was on
\* its way on the connection, in either direction, is lost with it.
OrphanOn(S) ==
    dispatchedOn' = [n \in Namespaces |->
                        IF dispatchedOn[n] \in S THEN Orphaned ELSE dispatchedOn[n]]

SocketStep(s, next) ==
    /\ sockets' = [sockets EXCEPT ![s] = next]
    /\ UNCHANGED <<clientState, proxyVars, nextId, created, socketNamespace,
                   current, crossed, crashes, clientAcked>>

SocketOpens(s) ==
    /\ sockets[s].ws = "connecting"
    /\ SocketStep(s, Opened(sockets[s]))
    /\ UNCHANGED <<wire, incoming, dispatchedOn>>

\* The connection fails, or a ping timeout terminates it.
SocketLost(s) ==
    /\ Live(sockets[s])
    /\ SocketStep(s, Terminated(sockets[s]))
    /\ wire' = [wire EXCEPT ![s] = <<>>]
    /\ incoming' = [incoming EXCEPT ![s] = <<>>]
    /\ OrphanOn({s})

SocketOnClose(s) ==
    /\ sockets[s].ws = "closing"
    /\ SocketStep(s, AfterClose(sockets[s]))
    /\ UNCHANGED <<wire, incoming, dispatchedOn>>

SocketReconnects(s) ==
    /\ sockets[s].ws = "closed"
    /\ Reconnecting(sockets[s])
    /\ SocketStep(s, Initialized)
    /\ UNCHANGED <<wire, incoming, dispatchedOn>>
-----------------------------------------------------------------------------
(* EVMConnect *)

\* An earlier batch of the stream is still on its way on another connection, and may
\* arrive after what is dispatched on s.
Crosses(n, s) ==
    \E t \in Sockets \ {s} : /\ socketNamespace[t] = n
                            /\ \E i \in DOMAIN incoming[t] : incoming[t][i] # current[n]

\* The current batch is dispatched on an open connection of its stream.
UpstreamDispatches(s) ==
    \E n \in Namespaces :
        /\ socketNamespace[s] = n
        /\ sockets[s].ws = "open"
        /\ dispatchedOn[n] = NotDispatched
        /\ current[n] <= MaxBatch
        /\ Len(incoming[s]) < MaxQueue
        /\ dispatchedOn' = [dispatchedOn EXCEPT ![n] = s]
        /\ incoming' = [incoming EXCEPT ![s] = Append(@, current[n])]
        /\ crossed' = IF Crosses(n, s) THEN crossed \cup {n} ELSE crossed
        /\ UNCHANGED <<clientState, proxyVars, nextId, created, sockets,
                       socketNamespace, wire, current, crashes, clientAcked>>

\* An ack or a nack arrives, on any connection of the stream; EVMConnect ignores
\* one that does not name the batch it is waiting for.
UpstreamReceives(s) ==
    /\ wire[s] # <<>>
    /\ wire' = [wire EXCEPT ![s] = Tail(@)]
    /\ \E n \in Namespaces :
        /\ socketNamespace[s] = n
        /\ LET answers == /\ dispatchedOn[n] # NotDispatched
                          /\ current[n] \in Head(wire[s]).batchNumbers
           IN  /\ current' = IF answers /\ Head(wire[s]).type = "ack"
                             THEN [current EXCEPT ![n] = @ + 1]
                             ELSE current
               /\ dispatchedOn' = IF answers
                                  THEN [dispatchedOn EXCEPT ![n] = NotDispatched]
                                  ELSE dispatchedOn
    /\ UNCHANGED <<clientState, proxyVars, nextId, created, sockets,
                   socketNamespace, incoming, crossed, crashes, clientAcked>>

\* EVMConnect notices that the connection is gone, and will dispatch again.
UpstreamNoticesLoss(n) ==
    /\ dispatchedOn[n] = Orphaned
    /\ dispatchedOn' = [dispatchedOn EXCEPT ![n] = NotDispatched]
    /\ UNCHANGED <<clientState, proxyVars, nextId, socketVars, current, crossed,
                   crashes, clientAcked>>
-----------------------------------------------------------------------------
(* Batches *)

\* queueTask, and a mutation that runs the newest task first.
PushTask(task) == queue' = <<task>> \o queue
QueueTask(task) == queue' = Append(queue, task)

\* The 'message' event of a connection: handleMessage calls the callback that
\* startListening gave for the namespace, which queues a task.
BatchArrives(s) ==
    \E n \in Namespaces :
        /\ socketNamespace[s] = n
        /\ incoming[s] # <<>>
        /\ Len(queue) < MaxQueue
        /\ incoming' = [incoming EXCEPT ![s] = Tail(@)]
        /\ QueueTask([namespace |-> n, batchNumber |-> Head(incoming[s])])
        /\ UNCHANGED <<clientState, tracked, awaitingAck, namespaceClients,
                       insertedAt, namespaceEventStreamSocket, starting, nextId,
                       created, sockets, socketNamespace, wire, upstreamVars,
                       crashes, clientAcked>>

\* send() records the message only if the selected client is tracked.
Send(c, message) ==
    awaitingAck' = IF c \in tracked
                   THEN [awaitingAck EXCEPT ![c] = @ \cup {message}]
                   ELSE awaitingAck

\* The task at the head of the queue ends in send(), which picks any client of the
\* namespace.
SendBatch(c) ==
    /\ queue # <<>>
    /\ nextId <= MaxMessages
    /\ LET task == Head(queue)
           message == [id |-> nextId, namespace |-> task.namespace,
                       batchNumber |-> task.batchNumber]
       IN  /\ c \in namespaceClients[task.namespace]
           /\ Send(c, message)
    /\ queue' = Tail(queue)
    /\ nextId' = nextId + 1
    /\ UNCHANGED <<clientState, tracked, namespaceClients, insertedAt,
                   namespaceEventStreamSocket, starting, socketVars,
                   upstreamVars, crashes, clientAcked>>

\* processEvents returns at an unknown subscription, or send() finds no client:
\* the batch is neither sent nor nacked.
DropBatch ==
    /\ queue # <<>>
    /\ LookupFails \/ namespaceClients[Head(queue).namespace] = {}
    /\ queue' = Tail(queue)
    /\ UNCHANGED <<clientState, tracked, awaitingAck, namespaceClients, insertedAt,
                   namespaceEventStreamSocket, starting, nextId, socketVars,
                   upstreamVars, crashes, clientAcked>>
-----------------------------------------------------------------------------
(* Acks, disconnections, crashes *)

\* The process exits and is started again: everything but EVMConnect is lost.
\* crashes' and clientAcked' are left to the caller.
Restart ==
    /\ clientState' = [c \in Clients |-> IF clientState[c] = "new" THEN "new"
                                         ELSE "gone"]
    /\ tracked' = {}
    /\ awaitingAck' = [c \in Clients |-> {}]
    /\ namespaceClients' = [n \in Namespaces |-> {}]
    /\ insertedAt' = [n \in Namespaces |-> 0]
    /\ namespaceEventStreamSocket' = [n \in Namespaces |-> 0]
    /\ starting' = {}
    /\ queue' = <<>>
    /\ sockets' = [s \in Sockets |-> Finished]
    /\ wire' = [s \in Sockets |-> <<>>]
    /\ incoming' = [s \in Sockets |-> <<>>]
    /\ OrphanOn(Sockets)
    /\ crossed' = {}
    /\ UNCHANGED <<nextId, created, socketNamespace, current>>

Crash ==
    /\ crashes < MaxCrashes
    /\ crashes' = crashes + 1
    /\ Restart
    /\ UNCHANGED clientAcked

\* produce() on a WebSocket that is still connecting throws; nothing catches it and
\* the process exits.
ProduceThrows(s) == s # 0 /\ sockets[s].ws = "connecting"

\* produce() on an open WebSocket; a closing or closed one drops the message.
Produced(s, message) ==
    IF s # 0 /\ sockets[s].ws = "open"
    THEN [wire EXCEPT ![s] = Append(@, message)]
    ELSE wire

\* ack() and nack(), and mutations of them: an ack that loses its number, an ack
\* that names no batch and so answers any, and a nack sent as an ack.
AckUndefined(m) == [type |-> "ack", batchNumbers |-> {0}]
AckAny(m) == [type |-> "ack", batchNumbers |-> Batches]
AckMessage(m) == [type |-> "ack", batchNumbers |-> {m.batchNumber}]
NackAsAck(ms) == [type |-> "ack", batchNumbers |-> {m.batchNumber : m \in ms}]
NackMessage(ms) == [type |-> "nack", batchNumbers |-> {m.batchNumber : m \in ms}]

\* The condition of handleAck, after the message has been removed: nothing is left
\* for this client.  (Its second disjunct negates an array, which is never false.)
BatchComplete(left, message) == left = {}

OldestFirst(c, m) == AcksInOrder => \A o \in awaitingAck[c] : m.id <= o.id

\* handleAck, for a message this client holds.
Ack(c, m) ==
    /\ clientState[c] = "connected"
    /\ m \in awaitingAck[c]
    /\ OldestFirst(c, m)
    /\ LET left == awaitingAck[c] \ {m}
           s == namespaceEventStreamSocket[m.namespace]
       IN  /\ ~(BatchComplete(left, m) /\ ProduceThrows(s))
           /\ awaitingAck' = [awaitingAck EXCEPT ![c] = left]
           /\ wire' = IF BatchComplete(left, m)
                      THEN Produced(s, AckMessage(m))
                      ELSE wire
    /\ clientAcked' = clientAcked \cup {<<m.namespace, m.batchNumber>>}
    /\ UNCHANGED <<clientState, tracked, namespaceClients, insertedAt,
                   namespaceEventStreamSocket, starting, queue, nextId, created,
                   sockets, socketNamespace, incoming, upstreamVars, crashes>>

AckThrows(c, m) ==
    /\ clientState[c] = "connected"
    /\ m \in awaitingAck[c]
    /\ OldestFirst(c, m)
    /\ BatchComplete(awaitingAck[c] \ {m}, m)
    /\ ProduceThrows(namespaceEventStreamSocket[m.namespace])
    /\ clientAcked' = clientAcked \cup {<<m.namespace, m.batchNumber>>}
    /\ Restart
    /\ UNCHANGED crashes

Registered == {n \in Namespaces : insertedAt[n] # 0}

\* A handleDisconnect that nacks nothing (a mutation of Nacked).
NothingNacked(c) == {}

\* handleDisconnect deletes the client's list inside its loop over the namespaces,
\* so only the messages of the first one are nacked.
Nacked(c) ==
    {m \in awaitingAck[c] :
        \A n \in Registered : insertedAt[m.namespace] <= insertedAt[n]}

\* The namespaces whose last client c is (a mutation closes none of them).
NothingAbandoned(c) == {}
Abandons(c) == {n \in Registered : namespaceClients[n] \subseteq {c}}

Disconnect(c) ==
    /\ c \in Leavers
    /\ clientState[c] = "connected"
    /\ clientState' = [clientState EXCEPT ![c] = "gone"]
    /\ \A m \in Nacked(c) :
          ~ProduceThrows(namespaceEventStreamSocket[m.namespace])
    /\ namespaceClients' = [n \in Namespaces |-> namespaceClients[n] \ {c}]
    /\ IF Registered = {}
       THEN UNCHANGED <<tracked, awaitingAck>>
       ELSE /\ tracked' = tracked \ {c}
            /\ awaitingAck' = [awaitingAck EXCEPT ![c] = {}]
    /\ LET closed == {namespaceEventStreamSocket[n] : n \in Abandons(c)}
           nacks(s) == {m \in Nacked(c) :
                            namespaceEventStreamSocket[m.namespace] = s}
       IN  /\ sockets' = [s \in Sockets |->
                             IF s \in closed THEN CloseRequested(sockets[s])
                             ELSE sockets[s]]
           /\ wire' = [s \in Sockets |->
                          IF s \in closed THEN <<>>
                          ELSE IF nacks(s) # {} /\ sockets[s].ws = "open"
                          THEN Append(wire[s], NackMessage(nacks(s)))
                          ELSE wire[s]]
           /\ incoming' = [s \in Sockets |-> IF s \in closed THEN <<>> ELSE incoming[s]]
           /\ OrphanOn(closed)
    /\ insertedAt' =
           [n \in Namespaces |-> IF n \in Abandons(c) THEN 0 ELSE insertedAt[n]]
    /\ namespaceEventStreamSocket' =
           [n \in Namespaces |-> IF n \in Abandons(c) THEN 0
                                 ELSE namespaceEventStreamSocket[n]]
    /\ UNCHANGED <<starting, queue, nextId, created, socketNamespace, current,
                   crossed, crashes, clientAcked>>

DisconnectThrows(c) ==
    /\ c \in Leavers
    /\ clientState[c] = "connected"
    /\ \E m \in Nacked(c) :
          ProduceThrows(namespaceEventStreamSocket[m.namespace])
    /\ Restart
    /\ UNCHANGED <<crashes, clientAcked>>
-----------------------------------------------------------------------------
ClientStep(c) ==
    \/ Connect(c)
    \/ Disconnect(c)
    \/ DisconnectThrows(c)
    \/ SendBatch(c)
    \/ \E n \in Namespaces : \/ StartRegistered(c, n)
                             \/ Start(c, n)
                             \/ StartConnected(c, n)
                             \/ StartFailed(c, n)
    \/ \E m \in awaitingAck[c] : Ack(c, m) \/ AckThrows(c, m)

SocketEvent(s) ==
    \/ SocketOpens(s)
    \/ SocketLost(s)
    \/ SocketOnClose(s)
    \/ SocketReconnects(s)
    \/ UpstreamDispatches(s)
    \/ BatchArrives(s)
    \/ UpstreamReceives(s)

Next ==
    \/ \E c \in Clients : ClientStep(c)
    \/ \E s \in Sockets : SocketEvent(s)
    \/ \E n \in Namespaces : UpstreamNoticesLoss(n)
    \/ DropBatch
    \/ Crash

Spec == Init /\ [][Next]_vars

(* Fairness: Node runs every queued task, socket event and timer; EVMConnect accepts
   connections, dispatches and reads, and what is sent on a connection arrives.  What
   clients do is left to ClientHeartbeat. *)
Fairness ==
    /\ \A s \in Sockets : /\ WF_vars(SocketOpens(s) \/ SocketOnClose(s) \/ SocketReconnects(s))
                          /\ WF_vars(UpstreamDispatches(s))
                          /\ WF_vars(BatchArrives(s))
                          /\ WF_vars(UpstreamReceives(s))
    /\ \A n \in Namespaces : WF_vars(UpstreamNoticesLoss(n))
    /\ WF_vars(\E c \in Clients : SendBatch(c))
-----------------------------------------------------------------------------
(* Safety *)

\* The three views of a started namespace agree: it has a socket of its own exactly
\* when it has a key in the client map, and then at least one client, whatever
\* starts, disconnections and restarts interleave (startListening,
\* handleDisconnect).
RegistryConsistent ==
    \A n \in Namespaces :
        /\ namespaceEventStreamSocket[n] # 0 <=> insertedAt[n] # 0
        /\ namespaceEventStreamSocket[n] # 0 <=> namespaceClients[n] # {}
        /\ namespaceEventStreamSocket[n] # 0 =>
               socketNamespace[namespaceEventStreamSocket[n]] = n

\* Whoever holds a message is a client of its namespace, so its ack or its
\* disconnection always finds the socket to answer on (handleAck,
\* handleDisconnect).
HolderIsClient ==
    \A c \in Clients : \A m \in awaitingAck[c] : c \in namespaceClients[m.namespace]

\* EVMConnect never moves past a batch that no client acknowledged, whatever
\* messages, sockets and processes are lost in between (handleAck).
NoBatchSkipped ==
    \A n \in Namespaces : \A b \in Batches :
        b < current[n] => <<n, b>> \in clientAcked

\* Batches of a namespace are handed out in order: of two messages in flight for it,
\* the later one never carries an earlier batch, although copies of a redelivered
\* batch, from several connections, wait in the same queue; unless a batch was
\* dispatched while an earlier one was in transit on another connection, which only a
\* leaked one can be, and overtook it (handleMessage, queueTask).
HandedOutInOrder ==
    \A c, d \in Clients : \A m \in awaitingAck[c], o \in awaitingAck[d] :
        /\ m.namespace = o.namespace /\ m.namespace \notin crossed
        /\ m.id < o.id
        => m.batchNumber <= o.batchNumber

\* Batches of a namespace are handed out one at a time, unless they crossed as above:
\* when a message is sent, clients have acknowledged every batch before its own, and none
\* after it.  So a batch that is redelivered, however late its copies arrive and leave the
\* queue, is the one before the current one at the earliest (processEvents, queueTask).
OneBatchAtATime ==
    [][\A c \in Clients : \A m \in awaitingAck'[c] \ awaitingAck[c] : \A b \in Batches :
          /\ b < m.batchNumber => <<m.namespace, b>> \in clientAcked
          /\ b > m.batchNumber /\ m.namespace \notin crossed =>
                <<m.namespace, b>> \notin clientAcked]_vars

\* A socket that has a connection, or will connect, beside the registered one of its
\* namespace: nothing but the end of the process ever closes it.
Persists(s) ==
    \/ Live(sockets[s]) \/ Reconnecting(sockets[s])
    \/ sockets[s].ws = "closing" /\ "closeRequested" \notin sockets[s].flags
Leaked(s) == Persists(s) /\ namespaceEventStreamSocket[socketNamespace[s]] # s

\* Two races leak a socket, and nothing else does: a start that began while the namespace
\* had none replaces the socket of another start, and a close() is undone by a reconnection
\* that is pending (startListening, handleDisconnect, close, init).
LeakedOnlyByRaces ==
    [][\A s \in Sockets : Leaked(s)' =>
          \/ Leaked(s)
          \/ \E c \in Clients, n \in Namespaces :
                StartConnected(c, n) /\ namespaceEventStreamSocket[n] = s
          \/ \E c \in Clients : Disconnect(c) /\ Reconnecting(sockets[s])]_vars

\* The proxy implements at-least-once, in-order delivery.
Delivery == INSTANCE AtLeastOnce WITH acked <- clientAcked
ImplementsAtLeastOnce == Delivery!Spec

(* Liveness *)

\* Clients may come and go, connections may be lost and the process may crash: if
\* that ends, and clients acknowledge in the order they received, every batch
\* EVMConnect has is completed (or the bound on messages is reached).  Premises: no
\* connection is lost for ever; the namespace ends up with connected clients and
\* no other; and no socket is leaked (LeakedOnlyByRaces).
NothingLost ==
    \A s \in Sockets : ~(Live(sockets[s]) /\ sockets'[s].ws = "closing")
Serviced(n) ==
    /\ namespaceClients[n] # {}
    /\ \A c \in namespaceClients[n] : clientState[c] = "connected"
NoLeakedSocket == \A s \in Sockets : ~Leaked(s)
AllBatchesCompleted ==
    <>[][NothingLost]_vars /\ []NoLeakedSocket =>
        \A n \in Namespaces :
            <>[]Serviced(n) => <>(current[n] > MaxBatch \/ nextId > MaxMessages)

\* The batch that a stream waits for is on its way: in transit, in a task that is
\* queued, with a client that can still acknowledge it, or in an answer to EVMConnect.
\* It is forgotten when it is nowhere, and EVMConnect does not know.
Carries(m, n) == m.namespace = n /\ m.batchNumber = current[n]
OnItsWay(n) ==
    \/ \E i \in DOMAIN queue : Carries(queue[i], n)
    \/ \E c \in Clients : /\ clientState[c] = "connected"
                          /\ \E m \in awaitingAck[c] : Carries(m, n)
    \/ \E s \in Sockets :
          /\ socketNamespace[s] = n
          /\ \/ \E i \in DOMAIN incoming[s] : incoming[s][i] = current[n]
             \/ \E i \in DOMAIN wire[s] : current[n] \in wire[s][i].batchNumbers
Forgotten(n) == dispatchedOn[n] \in Sockets /\ ~OnItsWay(n)

Leaves(c) == clientState[c] = "connected" /\ clientState'[c] = "gone"
Acknowledges(c, m) ==
    m \in awaitingAck[c] /\ clientState'[c] = "connected" /\ m \notin awaitingAck'[c]

\* A stream is left waiting only when another connection of it than the one it waits on is
\* lost; when a client acknowledges the batch, or leaves, while the registered socket is not
\* open; when the batch is dropped or sent to a client that has gone; when an ack is swallowed
\* because the client holds something else; or when the client leaves while an older
\* namespace is registered.  Nothing else that happens to connections, clients and the
\* process forgets a batch (handleAck, handleDisconnect, send).
LosesOther(n) ==
    \E s \in Sockets \ {dispatchedOn[n]} : /\ socketNamespace[s] = n
                                          /\ sockets[s].ws = "open"
                                          /\ sockets'[s].ws # "open"
AnswersNobody(n) ==
    /\ \E c \in Clients : \E m \in awaitingAck[c] :
          Carries(m, n) /\ (Acknowledges(c, m) \/ Leaves(c))
    /\ sockets[namespaceEventStreamSocket[n]].ws # "open"
Slips(n) ==
    \/ LosesOther(n)
    \/ AnswersNobody(n)
    \/ DropBatch /\ Carries(Head(queue), n)
    \/ \E c \in Clients : clientState[c] # "connected" /\ SendBatch(c) /\ Carries(Head(queue), n)
    \/ \E c \in Clients : \E m \in awaitingAck[c] :
          Acknowledges(c, m) /\ Carries(m, n) /\ awaitingAck'[c] # {}
    \/ \E c \in Clients : \E m \in awaitingAck[c] : \E k \in Namespaces :
          Leaves(c) /\ Carries(m, n) /\ insertedAt[k] \in 1..insertedAt[n] - 1
ForgottenOnlyBySlips ==
    [][\A n \in Namespaces : Forgotten(n)' => Forgotten(n) \/ Slips(n)]_vars

(* What the comments of the code say *)

\* "Nack any messages that are inflight for that namespace"
\* (eventstream-proxy.base.ts:142): when a client that holds messages disconnects,
\* each of them is nacked on the open socket of its namespace, or that socket is
\* closed.
NackedOrClosed(m) ==
    LET s == namespaceEventStreamSocket[m.namespace]
    IN  \/ sockets[s].ws # "open" \/ sockets'[s].ws # "open"
        \/ \E i \in DOMAIN wire'[s] : /\ wire'[s][i].type = "nack"
                                      /\ m.batchNumber \in wire'[s][i].batchNumbers
InflightNackedOnDisconnect ==
    [][\A c \in Clients : Leaves(c) => \A m \in awaitingAck[c] : NackedOrClosed(m)]_vars

\* "we can only ack if there are no other messages in-flight with the same batch
\* number" (eventstream-proxy.base.ts:244): when a client acknowledges a message
\* and holds no other of its batch number, the ack is passed on, if the socket of
\* the namespace is open.
PassedOn(m) ==
    LET s == namespaceEventStreamSocket[m.namespace]
    IN  sockets[s].ws = "open" =>
            \E i \in DOMAIN wire'[s] : /\ wire'[s][i].type = "ack"
                                      /\ m.batchNumber \in wire'[s][i].batchNumbers
CompleteBatchAcked ==
    [][\A c \in Clients : \A m \in awaitingAck[c] :
          /\ Acknowledges(c, m)
          /\ \A o \in awaitingAck'[c] : o.batchNumber # m.batchNumber
          => PassedOn(m)]_vars

\* "If all clients for this namespace have disconnected, also close the connection
\* to EVMConnect" (eventstream-proxy.base.ts:153): a namespace keeps a socket only
\* while a client of it is connected.
NoSocketWithoutClients ==
    \A n \in Namespaces :
        namespaceEventStreamSocket[n] # 0 =>
            \E c \in namespaceClients[n] : clientState[c] = "connected"
=============================================================================
