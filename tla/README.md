# Verification of the FireFly ERC-20/ERC-721 tokens connector

TLA+ models, model-checking runs and machine-checked proofs for the connector in
`src/`. Every definition follows the code; the `map` of `PROJECT.json` gives the
lines each one stands for.

## The system

The connector sits between FireFly and EVMConnect. FireFly calls its REST API to
create, activate and deactivate token pools and to mint, transfer, burn and approve
tokens; it also opens WebSockets on `/api/ws`, starts namespaces on them, and
receives batches of token events, each of which it acknowledges. EVMConnect holds
one event stream per namespace and one subscription (listener) per event of a pool,
dispatches the events in numbered batches over a WebSocket per namespace, and moves
to the next batch when the current one is acknowledged.

| component | source | state | operations | hard behaviour |
| --- | --- | --- | --- | --- |
| EventStreamSocket | `event-stream.service.ts` | WebSocket, `closeRequested`, reconnection and ping timers | open, close, pong, timers, `ack`, `nack`, `close()` | timers of an old connection acting on a new one; close during a reconnection wait |
| Event stream proxy | `eventstream-proxy.base.ts` | clients and socket of each namespace, unacknowledged messages, task queue | `start`, `ack`, connect, disconnect, batch | starts interleaved over an await; redelivery; lost acks; two connections of one stream; process exit; partial nacks |
| Provisioning | `event-stream.service.ts`, `tokens.service.ts` | stream cache; streams and subscriptions in EVMConnect | `getStream`, `createOrUpdateStream`, `getOrCreateSubscription`, `deleteSubscriptionByName`, activate, deactivate, create | list-then-create races; lost answers and retries; tasks that outlive their request |
| Event enrichment | `eventstream-proxy.base.ts`, `tokens.listener.ts` | promises of the current batch, subscription names | `processEvents`, `onEvent` | order of concurrent handlers; rejections nobody awaits yet |
| Blockchain client | `blockchain.service.ts` | retry counter | `query`, `sendTransaction`, `getReceipt` | retry of what was already done; bounds of the loop |
| Interface detection | `abimapper.service.ts` | LRU cache of answers | `supportsInterface`, `getTokenSchema`, `getAbi` | a failure cached as an answer |
| Token operations | `tokens.service.ts`, `erc20.ts`, `erc721.ts` | none | method selection, parameter mapping | order of signatures; checks inside a mapping |
| Client heartbeat | `websocket-events.base.ts` | `isAlive` of each client | ping interval, pong, terminate | a slow client against a dead one |

Node runs one callback at a time, so the atomic step everywhere is the code between
two awaits; what interleaves are callbacks, timers, requests at their awaits, and
the two peers.

## The modules

* `SocketOps`: the transitions of one socket its owner can see, as operators on a
  record. `SocketLifecycle` is the specification made of them.
* `EventStreamSocket`: the socket with its timers. One action per event handler,
  timer callback and method; `abandoned` and `pingDue` count the armed timers that no
  field of the class holds. It implements `SocketLifecycle` (`OwnerView` is the
  refinement mapping).
* `AtLeastOnce`: what the proxy promises, over only the acknowledged batches and the
  batch each stream waits for.
* `EventStreamProxy`: the proxy with its sockets (`SocketOps` records), the clients,
  and EVMConnect as the code uses it. `startListening` is two steps around its await
  (`Start`, then `StartConnected` or `StartFailed`); every other handler is one. Each
  connection carries messages both ways, in order: `incoming` holds the batches that
  EVMConnect dispatched on it (`UpstreamDispatches`) and that have not arrived
  (`BatchArrives`: `handleMessage`, and the task that its callback queues), `wire` the acks
  and nacks. Between two connections nothing is ordered. What is on its way is lost with
  the connection (`terminate()` destroys the socket); what arrives before that is a step of
  its own. A second connection of one namespace exists when a start replaces the socket of
  another start (`StartConnected`; nothing closes the first one) or when a close is undone.
  The history variable `crossed` holds the namespaces of which a batch was dispatched while
  an earlier one was still in transit on another connection (`Crosses`). An
  exception that nothing catches (`AckThrows`, `DisconnectThrows`) and any other end
  of the process is a `Restart`, which loses everything but EVMConnect. It implements
  `AtLeastOnce`.
* `ClientHeartbeat`: the server's ping interval superimposed on the proxy. A client may
  vanish without closing its connection (`link` becomes "lost"), and keeps its messages
  until `Ping` terminates the connection and the proxy's `Disconnect` runs. Every step of
  `EventStreamProxy` is a step here; `Accepted` says what it does to the fields of the
  server (`isAlive`, and the pongs on their way).
* `PoolListeners`: the requests that provision EVMConnect. One step per HTTP call;
  each call succeeds, fails without effect, or fails after its effect (its answer is
  lost). The calls for the events of one request are tasks of their own, which run on
  after `Promise.all` has rejected.
* `TokenNames`: how pool locators and the names of subscriptions are packed and unpacked,
  with what URL encoding and the separator do to their parts.
* `TokenListener`: what `onEvent` makes of an event, as operators, and what events and
  messages mean: `ChainStep` is the ledger of the contracts, `ReaderStep` the ledger
  that a reader of the messages keeps. An event is told under the id that its place in
  the chain gives it, and of the pool that the name of its subscription unpacks to.
* `EventBatches`: `processEvents` on one batch at a time, any of which may be delivered
  again; the reader ignores the ids it knows. The loop over the events with its lookups,
  the promises of the handlers, the loop that awaits them, the message.
  `Proceed` is what runs after each answer, up to the next await; `Unhandled` says
  when Node finds a rejection that nothing awaits.
* `TokenMethods`: the lists of methods of `erc20.ts` and `erc721.ts`, the ABIs, and the
  selection of a method and its arguments; `Meaning` and `Asked` say, independently of
  the lists, what a call does and what an operation asks for.
* `TokenRequests`: the requests about one contract or factory: interface queries with
  their cache, the pool queries, and the transaction with its retries against an
  EVMConnect that may have taken what it did not answer.
* `MCEventStreamProxy`, `MCClientHeartbeat`, `MCPoolListeners`, `MCEventBatches`,
  `MCTokenRequests`: constants for TLC.
* `EventStreamSocketProofs`, `EventStreamProxyProofs`, `ClientHeartbeatProofs`,
  `PoolListenersProofs`, `TokenListenerProofs`, `EventBatchesProofs`,
  `TokenMethodsProofs`, `TokenRequestsProofs`: the theorems, each beside the module of its name.

An operator described as `a mutation of X` is a plausible bug in X; no specification
uses it. It shows that a property can fail.

## The runs

| run | question | bounds |
| --- | --- | --- |
| `socket` | are reconnection and heartbeat safe and live, and does the socket implement its life cycle? | 3 connections, 2 abandoned timeouts: an old timer can meet a new connection twice |
| `socket_closed` | violated: does `close()` last? | same |
| `proxy_delivery` | are batches delivered in order and at least once, and do the maps of the proxy agree, and when is EVMConnect left waiting for a batch that is nowhere? | 2 clients, 1 namespace, 2 batches, 3 sockets, 3 messages, 2 batches in transit or queued, 1 crash (724,180 states): a batch can be redelivered while its first copy is in transit, queued or held, on the same connection or on a second one, and be overtaken there by the next batch |
| `clients` | does the heartbeat terminate who vanished and only who is silent, and is every batch completed in the end? | 2 clients, one of which may leave or vanish, 1 namespace, 1 batch, 2 sockets, 3 messages, 1 batch in transit and 1 queued task; no crash (107,462 states): a batch held by the vanished client is nacked, redelivered and completed by the other |
| `proxy_nacks`, `proxy_acks`, `proxy_closes` | violated: what three comments of the code say | as small as the counterexample allows |
| `pools` | do answered activations and deactivations do what they say, do retries duplicate anything, is a stream in use ever purged? | any 3 of 2 activations, 1 creation, 1 deactivation and 1 connection of the proxy; 2 events, 1 failed call, 1 restart |
| `pool_leftover` | violated: is a deactivated pool silent? | 1 activation, 1 deactivation |
| `batches` | do the messages add up to what happened on the contracts, one event at a time, and does every batch end, never waiting for what nobody settles? | 3 events in all, in any batches, of an ERC-20 pool with a deprecated locator, an ERC-721 pool with data, a factory and a subscription of somebody else; every batch may be delivered again, any number of times; 1 unanswered call of a batch given up, 1 exit: two handlers of a batch, or of two deliveries, overlap, and a third event depends on both |
| `batch_exits` | violated: is a failing handler only logged? | 1 batch of 2 events |
| `requests` | is the right method called with the right arguments, are answers true, and does every step bring its request closer to one? | 11 contracts; one request for any of 17 operations (with and without id and interface), one that creates a pool or mints; 1 retry |

Deadlock is not checked: all of these systems stop when their bounds are used up or
nobody asks for anything.

### Properties

The socket: exactly one reconnection is pending when one is due
(`ReconnectScheduledOnce`); an open connection always has a heartbeat pending
(`Watched`), at most one per connection made (`PingLoopsBounded`); until the first
reconnection only a silent peer is timed out (`FirstConnectionTimesOutOnlySilence`;
after it an abandoned timeout may terminate a healthy connection, which is why the
property stops there); a vanished peer is detected (`HalfOpenDetected`) and a lost
connection replaced (`Reconnects`).

The proxy: EVMConnect never moves past a batch nobody acknowledged
(`NoBatchSkipped`); who holds a message stays registered for its namespace
(`HolderIsClient`); the maps agree (`RegistryConsistent`). Batches of a namespace are
handed out in order (`HandedOutInOrder`), and when a message is sent, clients have
acknowledged every batch before its own and none after it (`OneBatchAtATime`): this is what
`EventBatches` takes for granted of the batches that reach it.

The order of batches has a premise: no batch of the namespace was dispatched while an
earlier one was in transit on another connection (`crossed`). It is needed. The proxy can
have two open connections of a namespace, a leaked one and the registered one. A batch that
a client holds is dispatched again on the leaked one; the client acknowledges its first copy
through the registered one; the next batch comes there, and is queued before the late copy.
Then the later batch is handed out first, and the earlier one after it was acknowledged:
without the premise TLC finds these in 25 and 26 states of `proxy_delivery`. The code does
this; no comment or document of the repository denies it, so it is no finding. The first
half of `OneBatchAtATime` (nothing is sent before the batches before it are acknowledged)
needs no premise, nor do `NoBatchSkipped` and `AtLeastOnce`, which are about completion.

How a second connection comes about is a property of its own (`LeakedOnlyByRaces`): a start
that began while the namespace had none replaces the socket of another start, or a close is
undone by a reconnection that is pending. Whatever else opens, closes, starts, leaves and
crashes leaves each namespace with at most its registered connection, on which batches
stay in order.

The batch that a stream waits for is in transit, queued, held by a client that is connected,
or answered on the way to EVMConnect, and stays so through everything but six steps
(`ForgottenOnlyBySlips`). Another connection of the stream than the one it waits on is lost;
a client acknowledges the batch, or leaves, while the registered socket is not open;
`processEvents` drops the batch; it goes to a client that has left; its ack is swallowed
because the client holds something else; the client leaves while an older namespace is
registered. The last two are the findings of `proxy_acks` and `proxy_nacks`; the last takes
two namespaces, so `proxy_delivery` does not reach it, and the theorem alone covers it.

The heartbeat: a client that vanished is terminated by the second tick at the latest, late
pongs included (`VanishedWithinTwoTicks`), and disconnected in the end
(`VanishedDisconnected`); one that is there is only terminated while its pong is due
(`OnlyUnansweredTerminated`: a pong that is late by a whole interval does not save it).
Together with the proxy, every batch is completed, even one that a client took with it
(`AllBatchesCompleted`).

Provisioning: a purge never hits a stream in use (`StreamsKept`); one request at a
time, nothing is ever duplicated (`RetriesNeverDuplicate`); an answered activation
has all its listeners unless a deactivation ran beside it (`ActivationComplete`), and
an answered deactivation leaves none unless an activation ran beside it or two of them
ran beside each other (`DeactivationComplete`: two overlapping activations may make two
listeners of one name, of which a deactivation deletes one).

Events: between batches, the reader of the messages has the contracts' ledger, whatever
the order in which calls were answered and however often batches were delivered, but
for pools whose decimals could not be read (`LedgerFollowed`): this fails when an event
is left out, told under an id that another event has or under two ids, told wrongly, of
the wrong pool or out of order. Each message that is read moves the reader from the
ledger before one event to the ledger after it (`ReaderFollows`: it is never ahead,
back or beside the chain, even in the middle of a redelivered batch). A batch with one
event never ends the process (`LoneFailureContained`), and every batch ends (`TaskEnds`),
so that the queue shared by all namespaces moves on. Two safety properties say why it
ends: a batch at work has a call that can still be answered (`AnswerAwaited`), and each
answer brings the promise of some event closer to its end and takes none back
(`PromisesAdvance`).

Requests: only a failed query makes the connector believe something false of a
contract (`OnlyFailuresMislead`), and without one it calls methods that the contract
has (`MethodOnContract`); what a call does is what was asked (`DoesWhatWasAsked`); the
answer of `checkInterface` is enough for later operations (`InterfaceSuffices`);
answers tell what became of the transaction (`AnswersTruthful`), and there always is
one (`AllAnswered`), because each step of a request, whatever failed, brings it closer
(`AnswerNears`).

### Fairness

`EventStreamSocket`: weak fairness of the timers and of the 'close' event, which Node
and the ws library deliver; none of the peer. `EventStreamProxy`: weak fairness of
socket events, queued tasks, EVMConnect's dispatch and reads, and the arrival of what is
in transit on a connection that stays (`BatchArrives`; that of the socket's own events is one
condition, because at most one of opening, 'close' and reconnection is enabled); nothing is
asked of clients. `ClientHeartbeat` adds what the server and the clients do: the interval of
`setInterval` ticks again and again; a terminated connection emits its 'close' event, which
the ws library sees to; and a client whose connection is up acknowledges what it holds, in
order (acks out of order stall the stream, as `proxy_acks` shows). Nothing is asked of a
client that vanished, of pongs, connections and losses. (Bound: the pongs of `Prompt`
clients arrive before the next tick.) `AllBatchesCompleted` has three premises, each of
them needed: connections are not lost for ever; the namespace ends up with connected
clients and no others; no socket is leaked, by the two races of `LeakedOnlyByRaces`
(EVMConnect may dispatch on it while acks go to the registered one).
`EventBatches`: while calls are awaited, EVMConnect goes on answering some of them, or
their connections fail; a lookup of a subscription need not fail. `TokenRequests`: every
call is answered or fails.

## What the code does differently from what it says

`findings` in `PROJECT.json`, one per violated run: nacks stop at the first namespace
of a leaving client; an ack is swallowed while the client holds anything else; a
client that leaves during its start is registered for ever; `close()` during a
reconnection wait is undone; a failed activation can create a listener after a later
deactivation was answered; a handler that fails while another one is awaited ends the
process.

Three more have no run of their own. `README.md:206` says that `RETRY_MAX_ATTEMPTS=-1`
retries indefinitely, but `blockchain.service.ts:138` compares the text of the
environment with a number, so that no call is made at all. `README.md` says of mint
that an auto-indexing contract ignores `tokenIndex`, but `verifyNoIndex` (`erc721.ts:391`)
refuses the request (`Refused` of `TokenMethods`). The description of `requestId`
promises one id for a request that gives none, but a retry of its transaction is taken
as a second one with an id of its own (`AnswersTruthful` allows it).

## The proofs

For every value of the constants (the bounds included), TLAPS proves:

* `EventStreamSocketProofs`: types and the four safety invariants, by an invariant
  that relates timers, WebSocket state and flags; and that the socket implements
  `SocketLifecycle`, step by step.
* `EventStreamProxyProofs`: types, `RegistryConsistent`, `HolderIsClient`, `NoBatchSkipped`,
  `HandedOutInOrder`, `OneBatchAtATime`, `LeakedOnlyByRaces`, `ForgottenOnlyBySlips`, and
  that the proxy implements `AtLeastOnce`. The inductive invariant `IInv` adds what these
  need: nothing has happened on sockets not created yet (`SocketsInv`); every ack on a wire
  stands for a client's ack (`AckJustified`: without it `NoBatchSkipped` is not inductive,
  because an ack may be in flight); no batch number, in transit either, is ahead of its
  stream (`Reached`); in a namespace that is not `crossed`, what is in transit on one
  connection is sorted and on two connections all the same batch, the queue is sorted and
  comes before everything in transit, and what is held comes before both (`QueueInv`; so
  nothing in transit is earlier than what arrives, `ArrivesFirst`); ids are fresh
  (`HeldInv`); nothing was acknowledged beyond a stream or beyond what is queued
  (`AckedInv`, for `OneBatchAtATime`: a copy that waits in the queue is of the last
  acknowledged batch at the earliest); and a stream waits on an open connection of its own,
  wires and transits that are not empty are those of open connections, and connected clients
  are tracked (`ConnectionsInv`); every socket that was created has a namespace
  (`CreatedInv`). `DeliveryStep` and `QueueStep` reduce the thirty-odd cases of a step to
  three and five shapes, which the other lemmas use. `ForgottenOnlyBySlips` is proved from
  this invariant by following the batch through each place it can be in: a connection
  (`TransitStays`), a task (`QueuedStays`), a held message (`HeldStays`, with `LeaverNacks`
  and `AckerAnswers` where the holder lets go of it) and an answer (`AnswerStays`).
  `LeakedOnlyByRaces` goes by cases over the steps (`LeakStep`): a socket that persists
  keeps its registration (`RegisteredStays`), and only the two races break the pair.
* `ClientHeartbeatProofs`: the proxy with its heartbeat implements the proxy
  (`HeartbeatImplementsProxy`), so everything proved of the proxy holds with clients that
  vanish (`VanishingIsHarmless`, with the premise of `HandedOutInOrder` and of
  `OneBatchAtATime`); types, `VanishedWithinTwoTicks` and
  `OnlyUnansweredTerminated`, by an invariant that ties the ticks a client missed to
  `isAlive` and to the pongs on their way: after one missed tick the field is unset and
  no new pong is asked for.
* `PoolListenersProofs`: types, `StreamsKept`, `RetriesNeverDuplicate`,
  `ActivationComplete` and `DeactivationComplete`. Most of these say what holds unless
  requests overlapped, so the invariant carries the history of overlaps: requests that are
  in flight together are in it (`OverlapInv`), every stream a request works with is one of
  the namespace (`StreamInv`), names are unique until anything overlaps (`UniqueInv`), and
  what the tasks of an open request did is still so until a request of the other kind runs
  beside it (`ActivatedInv`, `SingleInv`, `DeactivatedInv`). What a step of one request can
  break of another one's work is then broken only if their pair is in the history.
* `TokenListenerProofs`: a subscription name and a locator give back what they were
  packed from (`NameRoundTrip`, `LocatorRoundTrip`), so names of different subscriptions
  differ (`NamesDiffer`); and the message of an event tells a reader exactly what the
  event did to the contract (`EventToldCorrectly`), by cases over signatures and
  addresses.
* `EventBatchesProofs`: types, `LedgerFollowed`, `ReaderFollows`, `LoneFailureContained`,
  `PromisesAdvance` and `AnswerAwaited`. The argument for what the reader knows is about the
  ledgers after each event of the batch (`History`): what the reader knows is the k-th of
  them, for the k its reading has got to, and it was told the ids of the events up to there
  and of no later ones (`Position`); what is left to read stands for the rest of the batch
  (`Yields`). That the reader moves from one of these ledgers to the next is
  `EventToldCorrectly`, once for each event; that a redelivered batch moves nothing is what
  the ids are for. The history variable `past` holds the ledger before each event of the
  batch, so that the action property can name it. For `AnswerAwaited`, the loops of
  `processEvents` stop at the first promise that is not settled (`LeastNatural` finds it).
* `TokenMethodsProofs`: for any ABI, the call that is selected is of a method of the ABI,
  with one argument for each input (`CallsAreOfTheAbi`), and does what was asked for
  (`CallsDoWhatWasAsked`); the methods that `getAllMethods` keeps lead to the same call as
  the whole ABI (`KnownMethodsSuffice`); and the built-in ABIs serve every operation that is
  not refused (`AbisServe`). The lists of methods are finite, so these go by cases over
  the signatures; the one inductive fact, that a set of indices has a smallest, is proved
  for the lengths that occur (`OneMore`, `MinOf`).
* `TokenRequestsProofs`: types, `AnswersTruthful`, `OnlyFailuresMislead`,
  `DoesWhatWasAsked`, `InterfaceSuffices`, `MethodOnContract` and `AnswerNears`. The
  invariant is `RequestsInv`, of four parts: `AnswerInv`, `CacheInv`, `PoolsInv` and
  `CallsInv`. `AnswerInv` holds `RequestInv` of each request, which relates the count of
  retries to what EVMConnect took, in every phase: a request that is to be sent has been
  taken at most once for each of its retries, and more than once only without an id.
  `CacheInv` and `PoolsInv` say that, without failures, the cache is right and every request
  that creates a pool has been told the truth so far: a request that asks for its k-th
  interface has been denied the earlier ones, perhaps by a cache that has been emptied
  since. `CallsInv` says that the call which a request has selected, and that its retries
  repeat, is the one which its own parameters and the answers that it got select (and, if no
  query failed, the contract's own interface): with `TokenMethodsProofs` this gives the
  three properties of calls. `AnswerNears` counts the queries and the attempts that are
  left.

The assumptions are `BoundsAssumption`, `ProxyAssumption`, `HeartbeatAssumption`,
`ListenersAssumption`, `ListenerAssumption`, `BatchesAssumption` and `RequestsAssumption`,
which TLC evaluates. `RequestsAssumption` says that a contract supports at most one of the
interfaces, of its own type, as each of the samples does; a contract that supports several
would get the schema of the first one asked for. It says of requests that pools are
created by a factory and by nothing else, and that only an operation on tokens brings an
interface.

Only model-checked: the liveness properties, which rest on fairness and so on ENABLED,
which the prover does not reason about (`HalfOpenDetected`, `Reconnects`,
`VanishedDisconnected`, `AllBatchesCompleted`, `TaskEnds`, `AllAnswered`). The safety part
of the last two is proved: `AnswerAwaited` and `PromisesAdvance` leave `TaskEnds` only the
assumption that some call goes on being answered, and `AnswerNears` leaves `AllAnswered`
only that steps are taken. Of `AllBatchesCompleted`, `ForgottenOnlyBySlips` is the part
that says why no batch is lost on the way. The types of `ClientHeartbeat` and
`PoolListeners` are proved, and no run repeats them.

## What is not modelled

Receipts, which the proxy passes to every client as they come and keeps no state for;
the 'started' reply, sent at the end of a start; EVMConnect's legacy batches without a
number; data, token URIs and timestamps in events and messages; retries of queries (a
query changes nothing, so its last answer stands for them), the setting
`RETRY_MAX_ATTEMPTS=-1`, and the lengths of delays; the warnings of `migrationCheck`;
HTTP routing, validation, health, TLS and logging (no state); the sample contracts (not
part of the connector). A transaction whose connection failed does not reach EVMConnect
later than its retry. EVMConnect itself is external: that it waits for the ack of the
batch it dispatched, redelivers after a nack or a loss, and does not require new names,
is taken from how the code uses it. EVMConnect is one stream per namespace in the proxy
model; two streams of one name, which `PoolListeners` shows to be possible when requests
overlap, are not carried over.

## Plan

Done: sockets, proxy, heartbeat of the clients, provisioning of one pool, names and
locators, batches of events with their redelivery, selection of methods, requests about
one contract; proofs of every safety and action property that a passing run checks. Left,
in this order:

1. The composition of the proxy with the batches of events: `EventBatches` takes each batch
   any number of times, in order, which is what `OneBatchAtATime` and `AtLeastOnce` give it
   while no batches of the namespace cross;
   a joint specification would let the end-to-end ledger be stated of what clients
   acknowledge.
2. An abstract specification of a request (answered once, its transaction taken or not)
   that `TokenRequests` implements.
3. Receipts and the replies of the proxy, with duplicates per namespace.
4. Two pools of one namespace in `PoolListeners`, where a purge meets another pool's
   listeners.
