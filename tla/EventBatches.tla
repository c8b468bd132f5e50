----------------------------- MODULE EventBatches -----------------------------
(***************************************************************************)
(* How one batch of events becomes one message (eventstream-proxy.base.ts  *)
(* processEvents, getSubscriptionName, with the TokenListener): the name   *)
(* of every event's subscription is looked up in turn, onEvent() of each   *)
(* event is started as soon as its name is known, and then the promises    *)
(* are awaited in order.                                                   *)
(*                                                                         *)
(* A step is one answer from EVMConnect and all that runs on it, up to the *)
(* next promise that is not settled.  Node ends the process when, at the   *)
(* end of such a step, a promise has rejected and nothing awaits it.       *)
(*                                                                         *)
(* Batches are processed one at a time (EventStreamProxy has their queue), *)
(* and a batch is delivered again until it is acknowledged: after it was   *)
(* given up, and after its message was sent as well.  That no earlier      *)
(* batch comes after it is OneBatchAtATime of EventStreamProxy, and taken  *)
(* for granted: it needs that none was overtaken on a leaked connection.   *)
(***************************************************************************)
EXTENDS TokenListener, FiniteSets

CONSTANTS
    ChainEvents,   \* the events that may happen
    MaxEvents,     \* bound: events, in all batches
    MaxOrphans,    \* bound: unanswered calls of batches given up
    MaxExits       \* bound: exits of the process

ASSUME BatchesAssumption ==
    /\ ChainEvents \subseteq Event
    /\ MaxEvents \in Nat /\ MaxOrphans \in Nat /\ MaxExits \in Nat

VARIABLES
    ledger,              \* the contracts' ledger
    unread,              \* what events yielded that the reader has yet to read
    view,                \* the ledger that the messages read so far describe
    told,                \* the pools and ids of these messages
    lost,                \* the new pools left out of the messages sent so far
    events,              \* the current batch
    past,                \* history: the ledger before each event of the batch
    delivery,            \* how far it got: "new", "delivered" or "sent"
    running,             \* processEvents is at work on it
    subscriptionNames,   \* the keys of the cache
    calls,               \* how far it got with each event
    orphans,             \* calls of batches given up that are still to be answered
    happened,            \* events so far
    exits

reading == <<unread, view, told>>
vars == <<ledger, reading, lost, events, past, delivery, running, subscriptionNames,
          calls, orphans, happened, exits>>

\* The name of an event's subscription, or a call of its onEvent(), is awaited.
Pending == {"unnamed", "uri", "decimals", "schema"}
Calls == Pending \cup {"settled", "rejected"}

TypeOK ==
    /\ ledger \in Ledger
    /\ view \in Ledger
    /\ unread \in Seq(Seq(Message)) /\ Len(unread) <= Len(events)
    /\ \A i \in DOMAIN unread : Len(unread[i]) <= 1
    /\ lost \subseteq Addresses \X Types
    /\ events \in Seq(Event) /\ Len(events) <= happened
    /\ past \in Seq(Ledger) /\ Len(past) = Len(events)
    /\ delivery \in {"new", "delivered", "sent"}
    /\ running \in BOOLEAN
    /\ subscriptionNames \subseteq Subscription
    /\ calls \in Seq(Calls)
    /\ IF running THEN Len(calls) = Len(events) ELSE calls = <<>>
    /\ orphans \in 0..MaxOrphans
    /\ happened \in 0..MaxEvents
    /\ exits \in 0..MaxExits

Init ==
    /\ ledger = EmptyLedger
    /\ unread = <<>>
    /\ view = EmptyLedger
    /\ told = {}
    /\ lost = {}
    /\ events = <<>>
    /\ past = <<>>
    /\ delivery = "new"
    /\ running = FALSE
    /\ subscriptionNames = {}
    /\ calls = <<>>
    /\ orphans = 0
    /\ happened = 0
    /\ exits = 0
-----------------------------------------------------------------------------
(* The chain *)

\* Events that contracts emit: only owners spend.  (Bound: one unit per account.)
Possible(e) ==
    LET pool == e.subscription.of
    IN  e.signature = "Transfer" /\ pool \in Pools =>
            IF IsFungible(pool)
            THEN /\ e.from # ZERO_ADDRESS => ledger.balance[pool][e.from] >= e.value
                 /\ e.to # ZERO_ADDRESS => ledger.balance[pool][e.to] = 0
            ELSE e.value \in Tokens /\ ledger.owner[pool][e.value] = e.from

\* An event joins the batch that EVMConnect will deliver.  (The events of a batch are
\* of one transaction.)
Happens(e) ==
    /\ delivery = "new"
    /\ happened < MaxEvents
    /\ Possible(e)
    /\ events' = Append(events, [e EXCEPT !.blockNumber = happened - Len(events),
                                         !.logIndex = Len(events)])
    /\ past' = Append(past, ledger)
    /\ happened' = happened + 1
    /\ ledger' = ChainStep(ledger, e)
    /\ UNCHANGED <<reading, lost, delivery, running, subscriptionNames, calls,
                   orphans, exits>>
-----------------------------------------------------------------------------
(* processEvents, between two answers *)

\* A loop that starts onEvent() again for the events it has started already (a mutation
\* of WithNamed).
WithRestarted(c, names) ==
    [i \in DOMAIN c |->
        IF \A j \in 1..i : c[j] = "unnamed" => events[j].subscription \in names
        THEN FirstCall(events[i])
        ELSE c[i]]

\* The loop over the events runs on while names are cached, and starts onEvent().
WithNamed(c, names) ==
    [i \in DOMAIN c |->
        IF c[i] = "unnamed" /\ \A j \in 1..i :
              c[j] = "unnamed" => events[j].subscription \in names
        THEN FirstCall(events[i])
        ELSE c[i]]

\* A message that waits for one handler only, and one that waits for ever when a
\* handler rejects (mutations of AllSettled).
AnySettled(c) ==
    /\ \A i \in DOMAIN c : c[i] # "unnamed"
    /\ \E i \in DOMAIN c : c[i] \notin Pending
AllFulfilled(c) == \A i \in DOMAIN c : c[i] = "settled"
AllSettled(c) == \A i \in DOMAIN c : c[i] \notin Pending

\* A rejection that is never caught (a mutation of Unhandled).
AnyRejected(c) == \E i \in DOMAIN c : c[i] = "rejected"

\* A promise has rejected, and processEvents is still looking up names or awaits the
\* promise of an earlier event.
Unhandled(c) ==
    \E i, j \in DOMAIN c :
        c[i] = "rejected" /\ (c[j] = "unnamed" \/ (j < i /\ c[j] \in Pending))

\* EVMConnect has delivered the batch.
Delivered == delivery' = IF delivery = "sent" THEN "sent" ELSE "delivered"

\* The process exits and is started again.
Exit ==
    /\ exits < MaxExits
    /\ exits' = exits + 1
    /\ running' = FALSE
    /\ calls' = <<>>
    /\ subscriptionNames' = {}
    /\ orphans' = 0
    /\ UNCHANGED <<ledger, reading, lost, events, past, happened>>

\* Messages in the order in which the handlers end, those that make no call first (a
\* mutation of Messages).
MessagesAsSettled(c) ==
    LET Quick(i) == FirstCall(events[i]) = "settled"
        Slow(i) == ~Quick(i)
        places == [i \in DOMAIN c |-> i]
        order == SelectSeq(places, Quick) \o SelectSeq(places, Slow)
    IN  [i \in DOMAIN c |->
            IF c[order[i]] = "settled" THEN OnEvent(events[order[i]]) ELSE <<>>]

\* The batch message: what each event yields, in order; a rejection is only logged.
Messages(c) ==
    [i \in DOMAIN c |-> IF c[i] = "settled" THEN OnEvent(events[i]) ELSE <<>>]

Send(c) ==
    /\ unread' = Messages(c)
    /\ lost' = lost \cup {<<events[i].to, NewPoolType(events[i])>> :
                             i \in {j \in DOMAIN c : c[j] = "rejected"}}
    /\ delivery' = "sent"
    /\ calls' = <<>>
    /\ running' = FALSE
    /\ UNCHANGED <<ledger, view, told, events, past, orphans, happened, exits>>

\* The task goes on with these calls, to its end if it can.
Proceed(c, names) ==
    IF Unhandled(c) THEN Exit /\ Delivered
    ELSE /\ subscriptionNames' = names
         /\ IF AllSettled(c) THEN Send(c)
            ELSE /\ calls' = c
                 /\ running' = TRUE
                 /\ Delivered
                 /\ UNCHANGED <<ledger, reading, lost, events, past, orphans,
                              happened, exits>>

\* EVMConnect delivers the batch, for the first time or again.  (Bound: not while the
\* reader is at its message.)
Start ==
    /\ ~running
    /\ events # <<>>
    /\ unread = <<>>
    /\ Proceed(WithNamed([i \in DOMAIN events |-> "unnamed"], subscriptionNames),
               subscriptionNames)

Key(m) == <<m.pool, m.id>>

\* The reader comes to what the next event yielded.  It takes no message of a pool with
\* an id that it was told before.
Read ==
    /\ unread # <<>>
    /\ unread' = Tail(unread)
    /\ LET yield == Head(unread)
       IN  IF yield = <<>> \/ Key(yield[1]) \in told THEN UNCHANGED <<view, told>>
           ELSE /\ view' = ReaderStep(view, yield[1])
                /\ told' = told \cup {Key(yield[1])}
    /\ UNCHANGED <<ledger, lost, events, past, delivery, running, subscriptionNames,
                   calls, orphans, happened, exits>>

\* The ack of a client has reached EVMConnect (EventStreamProxy), which goes on to the
\* next batch.
Acknowledged ==
    /\ ~running
    /\ delivery = "sent" /\ unread = <<>>
    /\ delivery' = "new"
    /\ events' = <<>>
    /\ past' = <<>>
    /\ UNCHANGED <<ledger, reading, lost, running, subscriptionNames, calls,
                   orphans, happened, exits>>
-----------------------------------------------------------------------------
(* Answers *)

LookingUp(i) ==
    calls[i] = "unnamed" /\ \A j \in 1..i - 1 : calls[j] # "unnamed"

\* getSubscription() answers, and the name is cached.
NameFound(i) ==
    /\ LookingUp(i)
    /\ LET names == subscriptionNames \cup {events[i].subscription}
       IN  Proceed(WithNamed(calls, names), names)

Rejectable(c) == Cardinality({i \in DOMAIN c : c[i] = "decimals"})

\* A batch given up whose promises are kept (a mutation of GiveUp).
KeepCalls == running' = FALSE /\ UNCHANGED <<calls, orphans>>

\* The batch is dropped; its calls run on, and only those that ask for decimals can
\* still reject.
GiveUp ==
    /\ orphans + Rejectable(calls) <= MaxOrphans
    /\ running' = FALSE
    /\ calls' = <<>>
    /\ orphans' = orphans + Rejectable(calls)

\* getSubscription() fails or knows no such subscription: processEvents returns.
NameUnknown(i) ==
    /\ LookingUp(i)
    /\ GiveUp
    /\ UNCHANGED <<ledger, reading, lost, events, past, delivery, subscriptionNames,
                   happened, exits>>

Settles(i, as) == Proceed([calls EXCEPT ![i] = as], subscriptionNames)

\* getTokenUri() catches the failure of its query, and so does supportsInterface().
UriAnswered(i) == calls[i] = "uri" /\ Settles(i, "settled")
SchemaAnswered(i) == calls[i] = "schema" /\ Settles(i, "settled")

\* getDecimals() does not.
DecimalsAnswered(i) == calls[i] = "decimals" /\ Settles(i, "schema")
DecimalsFailed(i) == calls[i] = "decimals" /\ Settles(i, "rejected")

OrphanAnswered ==
    /\ orphans > 0
    /\ orphans' = orphans - 1
    /\ UNCHANGED <<ledger, reading, lost, events, past, delivery, running,
                   subscriptionNames, calls, happened, exits>>
OrphanFailed == orphans > 0 /\ Exit /\ UNCHANGED delivery
-----------------------------------------------------------------------------
Answered(i) ==
    \/ NameFound(i) \/ NameUnknown(i)
    \/ UriAnswered(i) \/ SchemaAnswered(i) \/ DecimalsAnswered(i) \/ DecimalsFailed(i)

Next ==
    \/ \E e \in ChainEvents : Happens(e)
    \/ Start
    \/ Read
    \/ Acknowledged
    \/ \E i \in DOMAIN calls : Answered(i)
    \/ OrphanAnswered
    \/ OrphanFailed

Spec == Init /\ [][Next]_vars

\* EVMConnect answers every call.
Fairness == WF_vars(\E i \in DOMAIN calls : Answered(i))

LiveSpec == Spec /\ Fairness
-----------------------------------------------------------------------------
(* Properties *)

\* What the reader knows, and the new pools that it was not told of.
Known(v) == [v EXCEPT !.created = @ \cup lost]

\* Once a batch has been sent and read, and from then on, however often it is delivered
\* again, the reader of the messages has the ledger of the contracts, whatever order
\* calls were answered in: every event was told once, correctly, of the right pool and
\* in its place, but for new pools whose decimals could not be read (processEvents,
\* onEvent, formatBlockchainEventId, packSubscriptionName, unpackSubscriptionName).
LedgerFollowed ==
    (events = <<>> \/ delivery = "sent") /\ unread = <<>> =>
        Known(view) = ledger

\* In between as well: every message that tells the reader something new takes it from
\* the ledger before one event of the batch to the ledger after it, so that it always
\* knows a ledger that the contracts were in (processEvents, which keeps the order of
\* the events whatever order their handlers end in).
After(k) == Append(past, ledger)[k + 1]
ReaderFollows ==
    [][\/ Known(view') = Known(view)
       \/ \E k \in DOMAIN past : /\ Known(view) = Known(past[k])
                                 /\ Known(view') = Known(After(k))]_vars

\* How many answers the promise of an event is from its end, at most.
AnswersLeft(call) ==
    CASE call = "unnamed" -> 3
      [] call = "decimals" -> 2
      [] call \in {"uri", "schema"} -> 1
      [] OTHER -> 0

\* Each answer that leaves processEvents at work brings the promise of some event closer
\* to its end and takes none back, whatever is delivered again or given up besides
\* (processEvents, getSubscriptionName, onEvent).
PromisesAdvance ==
    [][running /\ running' /\ calls' # calls =>
          /\ \A i \in DOMAIN calls : AnswersLeft(calls'[i]) <= AnswersLeft(calls[i])
          /\ \E i \in DOMAIN calls : AnswersLeft(calls'[i]) < AnswersLeft(calls[i])]_vars

\* While processEvents is at work, it has a call that EVMConnect has still to answer:
\* the name that it looks up, or one that a handler awaits (processEvents).
AnswerAwaited ==
    running =>
        \E i \in DOMAIN calls : LookingUp(i) \/ calls[i] \in {"uri", "decimals", "schema"}

\* processEvents always ends, so one batch never blocks the queue of all namespaces.
TaskEnds == running ~> ~running

\* A failure ends the process only if the batch had other events, or a batch given up
\* before it still had calls to answer (processEvents, catch).
LoneFailureContained ==
    [][exits' # exits => Len(events) > 1 \/ orphans > 0]_vars

\* "Create a promise for each onEvent() handler and when they're all complete we'll
\* create the batch message" (eventstream-proxy.base.ts:179): a handler that fails,
\* which the loop catches, does not end the process.
FailuresOnlyLogged == exits = 0
=============================================================================
