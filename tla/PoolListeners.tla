---------------------------- MODULE PoolListeners ----------------------------
(***************************************************************************)
(* How requests provision EVMConnect for one token pool: the event stream  *)
(* of its namespace and one subscription (a listener) per event of its     *)
(* contract (tokens.service.ts getStream, createFromFactory, activatePool, *)
(* deactivatePool; event-stream.service.ts createOrUpdateStream,           *)
(* getOrCreateSubscription, deleteSubscriptionByName).                     *)
(*                                                                         *)
(* Every await is an HTTP call, and a step is one call, with the code that *)
(* runs on its answer.  Requests interleave at any await; the calls for    *)
(* the events of one request run in parallel, and outlive the request when *)
(* Promise.all rejects.  Each `list, then create or delete' acts on what   *)
(* the list said, which other requests may have changed since.             *)
(***************************************************************************)
EXTENDS Naturals, FiniteSets

CONSTANTS
    Activations,     \* activatePool requests
    Creations,       \* createFromFactory requests
    Deactivations,   \* deactivatePool requests
    Connections,     \* createOrUpdateStream calls of the event stream proxy
    PoolEvents,      \* Transfer, Approval and (ERC-721) ApprovalForAll
    FactoryEvents,   \* TokenPoolCreation
    MaxRequests,     \* bound: requests that arrive
    MaxFailures,     \* bound: HTTP calls that fail
    MaxCrashes       \* bound: restarts of the connector

Requests == Activations \cup Creations \cup Deactivations \cup Connections
Events == PoolEvents \cup FactoryEvents

ASSUME ListenersAssumption ==
    /\ Activations \cap (Creations \cup Deactivations \cup Connections) = {}
    /\ Creations \cap (Deactivations \cup Connections) = {}
    /\ Deactivations \cap Connections = {}
    /\ PoolEvents \cap FactoryEvents = {}
    /\ MaxRequests \in Nat /\ MaxFailures \in Nat /\ MaxCrashes \in Nat

VARIABLES
    streams,         \* EVMConnect: its event streams
    subscriptions,   \* EVMConnect: the subscriptions on streams of the namespace
    nextId,          \* EVMConnect: the next id it gives out
    streamCache,     \* streamCache.get(namespace), or NoId
    stage,           \* which await each request is at
    seen,            \* `existingStreams' of each request
    stream,          \* the stream each request works on
    task,            \* which await each request is at, per event
    found,           \* the subscription each task of a request will delete
    failures,
    crashes,
    overlaps         \* history: the pairs of requests in flight together

upstreamVars == <<streams, subscriptions, nextId>>
requestVars == <<stage, seen, stream, task, found>>
vars == <<upstreamVars, streamCache, requestVars, failures, crashes, overlaps>>

NoId == 0
Ids == Nat \ {NoId}
Stream == [id : Ids, name : {"deprecated", "namespace"}]
Subscription == [id : Ids, name : Events, stream : Ids]

Answered == {"ok", "failed"}
Stages == {"new", "listing", "purging", "updating", "subscribing", "finishing"}
              \cup Answered
Settled == {"done", "absent", "failed"}
Tasks == {"none", "list", "create", "delete"} \cup Settled

TypeOK ==
    /\ streams \subseteq Stream
    /\ subscriptions \subseteq Subscription
    /\ nextId \in Ids
    /\ streamCache \in Ids \cup {NoId}
    /\ stage \in [Requests -> Stages]
    /\ seen \in [Requests -> SUBSET Stream]
    /\ stream \in [Requests -> Ids \cup {NoId}]
    /\ task \in [Requests -> [Events -> Tasks]]
    /\ found \in [Requests -> [Events -> Ids \cup {NoId}]]
    /\ failures \in 0..MaxFailures
    /\ crashes \in 0..MaxCrashes
    /\ overlaps \subseteq SUBSET Requests

\* A version of the connector that used one stream for every namespace may have
\* left that stream, named after the topic alone, behind; an earlier run of this one
\* may have left its own.
Init ==
    /\ streams \in SUBSET {[id |-> 1, name |-> "deprecated"],
                          [id |-> 2, name |-> "namespace"]}
    /\ subscriptions = {}
    /\ nextId = 3
    /\ streamCache = NoId
    /\ stage = [r \in Requests |-> "new"]
    /\ seen = [r \in Requests |-> {}]
    /\ stream = [r \in Requests |-> NoId]
    /\ task = [r \in Requests |-> [e \in Events |-> "none"]]
    /\ found = [r \in Requests |-> [e \in Events |-> NoId]]
    /\ failures = 0
    /\ crashes = 0
    /\ overlaps = {}
-----------------------------------------------------------------------------
(* One HTTP call *)

Goes(r, next) == stage' = [stage EXCEPT ![r] = next]
Turns(r, e, next) == task' = [task EXCEPT ![r][e] = next]

\* The call succeeds; or it fails, and the effect it asked for may have happened.
CallSucceeds == UNCHANGED failures
CallFails == failures < MaxFailures /\ failures' = failures + 1

\* A task that fails rejects Promise.all: the request is answered at once, and the
\* other tasks run on.
TaskFails(r, e) ==
    /\ Turns(r, e, "failed")
    /\ IF stage[r] = "subscribing" THEN Goes(r, "failed") ELSE UNCHANGED stage

EventsOf(r) ==
    IF r \in Creations THEN FactoryEvents
    ELSE IF r \in Connections THEN {} ELSE PoolEvents

StartTasks(r) ==
    task' = [task EXCEPT ![r] = [e \in Events |->
                IF e \in EventsOf(r) THEN "list" ELSE "none"]]
-----------------------------------------------------------------------------
(* getStream, createOrUpdateStream *)

\* A request is in flight until it is answered and its tasks have ended.
InFlight(r) ==
    \/ stage[r] \notin Answered \cup {"new"}
    \/ \E e \in Events : task[r][e] \in {"list", "create", "delete"}

\* A request arrives and looks the stream up in streamCache.
Begin(r) ==
    /\ stage[r] = "new"
    /\ Cardinality({q \in Requests : stage[q] # "new"}) < MaxRequests
    /\ IF r \notin Connections /\ streamCache # NoId
       THEN /\ Goes(r, "subscribing")
            /\ stream' = [stream EXCEPT ![r] = streamCache]
            /\ StartTasks(r)
       ELSE Goes(r, "listing") /\ UNCHANGED <<stream, task>>
    /\ overlaps' = overlaps \cup {{q, r} : q \in {p \in Requests : InFlight(p)}}
    /\ UNCHANGED <<upstreamVars, streamCache, seen, found, failures, crashes>>

Named(S, name) == {s \in S : s.name = name}

\* getStreams().  The calls of migrationCheck before it only read, to log warnings;
\* one that fails is the failure of this step.
ListStreams(r) ==
    /\ stage[r] = "listing"
    /\ \/ /\ CallSucceeds
          /\ seen' = [seen EXCEPT ![r] = streams]
          /\ Goes(r, IF Named(streams, "deprecated") # {} THEN "purging" ELSE "updating")
       \/ CallFails /\ Goes(r, "failed") /\ UNCHANGED seen
    /\ UNCHANGED <<upstreamVars, streamCache, stream, task, found, crashes, overlaps>>

\* The first stream of the list, whatever its name (a mutation of Deprecated).
AnyStream(S) == S
Deprecated(S) == Named(S, "deprecated")

\* DELETE of the deprecated stream; 404 if another request has deleted it.
PurgeDeprecated(r) ==
    /\ stage[r] = "purging"
    /\ \E d \in Deprecated(seen[r]) :
          \/ /\ CallSucceeds
             /\ streams' = streams \ {d}
             /\ Goes(r, IF d \in streams THEN "updating" ELSE "failed")
          \/ /\ CallFails
             /\ streams' \in {streams, streams \ {d}}
             /\ Goes(r, "failed")
    /\ UNCHANGED <<subscriptions, nextId, streamCache, seen, stream, task, found,
                   crashes, overlaps>>

\* createOrUpdateStream returns: getStream caches the stream.
StreamReady(r, id) ==
    /\ stream' = [stream EXCEPT ![r] = id]
    /\ seen' = [seen EXCEPT ![r] = {}]
    /\ IF r \in Connections
       THEN Goes(r, "ok") /\ UNCHANGED <<streamCache, task>>
       ELSE Goes(r, "subscribing") /\ streamCache' = id /\ StartTasks(r)

\* PATCH of a stream that getStreams() returned.
UpdateStream(r) ==
    /\ stage[r] = "updating"
    /\ \E s \in Named(seen[r], "namespace") :
          \/ CallSucceeds /\ StreamReady(r, s.id)
          \/ CallFails /\ Goes(r, "failed") /\ UNCHANGED <<stream, seen, streamCache, task>>
    /\ UNCHANGED <<upstreamVars, found, crashes, overlaps>>

\* POST of a new stream.  EVMConnect does not ask for the name to be new.
CreateStream(r) ==
    /\ stage[r] = "updating"
    /\ Named(seen[r], "namespace") = {}
    /\ LET new == [id |-> nextId, name |-> "namespace"]
       IN  \/ /\ CallSucceeds
              /\ streams' = streams \cup {new}
              /\ nextId' = nextId + 1
              /\ StreamReady(r, nextId)
           \/ /\ CallFails
              /\ \/ UNCHANGED <<streams, nextId>>
                 \/ streams' = streams \cup {new} /\ nextId' = nextId + 1
              /\ Goes(r, "failed")
              /\ UNCHANGED <<stream, seen, streamCache, task>>
    /\ UNCHANGED <<subscriptions, found, crashes, overlaps>>
-----------------------------------------------------------------------------
(* getOrCreateSubscription, deleteSubscriptionByName *)

\* A create without the search, and a search that forgets the stream (mutations of
\* Matching).
MatchingNothing(r, e) == {}
MatchingName(r, e) == {s \in subscriptions : s.name = e}
Matching(r, e) == {s \in subscriptions : s.name = e /\ s.stream = stream[r]}

Deletes(r) == r \in Deactivations

\* getSubscriptions(), and find() on its answer.
ListSubscriptions(r, e) ==
    /\ task[r][e] = "list"
    /\ \/ /\ CallSucceeds
          /\ UNCHANGED stage
          /\ IF Matching(r, e) = {}
             THEN /\ Turns(r, e, IF Deletes(r) THEN "absent" ELSE "create")
                  /\ UNCHANGED found
             ELSE IF Deletes(r)
             THEN /\ Turns(r, e, "delete")
                  /\ \E s \in Matching(r, e) :
                        found' = [found EXCEPT ![r][e] = s.id]
             ELSE Turns(r, e, "done") /\ UNCHANGED found
       \/ CallFails /\ TaskFails(r, e) /\ UNCHANGED found
    /\ UNCHANGED <<upstreamVars, streamCache, seen, stream, crashes, overlaps>>

\* createSubscription()
CreateSubscription(r, e) ==
    /\ task[r][e] = "create"
    /\ LET new == [id |-> nextId, name |-> e, stream |-> stream[r]]
       IN  \/ /\ CallSucceeds
              /\ subscriptions' = subscriptions \cup {new}
              /\ nextId' = nextId + 1
              /\ Turns(r, e, "done")
              /\ UNCHANGED stage
           \/ /\ CallFails
              /\ \/ UNCHANGED <<subscriptions, nextId>>
                 \/ subscriptions' = subscriptions \cup {new} /\ nextId' = nextId + 1
              /\ TaskFails(r, e)
    /\ UNCHANGED <<streams, streamCache, seen, stream, found, crashes, overlaps>>

\* DELETE of the subscription that was found; 404 if it is gone.
DeleteSubscription(r, e) ==
    /\ task[r][e] = "delete"
    /\ LET rest == {s \in subscriptions : s.id # found[r][e]}
       IN  \/ /\ CallSucceeds
              /\ subscriptions' = rest
              /\ IF rest # subscriptions
                 THEN Turns(r, e, "done") /\ UNCHANGED stage
                 ELSE TaskFails(r, e)
           \/ /\ CallFails
              /\ subscriptions' \in {subscriptions, rest}
              /\ TaskFails(r, e)
    /\ UNCHANGED <<streams, nextId, streamCache, seen, stream, found, crashes, overlaps>>
-----------------------------------------------------------------------------
(* Answers *)

\* Promise.race in place of Promise.all (a mutation of AllDone).
AnyDone(r) == \E e \in EventsOf(r) : task[r][e] \in {"done", "absent"}
AllDone(r) == \A e \in EventsOf(r) : task[r][e] \in {"done", "absent"}

\* Promise.all resolves.  A deactivation that deleted nothing is answered 404.
AllSubscribed(r) ==
    /\ stage[r] = "subscribing"
    /\ AllDone(r)
    /\ Goes(r, IF ~Deletes(r) THEN "finishing"
               ELSE IF \E e \in EventsOf(r) : task[r][e] = "done" THEN "ok"
               ELSE "failed")
    /\ UNCHANGED <<upstreamVars, streamCache, seen, stream, task, found, failures,
                   crashes, overlaps>>

\* activatePool ends with queryPool, createFromFactory with sendTransaction.
Finish(r) ==
    /\ stage[r] = "finishing"
    /\ \/ CallSucceeds /\ Goes(r, "ok")
       \/ CallFails /\ Goes(r, "failed")
    /\ UNCHANGED <<upstreamVars, streamCache, seen, stream, task, found, crashes, overlaps>>

\* The connector restarts: its cache and the requests it was serving are lost.
Crash ==
    /\ crashes < MaxCrashes
    /\ crashes' = crashes + 1
    /\ streamCache' = NoId
    /\ stage' = [r \in Requests |-> IF stage[r] \in Answered \cup {"new"}
                                    THEN stage[r] ELSE "failed"]
    /\ task' = [r \in Requests |-> [e \in Events |->
                   IF task[r][e] \in Settled THEN task[r][e] ELSE "none"]]
    /\ UNCHANGED <<upstreamVars, seen, stream, found, failures, overlaps>>
-----------------------------------------------------------------------------
RequestStep(r) ==
    \/ Begin(r)
    \/ ListStreams(r)
    \/ PurgeDeprecated(r)
    \/ UpdateStream(r)
    \/ CreateStream(r)
    \/ AllSubscribed(r)
    \/ Finish(r)
    \/ \E e \in EventsOf(r) : \/ ListSubscriptions(r, e)
                              \/ CreateSubscription(r, e)
                              \/ DeleteSubscription(r, e)

Next == Crash \/ \E r \in Requests : RequestStep(r)

Spec == Init /\ [][Next]_vars
-----------------------------------------------------------------------------
(* Safety *)

\* Purging the deprecated stream never touches a stream of the namespace: the cached
\* stream exists, and so does the stream of every listener (createOrUpdateStream,
\* getStream).
StreamsKept ==
    LET ids == {s.id : s \in Named(streams, "namespace")}
    IN  /\ streamCache # NoId => streamCache \in ids
        /\ \A s \in subscriptions : s.stream \in ids

\* No two requests of S were ever in flight together.
Sequential(S) == \A pair \in overlaps : ~(pair \subseteq S)

\* Failed calls, lost answers, restarts and retries never duplicate anything: a
\* second stream for the namespace, or a second listener for an event, takes two
\* requests in flight together (createOrUpdateStream, getOrCreateSubscription).
RetriesNeverDuplicate ==
    /\ Cardinality(Named(streams, "namespace")) > 1 => ~Sequential(Requests)
    /\ \A e \in Events :
          Cardinality({s \in subscriptions : s.name = e}) > 1 => ~Sequential(Requests)

AnsweredOk(r) == stage[r] # "ok" /\ stage'[r] = "ok"
Listens(r, e) == \E s \in subscriptions' : s.name = e /\ s.stream = stream[r]

\* When an activation is answered, every event of the pool has a listener on its
\* stream, whatever failed before, unless a deactivation ran beside it
\* (activatePool, createFromFactory).
ActivationComplete ==
    [][\A r \in Activations \cup Creations :
          AnsweredOk(r) /\ (\A d \in Deactivations : {d, r} \notin overlaps) =>
              \A e \in EventsOf(r) : Listens(r, e)]_vars

\* When a deactivation is answered, no listener of the pool is left on its stream,
\* whatever failed before, if no other request for the pool ran beside it and
\* activations did not overlap (deactivatePool).
DeactivationComplete ==
    [][\A r \in Deactivations :
          AnsweredOk(r) /\ Sequential(Activations \cup {r}) =>
              \A e \in PoolEvents : ~Listens(r, e)]_vars

(* What the API documentation says *)

\* "Deactivate a token pool to delete all listeners and stop receiving events"
\* (tokens.controller.ts:87): once a deactivation has been answered, and while no
\* activation is waiting for its answer, no listener appears.
DeactivatedStaysSilent ==
    [][/\ \E d \in Deactivations : stage[d] = "ok"
       /\ \A a \in Activations : stage[a] \in Answered \cup {"new"}
       => subscriptions' \subseteq subscriptions]_vars
=============================================================================
