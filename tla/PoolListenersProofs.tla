------------------------- MODULE PoolListenersProofs -------------------------
(***************************************************************************)
(* What holds of the provisioning of a pool for any number of requests,    *)
(* failures and restarts.  The requests that were in flight together are   *)
(* a history of the model: what a step of one request can break of another *)
(* one's work is broken only if their pair is in that history.             *)
(***************************************************************************)
EXTENDS PoolListeners, FiniteSetTheorems, TLAPS

NamespaceIds == {s.id : s \in Named(streams, "namespace")}

\* Every stream that the connector works with is one of the namespace, and ids are new.
StreamInv ==
    /\ StreamsKept
    /\ \A s \in subscriptions : s.id < nextId
    /\ \A r \in Requests : Named(seen[r], "namespace") \subseteq streams
    /\ \A r \in Requests : stream[r] # NoId => stream[r] \in NamespaceIds

\* A request has tasks only after it got its stream, for its events, and of its kind.
TaskOK(r) ==
    /\ stage[r] \in {"new", "listing", "purging", "updating"} =>
          \A e \in Events : task[r][e] = "none"
    /\ stage[r] = "finishing" => ~Deletes(r) /\ \A e \in EventsOf(r) : task[r][e] = "done"
    /\ \A e \in Events :
          /\ task[r][e] # "none" => stream[r] # NoId /\ e \in EventsOf(r)
          /\ task[r][e] \in {"absent", "delete"} => Deletes(r)
          /\ task[r][e] = "create" => ~Deletes(r)

TaskInv == \A r \in Requests : TaskOK(r)

Running(r, e) == task[r][e] \in {"list", "create", "delete"}

\* Steps of two requests that interleave are in the history.
OverlapInv ==
    \A p, q \in Requests : p # q /\ InFlight(p) /\ InFlight(q) => {p, q} \in overlaps

ListenerInv == TypeOK /\ TaskInv /\ StreamInv /\ OverlapInv

\* Until two requests are in flight together, what each listed is what there is.
UniqueInv ==
    overlaps = {} =>
        /\ \A s, t \in Named(streams, "namespace") : s = t
        /\ \A s, t \in subscriptions : s.name = t.name => s = t
        /\ \A r \in Requests :
              stage[r] \in {"purging", "updating"} =>
                  Named(seen[r], "namespace") = Named(streams, "namespace")
        /\ \A r \in Requests, e \in Events :
              task[r][e] = "create" => \A s \in subscriptions : s.name # e

HasListener(r, e) == \E s \in subscriptions : s.name = e /\ s.stream = stream[r]

\* Until a deactivation runs beside an activation, what its tasks made is there.
ActivatedInv ==
    \A r \in Activations \cup Creations :
        /\ stage[r] \in {"subscribing", "finishing"}
        /\ \A d \in Deactivations : {d, r} \notin overlaps
        => \A e \in Events : task[r][e] = "done" => HasListener(r, e)

\* Until two activations run together, an event of the pool has one listener on a stream;
\* and until one of them runs beside a deactivation, what that one's tasks deleted is gone.
SingleInv ==
    Sequential(Activations) =>
        /\ \A s, t \in subscriptions :
              s.name \in PoolEvents /\ s.name = t.name /\ s.stream = t.stream => s = t
        /\ \A a \in Activations, e \in Events :
              task[a][e] = "create" => Matching(a, e) = {}

DeactivatedInv ==
    \A d \in Deactivations :
        stage[d] = "subscribing" /\ Sequential(Activations \cup {d}) =>
            \A e \in PoolEvents :
                /\ task[d][e] \in {"done", "absent"} => Matching(d, e) = {}
                /\ task[d][e] = "delete" => \A s \in Matching(d, e) : s.id = found[d][e]

\* The initial values have their types.
LEMMA InitTypeOK == Init => TypeOK
<1> SUFFICES ASSUME Init PROVE TypeOK
  OBVIOUS
<1>1. streams \subseteq Stream
  BY DEF Init, Stream, Ids, NoId
<1>2. failures \in 0..MaxFailures /\ crashes \in 0..MaxCrashes
  BY ListenersAssumption DEF Init
<1> QED
  BY <1>1, <1>2 DEF Init, TypeOK, Ids, NoId, Stages, Tasks

\* The events of a request are events.
LEMMA EventsOfType == \A r \in Requests : EventsOf(r) \subseteq Events
  BY DEF EventsOf, Events

\* A stage changes to a stage.
LEMMA GoesType ==
  ASSUME TypeOK, NEW r \in Requests, NEW next \in Stages, Goes(r, next)
  PROVE  stage' \in [Requests -> Stages]
  BY DEF TypeOK, Goes

\* A task changes to a task.
LEMMA TurnsType ==
  ASSUME TypeOK, NEW r \in Requests, NEW e \in Events, NEW next \in Tasks, Turns(r, e, next)
  PROVE  task' \in [Requests -> [Events -> Tasks]]
<1>1. task[r] \in [Events -> Tasks] /\ task \in [Requests -> [Events -> Tasks]]
  BY DEF TypeOK
<1>2. [task[r] EXCEPT ![e] = next] \in [Events -> Tasks]
  BY <1>1
<1>3. task' = [task EXCEPT ![r] = [task[r] EXCEPT ![e] = next]]
  BY DEF Turns
<1> QED
  BY <1>1, <1>2, <1>3

\* The same, for a task that fails.
LEMMA TaskFailsType ==
  ASSUME TypeOK, NEW r \in Requests, NEW e \in Events, TaskFails(r, e)
  PROVE  stage' \in [Requests -> Stages] /\ task' \in [Requests -> [Events -> Tasks]]
<1>1. "failed" \in Tasks /\ "failed" \in Stages
  BY DEF Tasks, Settled, Stages, Answered
<1>2. task' \in [Requests -> [Events -> Tasks]]
  BY <1>1, TurnsType DEF TaskFails
<1>3. stage' \in [Requests -> Stages]
  <2>1. CASE stage[r] = "subscribing"
    BY <1>1, <2>1, GoesType DEF TaskFails
  <2>2. CASE stage[r] # "subscribing"
    BY <2>2 DEF TaskFails, TypeOK
  <2> QED
    BY <2>1, <2>2
<1> QED
  BY <1>2, <1>3

\* The same, for the tasks that start.
LEMMA StartTasksType ==
  ASSUME TypeOK, NEW r \in Requests, StartTasks(r)
  PROVE  task' \in [Requests -> [Events -> Tasks]]
<1> DEFINE new == [e \in Events |-> IF e \in EventsOf(r) THEN "list" ELSE "none"]
<1>1. new \in [Events -> Tasks]
  BY DEF Tasks
<1>2. task' = [task EXCEPT ![r] = new]
  BY DEF StartTasks
<1> HIDE DEF new
<1> QED
  BY <1>1, <1>2 DEF TypeOK

\* The stages and the tasks, by name.
LEMMA StageNames ==
  /\ {"new", "listing", "purging", "updating", "subscribing", "finishing", "ok", "failed"}
        \subseteq Stages
  /\ {"none", "list", "create", "delete", "done", "absent", "failed"} \subseteq Tasks
  BY DEF Stages, Answered, Tasks, Settled

\* The failures stay within their bound.
LEMMA FailuresType ==
  ASSUME TypeOK, CallSucceeds \/ CallFails
  PROVE  failures' \in 0..MaxFailures
<1>1. failures \in 0..MaxFailures /\ MaxFailures \in Nat
  BY ListenersAssumption DEF TypeOK
<1>2. CASE CallSucceeds
  BY <1>1, <1>2 DEF CallSucceeds
<1>3. CASE CallFails
  BY <1>1, <1>3 DEF CallFails
<1> QED
  BY <1>2, <1>3

\* Ids are positive.
LEMMA NextIdType ==
  ASSUME TypeOK
  PROVE  nextId \in Nat /\ nextId > 0 /\ nextId + 1 \in Ids /\ nextId \in Ids
  BY DEF TypeOK, Ids, NoId

\* The types of what createOrUpdateStream leaves.
LEMMA StreamReadyType ==
  ASSUME TypeOK, NEW r \in Requests, NEW id \in Ids, StreamReady(r, id)
  PROVE  /\ stream' \in [Requests -> Ids \cup {NoId}]
         /\ seen' \in [Requests -> SUBSET Stream]
         /\ stage' \in [Requests -> Stages]
         /\ task' \in [Requests -> [Events -> Tasks]]
         /\ streamCache' \in Ids \cup {NoId}
<1>1. stream' \in [Requests -> Ids \cup {NoId}] /\ seen' \in [Requests -> SUBSET Stream]
  BY DEF StreamReady, TypeOK
<1>2. CASE r \in Connections
  BY <1>1, <1>2, GoesType, StageNames DEF StreamReady, TypeOK
<1>3. CASE r \notin Connections
  BY <1>1, <1>3, GoesType, StartTasksType, StageNames DEF StreamReady, TypeOK
<1> QED
  BY <1>2, <1>3

\* Every step of a request, by its calls, preserves types.
LEMMA RequestTypeOK ==
  ASSUME TypeOK, NEW r \in Requests, TaskOK(r), RequestStep(r)
  PROVE  TypeOK'
<1> USE StageNames, EventsOfType
<1>1. CASE Begin(r)
  <2>1. stage' \in [Requests -> Stages] /\ stream' \in [Requests -> Ids \cup {NoId}]
           /\ task' \in [Requests -> [Events -> Tasks]]
    <3>1. CASE r \notin Connections /\ streamCache # NoId
      <4>1. stage' \in [Requests -> Stages] /\ task' \in [Requests -> [Events -> Tasks]]
        BY <1>1, <3>1, GoesType, StartTasksType DEF Begin
      <4>2. stream' \in [Requests -> Ids \cup {NoId}]
        BY <1>1, <3>1 DEF Begin, TypeOK
      <4> QED
        BY <4>1, <4>2
    <3>2. CASE ~(r \notin Connections /\ streamCache # NoId)
      <4>1. Goes(r, "listing") /\ UNCHANGED <<stream, task>>
        BY <1>1, <3>2 DEF Begin
      <4> QED
        BY <4>1, GoesType DEF TypeOK
    <3> QED
      BY <3>1, <3>2
  <2>2. overlaps' \subseteq SUBSET Requests
    BY <1>1 DEF Begin, TypeOK
  <2> QED
    BY <1>1, <2>1, <2>2 DEF Begin, upstreamVars, TypeOK
<1>2. CASE ListStreams(r)
  <2>1. stage' \in [Requests -> Stages]
    BY <1>2, GoesType DEF ListStreams
  <2>2. seen' \in [Requests -> SUBSET Stream]
    BY <1>2 DEF ListStreams, TypeOK
  <2>3. failures' \in 0..MaxFailures
    BY <1>2, FailuresType DEF ListStreams
  <2> QED
    BY <1>2, <2>1, <2>2, <2>3 DEF ListStreams, upstreamVars, TypeOK
<1>3. CASE PurgeDeprecated(r)
  <2>1. stage' \in [Requests -> Stages]
    BY <1>3, GoesType DEF PurgeDeprecated
  <2>2. streams' \subseteq Stream
    BY <1>3 DEF PurgeDeprecated, TypeOK
  <2>3. failures' \in 0..MaxFailures
    BY <1>3, FailuresType DEF PurgeDeprecated
  <2> QED
    BY <1>3, <2>1, <2>2, <2>3 DEF PurgeDeprecated, TypeOK
<1>4. CASE UpdateStream(r)
  <2>1. PICK s \in Named(seen[r], "namespace") :
          \/ CallSucceeds /\ StreamReady(r, s.id)
          \/ CallFails /\ Goes(r, "failed") /\ UNCHANGED <<stream, seen, streamCache, task>>
    BY <1>4 DEF UpdateStream
  <2>2. s.id \in Ids
    BY <2>1 DEF Named, TypeOK, Stream
  <2>3. /\ stream' \in [Requests -> Ids \cup {NoId}]
        /\ seen' \in [Requests -> SUBSET Stream]
        /\ stage' \in [Requests -> Stages]
        /\ task' \in [Requests -> [Events -> Tasks]]
        /\ streamCache' \in Ids \cup {NoId}
    <3>1. CASE CallSucceeds /\ StreamReady(r, s.id)
      BY <3>1, <2>2, StreamReadyType
    <3>2. CASE CallFails /\ Goes(r, "failed") /\ UNCHANGED <<stream, seen, streamCache, task>>
      BY <3>2, GoesType DEF TypeOK
    <3> QED
      BY <2>1, <3>1, <3>2
  <2>4. failures' \in 0..MaxFailures
    BY <2>1, FailuresType
  <2> QED
    BY <1>4, <2>3, <2>4 DEF UpdateStream, upstreamVars, TypeOK
<1>5. CASE CreateStream(r)
  <2> DEFINE new == [id |-> nextId, name |-> "namespace"]
  <2>1. new \in Stream /\ nextId \in Ids /\ nextId + 1 \in Ids
    BY NextIdType DEF Stream
  <2>2. /\ stream' \in [Requests -> Ids \cup {NoId}]
        /\ seen' \in [Requests -> SUBSET Stream]
        /\ stage' \in [Requests -> Stages]
        /\ task' \in [Requests -> [Events -> Tasks]]
        /\ streamCache' \in Ids \cup {NoId}
    <3>1. CASE CallSucceeds /\ StreamReady(r, nextId)
      BY <3>1, <2>1, StreamReadyType
    <3>2. CASE CallFails /\ Goes(r, "failed") /\ UNCHANGED <<stream, seen, streamCache, task>>
      BY <3>2, GoesType DEF TypeOK
    <3> QED
      BY <1>5, <3>1, <3>2 DEF CreateStream
  <2>3. streams' \subseteq Stream /\ nextId' \in Ids
    <3>1. streams' \in {streams, streams \cup {new}} /\ nextId' \in {nextId, nextId + 1}
      BY <1>5 DEF CreateStream
    <3> QED
      BY <2>1, <3>1 DEF TypeOK
  <2>4. failures' \in 0..MaxFailures
    BY <1>5, FailuresType DEF CreateStream
  <2> QED
    BY <1>5, <2>2, <2>3, <2>4 DEF CreateStream, TypeOK
<1>6. CASE AllSubscribed(r)
  <2>1. stage' \in [Requests -> Stages]
    BY <1>6, GoesType DEF AllSubscribed
  <2> QED
    BY <1>6, <2>1 DEF AllSubscribed, upstreamVars, TypeOK
<1>7. CASE Finish(r)
  <2>1. stage' \in [Requests -> Stages]
    BY <1>7, GoesType DEF Finish
  <2>2. failures' \in 0..MaxFailures
    BY <1>7, FailuresType DEF Finish
  <2> QED
    BY <1>7, <2>1, <2>2 DEF Finish, upstreamVars, TypeOK
<1>8. ASSUME NEW e \in EventsOf(r), ListSubscriptions(r, e)
      PROVE  TypeOK'
  <2>1. /\ stage' \in [Requests -> Stages]
        /\ task' \in [Requests -> [Events -> Tasks]]
    <3>1. CASE UNCHANGED stage /\ \E next \in Tasks : Turns(r, e, next)
      BY <3>1, TurnsType DEF TypeOK
    <3>2. CASE TaskFails(r, e)
      BY <3>2, TaskFailsType
    <3> QED
      BY <1>8, <3>1, <3>2 DEF ListSubscriptions
  <2>2. found' \in [Requests -> [Events -> Ids \cup {NoId}]]
    <3>1. CASE UNCHANGED found
      BY <3>1 DEF TypeOK
    <3>2. ASSUME NEW s \in Matching(r, e), found' = [found EXCEPT ![r][e] = s.id]
          PROVE  found' \in [Requests -> [Events -> Ids \cup {NoId}]]
      <4>1. s.id \in Ids
        BY DEF Matching, TypeOK, Subscription
      <4>2. found[r] \in [Events -> Ids \cup {NoId}] /\ e \in Events
        BY DEF TypeOK
      <4>3. [found[r] EXCEPT ![e] = s.id] \in [Events -> Ids \cup {NoId}]
        BY <4>1, <4>2
      <4>4. found' = [found EXCEPT ![r] = [found[r] EXCEPT ![e] = s.id]]
        BY <3>2
      <4> QED
        BY <4>3, <4>4 DEF TypeOK
    <3> QED
      BY <1>8, <3>1, <3>2 DEF ListSubscriptions
  <2>3. failures' \in 0..MaxFailures
    BY <1>8, FailuresType DEF ListSubscriptions
  <2> QED
    BY <1>8, <2>1, <2>2, <2>3 DEF ListSubscriptions, upstreamVars, TypeOK
<1>9. ASSUME NEW e \in EventsOf(r), CreateSubscription(r, e)
      PROVE  TypeOK'
  <2>1. /\ stage' \in [Requests -> Stages]
        /\ task' \in [Requests -> [Events -> Tasks]]
    <3>1. CASE UNCHANGED stage /\ Turns(r, e, "done")
      BY <3>1, TurnsType DEF TypeOK
    <3>2. CASE TaskFails(r, e)
      BY <3>2, TaskFailsType
    <3> QED
      BY <1>9, <3>1, <3>2 DEF CreateSubscription
  <2>2. subscriptions' \subseteq Subscription /\ nextId' \in Ids
    <3> DEFINE new == [id |-> nextId, name |-> e, stream |-> stream[r]]
    <3>1. subscriptions' \in {subscriptions, subscriptions \cup {new}}
             /\ nextId' \in {nextId, nextId + 1}
      BY <1>9 DEF CreateSubscription
    <3>2. stream[r] \in Ids
      BY <1>9, NextIdType DEF CreateSubscription, TaskOK, TypeOK
    <3>3. new \in Subscription
      BY <3>2, NextIdType DEF Subscription
    <3> QED
      BY <3>1, <3>3, NextIdType DEF TypeOK
  <2>3. failures' \in 0..MaxFailures
    BY <1>9, FailuresType DEF CreateSubscription
  <2> QED
    BY <1>9, <2>1, <2>2, <2>3 DEF CreateSubscription, TypeOK
<1>10. ASSUME NEW e \in EventsOf(r), DeleteSubscription(r, e)
       PROVE  TypeOK'
  <2>1. /\ stage' \in [Requests -> Stages]
        /\ task' \in [Requests -> [Events -> Tasks]]
    <3>1. CASE UNCHANGED stage /\ Turns(r, e, "done")
      BY <3>1, TurnsType DEF TypeOK
    <3>2. CASE TaskFails(r, e)
      BY <3>2, TaskFailsType
    <3> QED
      BY <1>10, <3>1, <3>2 DEF DeleteSubscription
  <2>2. subscriptions' \subseteq Subscription
    BY <1>10 DEF DeleteSubscription, TypeOK
  <2>3. failures' \in 0..MaxFailures
    BY <1>10, FailuresType DEF DeleteSubscription
  <2> QED
    BY <1>10, <2>1, <2>2, <2>3 DEF DeleteSubscription, TypeOK
<1> QED
  BY <1>1, <1>2, <1>3, <1>4, <1>5, <1>6, <1>7, <1>8, <1>9, <1>10 DEF RequestStep

\* A step of one request leaves the work of the others alone, and a request that steps,
\* other than to arrive, is in flight.
LEMMA Frame ==
  ASSUME TypeOK, NEW r \in Requests, RequestStep(r)
  PROVE  /\ \A q \in Requests \ {r} :
               /\ stage'[q] = stage[q] /\ task'[q] = task[q] /\ seen'[q] = seen[q]
               /\ stream'[q] = stream[q] /\ found'[q] = found[q]
         /\ Begin(r) \/ (InFlight(r) /\ overlaps' = overlaps)
         /\ overlaps \subseteq overlaps'
<1> USE EventsOfType
<1>1. CASE Begin(r)
  BY <1>1 DEF Begin, Goes, StartTasks, TypeOK
<1>2. CASE ListStreams(r)
  BY <1>2 DEF ListStreams, Goes, TypeOK, InFlight, Answered
<1>3. CASE PurgeDeprecated(r)
  BY <1>3 DEF PurgeDeprecated, Goes, TypeOK, InFlight, Answered
<1>4. CASE UpdateStream(r)
  BY <1>4 DEF UpdateStream, StreamReady, StartTasks, Goes, TypeOK, InFlight, Answered
<1>5. CASE CreateStream(r)
  BY <1>5 DEF CreateStream, StreamReady, StartTasks, Goes, TypeOK, InFlight, Answered
<1>6. CASE AllSubscribed(r)
  BY <1>6 DEF AllSubscribed, Goes, TypeOK, InFlight, Answered
<1>7. CASE Finish(r)
  BY <1>7 DEF Finish, Goes, TypeOK, InFlight, Answered
<1>8. ASSUME NEW e \in EventsOf(r), ListSubscriptions(r, e)
      PROVE  /\ \A q \in Requests \ {r} :
                   /\ stage'[q] = stage[q] /\ task'[q] = task[q] /\ seen'[q] = seen[q]
                   /\ stream'[q] = stream[q] /\ found'[q] = found[q]
             /\ InFlight(r) /\ overlaps' = overlaps
  BY <1>8 DEF ListSubscriptions, TaskFails, Turns, Goes, TypeOK, InFlight
<1>9. ASSUME NEW e \in EventsOf(r), CreateSubscription(r, e)
      PROVE  /\ \A q \in Requests \ {r} :
                   /\ stage'[q] = stage[q] /\ task'[q] = task[q] /\ seen'[q] = seen[q]
                   /\ stream'[q] = stream[q] /\ found'[q] = found[q]
             /\ InFlight(r) /\ overlaps' = overlaps
  BY <1>9 DEF CreateSubscription, TaskFails, Turns, Goes, TypeOK, InFlight
<1>10. ASSUME NEW e \in EventsOf(r), DeleteSubscription(r, e)
       PROVE  /\ \A q \in Requests \ {r} :
                    /\ stage'[q] = stage[q] /\ task'[q] = task[q] /\ seen'[q] = seen[q]
                    /\ stream'[q] = stream[q] /\ found'[q] = found[q]
              /\ InFlight(r) /\ overlaps' = overlaps
  BY <1>10 DEF DeleteSubscription, TaskFails, Turns, Goes, TypeOK, InFlight
<1> QED
  BY <1>1, <1>2, <1>3, <1>4, <1>5, <1>6, <1>7, <1>8, <1>9, <1>10 DEF RequestStep

\* What a step makes of one task of its request.
LEMMA TurnsFact ==
  ASSUME TypeOK, NEW r \in Requests, NEW e \in Events, NEW next, Turns(r, e, next)
  PROVE  /\ task'[r][e] = next
         /\ \A f \in Events \ {e} : task'[r][f] = task[r][f]
  BY DEF TypeOK, Turns

\* Every step keeps the tasks of its request in order.
LEMMA StepTaskOK ==
  ASSUME TypeOK, NEW r \in Requests, TaskOK(r), StreamInv, RequestStep(r)
  PROVE  TaskOK(r)'
<1> USE EventsOfType
<1>1. CASE Begin(r)
  BY <1>1 DEF Begin, Goes, StartTasks, TypeOK, TaskOK, Deletes
<1>2. CASE ListStreams(r)
  BY <1>2 DEF ListStreams, Goes, TypeOK, TaskOK, Deletes
<1>3. CASE PurgeDeprecated(r)
  BY <1>3 DEF PurgeDeprecated, Goes, TypeOK, TaskOK, Deletes
<1>4. CASE UpdateStream(r)
  BY <1>4 DEF UpdateStream, StreamReady, StartTasks, Goes, TypeOK, TaskOK, Deletes, Ids,
              Named, Stream
<1>5. CASE CreateStream(r)
  BY <1>5 DEF CreateStream, StreamReady, StartTasks, Goes, TypeOK, TaskOK, Deletes, Ids
<1>6. CASE AllSubscribed(r)
  BY <1>6 DEF AllSubscribed, AllDone, Goes, TypeOK, TaskOK, Deletes
<1>7. CASE Finish(r)
  BY <1>7 DEF Finish, Goes, TypeOK, TaskOK, Deletes
<1>8. ASSUME NEW e \in EventsOf(r), ListSubscriptions(r, e)
      PROVE  TaskOK(r)'
  BY <1>8, TurnsFact DEF ListSubscriptions, TaskFails, Goes, TypeOK, TaskOK, Deletes
<1>9. ASSUME NEW e \in EventsOf(r), CreateSubscription(r, e)
      PROVE  TaskOK(r)'
  BY <1>9, TurnsFact DEF CreateSubscription, TaskFails, Goes, TypeOK, TaskOK, Deletes
<1>10. ASSUME NEW e \in EventsOf(r), DeleteSubscription(r, e)
       PROVE  TaskOK(r)'
  <2>1. /\ stage'[r] \in {stage[r], "failed"} /\ stream' = stream
        /\ task'[r][e] \in {"done", "failed"}
        /\ \A f \in Events \ {e} : task'[r][f] = task[r][f]
    BY <1>10, TurnsFact DEF DeleteSubscription, TaskFails, Goes, TypeOK
  <2>2. /\ Deletes(r) /\ task[r][e] = "delete"
        /\ stage[r] \notin {"new", "listing", "purging", "updating", "finishing"}
    BY <1>10 DEF DeleteSubscription, TaskOK
  <2> QED
    BY <2>1, <2>2 DEF TaskOK, Deletes
<1> QED
  BY <1>1, <1>2, <1>3, <1>4, <1>5, <1>6, <1>7, <1>8, <1>9, <1>10 DEF RequestStep

\* No step takes a stream of the namespace away, and ids are never given out again.
LEMMA StreamsGrow ==
  ASSUME TypeOK, NEW r \in Requests, RequestStep(r)
  PROVE  /\ Named(streams, "namespace") \subseteq Named(streams', "namespace")
         /\ nextId' \in Nat /\ nextId \in Nat /\ nextId' >= nextId
         /\ subscriptions' # subscriptions =>
               Named(streams', "namespace") = Named(streams, "namespace")
<1> USE NextIdType
<1>1. CASE Begin(r)
  BY <1>1 DEF Begin, upstreamVars
<1>2. CASE ListStreams(r)
  BY <1>2 DEF ListStreams, upstreamVars
<1>3. CASE PurgeDeprecated(r)
  BY <1>3 DEF PurgeDeprecated, Deprecated, Named
<1>4. CASE UpdateStream(r)
  BY <1>4 DEF UpdateStream, upstreamVars
<1>5. CASE CreateStream(r)
  BY <1>5 DEF CreateStream, Named
<1>6. CASE AllSubscribed(r)
  BY <1>6 DEF AllSubscribed, upstreamVars
<1>7. CASE Finish(r)
  BY <1>7 DEF Finish, upstreamVars
<1>8. ASSUME NEW e \in EventsOf(r), ListSubscriptions(r, e)
      PROVE  UNCHANGED upstreamVars
  BY <1>8 DEF ListSubscriptions
<1>9. ASSUME NEW e \in EventsOf(r), CreateSubscription(r, e)
      PROVE  streams' = streams /\ nextId' \in {nextId, nextId + 1}
  BY <1>9 DEF CreateSubscription
<1>10. ASSUME NEW e \in EventsOf(r), DeleteSubscription(r, e)
       PROVE  streams' = streams /\ nextId' = nextId
  BY <1>10 DEF DeleteSubscription
<1> QED
  BY <1>1, <1>2, <1>3, <1>4, <1>5, <1>6, <1>7, <1>8, <1>9, <1>10
  DEF RequestStep, upstreamVars

\* The one new listener a step may make, and the listeners one may delete.
LEMMA ListenersChange ==
  ASSUME TypeOK, NEW r \in Requests, TaskOK(r), RequestStep(r)
  PROVE  \/ subscriptions' = subscriptions
         \/ \E e \in EventsOf(r) :
               /\ task[r][e] = "create" /\ ~Deletes(r)
               /\ task'[r][e] \in {"done", "failed"}
               /\ stream[r] \in Ids
               /\ nextId' = nextId + 1
               /\ stream' = stream
               /\ subscriptions' =
                     subscriptions \cup {[id |-> nextId, name |-> e, stream |-> stream[r]]}
         \/ \E e \in EventsOf(r) :
               /\ task[r][e] = "delete" /\ Deletes(r)
               /\ task'[r][e] \in {"done", "failed"}
               /\ subscriptions' = {s \in subscriptions : s.id # found[r][e]}
<1> USE EventsOfType
<1>1. CASE subscriptions' # subscriptions
  <2>1. PICK e \in EventsOf(r) : CreateSubscription(r, e) \/ DeleteSubscription(r, e)
    BY <1>1 DEF RequestStep, Begin, ListStreams, PurgeDeprecated, UpdateStream, CreateStream,
                AllSubscribed, Finish, ListSubscriptions, upstreamVars
  <2>2. CASE CreateSubscription(r, e)
    <3>1. task[r][e] = "create" /\ stream' = stream /\ task'[r][e] \in {"done", "failed"}
      BY <2>2, TurnsFact DEF CreateSubscription, TaskFails
    <3>2. ~Deletes(r) /\ stream[r] \in Ids
      BY <3>1 DEF TaskOK, TypeOK
    <3>3. /\ nextId' = nextId + 1
          /\ subscriptions' =
                subscriptions \cup {[id |-> nextId, name |-> e, stream |-> stream[r]]}
      BY <1>1, <2>2 DEF CreateSubscription
    <3> QED
      BY <3>1, <3>2, <3>3
  <2>3. CASE DeleteSubscription(r, e)
    <3>1. /\ task[r][e] = "delete" /\ task'[r][e] \in {"done", "failed"}
          /\ subscriptions' = {s \in subscriptions : s.id # found[r][e]}
      BY <1>1, <2>3, TurnsFact DEF DeleteSubscription, TaskFails
    <3> QED
      BY <3>1 DEF TaskOK
  <2> QED
    BY <2>1, <2>2, <2>3
<1> QED
  BY <1>1

\* Where a request's stream, and the cached one, come from.
LEMMA StreamFrom ==
  ASSUME TypeOK, StreamInv, NEW r \in Requests, RequestStep(r)
  PROVE  /\ stream'[r] # NoId => stream'[r] \in NamespaceIds'
         /\ streamCache' # NoId => streamCache' \in NamespaceIds'
         /\ Named(seen'[r], "namespace") \subseteq streams'
<1> USE EventsOfType
<1>1. NamespaceIds \subseteq NamespaceIds'
  BY StreamsGrow DEF NamespaceIds
<1>2. /\ stream[r] # NoId => stream[r] \in NamespaceIds'
      /\ streamCache # NoId => streamCache \in NamespaceIds'
  BY <1>1 DEF StreamInv, StreamsKept, NamespaceIds
<1>3. Named(seen[r], "namespace") \subseteq streams'
  BY StreamsGrow DEF StreamInv, Named
<1>4. CASE Begin(r)
  BY <1>2, <1>3, <1>4 DEF Begin, TypeOK
<1>5. CASE ListStreams(r)
  BY <1>2, <1>3, <1>5 DEF ListStreams, TypeOK, Named, upstreamVars
<1>6. CASE UpdateStream(r)
  <2>1. PICK s \in Named(seen[r], "namespace") :
          \/ StreamReady(r, s.id)
          \/ UNCHANGED <<stream, seen, streamCache>>
    BY <1>6 DEF UpdateStream
  <2>2. s.id \in NamespaceIds'
    BY <1>3, <2>1 DEF NamespaceIds, Named
  <2> QED
    BY <1>2, <1>3, <2>1, <2>2 DEF StreamReady, TypeOK, Named
<1>7. CASE CreateStream(r)
  <2>1. CASE /\ StreamReady(r, nextId)
             /\ streams' = streams \cup {[id |-> nextId, name |-> "namespace"]}
    <3> DEFINE new == [id |-> nextId, name |-> "namespace"]
    <3>1. new \in Named(streams', "namespace") /\ new.id = nextId
      BY <2>1 DEF Named
    <3>2. nextId \in NamespaceIds'
      BY <3>1 DEF NamespaceIds
    <3> HIDE DEF new
    <3> QED
      BY <1>2, <1>3, <2>1, <3>2 DEF StreamReady, TypeOK, Named
  <2>2. CASE UNCHANGED <<stream, seen, streamCache>>
    BY <1>2, <1>3, <2>2
  <2> QED
    BY <1>7, <2>1, <2>2 DEF CreateStream
<1>8. CASE UNCHANGED <<stream, seen, streamCache>>
  BY <1>2, <1>3, <1>8
<1> QED
  BY <1>4, <1>5, <1>6, <1>7, <1>8 DEF RequestStep, PurgeDeprecated, AllSubscribed, Finish,
     ListSubscriptions, CreateSubscription, DeleteSubscription

\* Every step works with streams of the namespace only.
LEMMA StepStreamInv ==
  ASSUME TypeOK, StreamInv, NEW r \in Requests, TaskOK(r), RequestStep(r)
  PROVE  StreamInv'
<1>1. \A s \in subscriptions' : s.stream \in NamespaceIds' /\ s.id < nextId'
  <2>1. \A s \in subscriptions : s.stream \in NamespaceIds' /\ s.id < nextId'
    BY StreamsGrow DEF StreamInv, StreamsKept, NamespaceIds, TypeOK, Subscription, Ids
  <2>2. CASE subscriptions' \subseteq subscriptions
    BY <2>1, <2>2
  <2>3. CASE /\ stream[r] \in Ids
             /\ nextId' = nextId + 1
             /\ \E e \in EventsOf(r) : subscriptions' =
                   subscriptions \cup {[id |-> nextId, name |-> e, stream |-> stream[r]]}
    <3>1. stream[r] \in NamespaceIds'
      BY <2>3, StreamsGrow DEF StreamInv, NamespaceIds, Ids
    <3> QED
      BY <2>1, <2>3, <3>1, NextIdType
  <2> QED
    BY <2>2, <2>3, ListenersChange
<1>2. \A q \in Requests :
        /\ Named(seen'[q], "namespace") \subseteq streams'
        /\ stream'[q] # NoId => stream'[q] \in NamespaceIds'
  <2>1. ASSUME NEW q \in Requests \ {r}
        PROVE  /\ Named(seen'[q], "namespace") \subseteq streams'
               /\ stream'[q] # NoId => stream'[q] \in NamespaceIds'
    BY Frame, StreamsGrow DEF StreamInv, NamespaceIds, Named
  <2> QED
    BY <2>1, StreamFrom
<1> QED
  BY <1>1, <1>2, StreamFrom DEF StreamInv, StreamsKept, NamespaceIds

\* Every step records the requests it finds in flight.
LEMMA StepOverlapInv ==
  ASSUME TypeOK, OverlapInv, NEW r \in Requests, TaskOK(r), RequestStep(r)
  PROVE  OverlapInv'
<1>1. \A q \in Requests \ {r} : InFlight(q)' <=> InFlight(q)
  BY Frame DEF InFlight
<1>2. CASE Begin(r)
  <2>1. \A q \in Requests : InFlight(q) => {q, r} \in overlaps'
    BY <1>2 DEF Begin
  <2> QED
    BY <1>1, <2>1, Frame DEF OverlapInv
<1>3. CASE InFlight(r) /\ overlaps' = overlaps
  BY <1>1, <1>3 DEF OverlapInv
<1> QED
  BY <1>2, <1>3, Frame

\* What a step makes of the stage of its request.
LEMMA StageMoves ==
  ASSUME TypeOK, NEW r \in Requests, TaskOK(r), RequestStep(r)
  PROVE  /\ stage[r] \in Answered => stage'[r] = stage[r]
         /\ stage'[r] \in {"purging", "updating"} =>
               \/ /\ seen'[r] = streams /\ streams' = streams
                  /\ stage[r] = "listing"
               \/ /\ seen' = seen /\ stage[r] = "purging"
                  /\ Named(streams', "namespace") = Named(streams, "namespace")
         /\ stage[r] # "ok" /\ stage'[r] = "ok" /\ r \notin Connections =>
               /\ UNCHANGED <<subscriptions, overlaps, stream, task>>
               /\ \/ stage[r] = "finishing"
                  \/ stage[r] = "subscribing" /\ Deletes(r) /\ AllDone(r)
<1> USE EventsOfType
<1>1. CASE Begin(r)
  BY <1>1 DEF Begin, Goes, TypeOK, Answered
<1>2. CASE ListStreams(r)
  BY <1>2 DEF ListStreams, Goes, TypeOK, Answered, upstreamVars
<1>3. CASE PurgeDeprecated(r)
  <2>1. Named(streams', "namespace") = Named(streams, "namespace")
    BY <1>3 DEF PurgeDeprecated, Deprecated, Named
  <2> QED
    BY <1>3, <2>1 DEF PurgeDeprecated, Goes, TypeOK, Answered
<1>4. CASE UpdateStream(r)
  BY <1>4 DEF UpdateStream, StreamReady, Goes, TypeOK, Answered
<1>5. CASE CreateStream(r)
  BY <1>5 DEF CreateStream, StreamReady, Goes, TypeOK, Answered
<1>6. CASE AllSubscribed(r)
  BY <1>6 DEF AllSubscribed, Goes, TypeOK, Answered, upstreamVars
<1>7. CASE Finish(r)
  BY <1>7 DEF Finish, Goes, TypeOK, Answered, upstreamVars
<1>8. ASSUME NEW e \in EventsOf(r),
             ListSubscriptions(r, e) \/ CreateSubscription(r, e) \/ DeleteSubscription(r, e)
      PROVE  /\ stage'[r] \in {stage[r], "failed"}
             /\ stage[r] \in Answered => stage'[r] = stage[r]
             /\ stage[r] \notin {"purging", "updating"}
  <2>1. task[r][e] \in {"list", "create", "delete"}
    BY <1>8 DEF ListSubscriptions, CreateSubscription, DeleteSubscription
  <2>2. stage[r] \notin {"purging", "updating"}
    BY <2>1 DEF TaskOK
  <2>3. UNCHANGED stage \/ TaskFails(r, e)
    BY <1>8 DEF ListSubscriptions, CreateSubscription, DeleteSubscription
  <2> QED
    BY <2>2, <2>3 DEF TaskFails, Goes, TypeOK, Answered
<1> QED
  BY <1>1, <1>2, <1>3, <1>4, <1>5, <1>6, <1>7, <1>8 DEF RequestStep

\* What a step makes of one task of its request, and of the listeners with it.
TaskMove(r, e) ==
    \/ task'[r][e] = task[r][e] /\ found'[r][e] = found[r][e]
    \/ task'[r][e] \in {"none", "list"}
    \/ task'[r][e] = "failed" /\ stage'[r] # "subscribing"
    \/ /\ task[r][e] = "list" /\ Matching(r, e) = {} /\ UNCHANGED subscriptions
       /\ task'[r][e] = IF Deletes(r) THEN "absent" ELSE "create"
    \/ /\ task[r][e] = "list" /\ Matching(r, e) # {} /\ UNCHANGED subscriptions
       /\ ~Deletes(r) /\ task'[r][e] = "done"
    \/ /\ task[r][e] = "list" /\ UNCHANGED subscriptions
       /\ Deletes(r) /\ task'[r][e] = "delete"
       /\ \E s \in Matching(r, e) : found'[r][e] = s.id
    \/ /\ task[r][e] = "create" /\ task'[r][e] = "done"
       /\ subscriptions' =
             subscriptions \cup {[id |-> nextId, name |-> e, stream |-> stream[r]]}
    \/ /\ task[r][e] = "delete" /\ task'[r][e] = "done"
       /\ subscriptions' = {s \in subscriptions : s.id # found[r][e]}

\* A step that is not the first of a task keeps the stream of its request.
LEMMA TaskMoves ==
  ASSUME TypeOK, NEW r \in Requests, TaskOK(r), RequestStep(r), NEW e \in Events
  PROVE  /\ TaskMove(r, e)
         /\ task[r][e] # "none" => stream'[r] = stream[r]
<1> USE EventsOfType
<1>1. CASE Begin(r)
  BY <1>1 DEF Begin, StartTasks, TypeOK, TaskOK, TaskMove
<1>2. CASE ListStreams(r)
  BY <1>2 DEF ListStreams, TaskMove
<1>3. CASE PurgeDeprecated(r)
  BY <1>3 DEF PurgeDeprecated, TaskMove
<1>4. CASE UpdateStream(r)
  BY <1>4 DEF UpdateStream, StreamReady, StartTasks, TypeOK, TaskOK, TaskMove
<1>5. CASE CreateStream(r)
  BY <1>5 DEF CreateStream, StreamReady, StartTasks, TypeOK, TaskOK, TaskMove
<1>6. CASE AllSubscribed(r) \/ Finish(r)
  BY <1>6 DEF AllSubscribed, Finish, TaskMove
<1>7. ASSUME NEW f \in EventsOf(r), f # e,
             ListSubscriptions(r, f) \/ CreateSubscription(r, f) \/ DeleteSubscription(r, f)
      PROVE  TaskMove(r, e) /\ stream'[r] = stream[r]
  <2>1. task'[r][e] = task[r][e]
    BY <1>7, TurnsFact DEF ListSubscriptions, CreateSubscription, DeleteSubscription, TaskFails
  <2>2. found'[r][e] = found[r][e] /\ stream'[r] = stream[r]
    BY <1>7 DEF ListSubscriptions, CreateSubscription, DeleteSubscription, TypeOK
  <2> QED
    BY <2>1, <2>2 DEF TaskMove
<1>8. ASSUME TaskFails(r, e)
      PROVE  task'[r][e] = "failed" /\ stage'[r] # "subscribing"
  BY <1>8, TurnsFact DEF TaskFails, Goes, TypeOK
<1>9. ASSUME ListSubscriptions(r, e)
      PROVE  TaskMove(r, e) /\ stream'[r] = stream[r]
  <2>1. UNCHANGED <<subscriptions, stream>> /\ task[r][e] = "list"
    BY <1>9 DEF ListSubscriptions, upstreamVars
  <2>2. CASE TaskFails(r, e)
    BY <1>8, <2>1, <2>2 DEF TaskMove
  <2>3. CASE Matching(r, e) = {} /\ Turns(r, e, IF Deletes(r) THEN "absent" ELSE "create")
    BY <2>1, <2>3, TurnsFact DEF TaskMove
  <2>4. ASSUME Deletes(r), Turns(r, e, "delete"), NEW s \in Matching(r, e),
               found' = [found EXCEPT ![r][e] = s.id]
        PROVE  TaskMove(r, e)
    <3>1. found'[r][e] = s.id
      BY <2>4 DEF TypeOK
    <3> QED
      BY <2>1, <2>4, <3>1, TurnsFact DEF TaskMove
  <2>5. CASE Matching(r, e) # {} /\ ~Deletes(r) /\ Turns(r, e, "done")
    BY <2>1, <2>5, TurnsFact DEF TaskMove
  <2> QED
    BY <1>9, <2>1, <2>2, <2>3, <2>4, <2>5 DEF ListSubscriptions
<1>10. ASSUME CreateSubscription(r, e)
       PROVE  TaskMove(r, e) /\ stream'[r] = stream[r]
  BY <1>8, <1>10, TurnsFact DEF CreateSubscription, TaskMove
<1>11. ASSUME DeleteSubscription(r, e)
       PROVE  TaskMove(r, e) /\ stream'[r] = stream[r]
  BY <1>8, <1>11, TurnsFact DEF DeleteSubscription, TaskMove
<1> QED
  BY <1>1, <1>2, <1>3, <1>4, <1>5, <1>6, <1>7, <1>9, <1>10, <1>11 DEF RequestStep
-----------------------------------------------------------------------------
(* The invariant *)

\* The invariant holds at first,
LEMMA InitListenerInv == Init => ListenerInv
<1> SUFFICES ASSUME Init PROVE ListenerInv
  OBVIOUS
<1>1. TaskInv
  BY DEF Init, TaskInv, TaskOK
<1>2. StreamInv
  BY DEF Init, StreamInv, StreamsKept, Named
<1>3. OverlapInv
  BY DEF Init, OverlapInv, InFlight
<1> QED
  BY <1>1, <1>2, <1>3, InitTypeOK DEF ListenerInv

\* every step of a request keeps it,
LEMMA StepListenerInv ==
  ASSUME ListenerInv, NEW r \in Requests, RequestStep(r)
  PROVE  ListenerInv'
<1>1. TypeOK /\ StreamInv /\ OverlapInv /\ TaskOK(r)
  BY DEF ListenerInv, TaskInv
<1>2. TaskInv'
  <2>1. ASSUME NEW q \in Requests \ {r}
        PROVE  TaskOK(q)'
    BY <1>1, Frame DEF TaskOK, ListenerInv, TaskInv, Deletes
  <2>2. TaskOK(r)'
    BY <1>1, StepTaskOK
  <2> QED
    BY <2>1, <2>2 DEF TaskInv
<1> QED
  BY <1>1, <1>2, RequestTypeOK, StepStreamInv, StepOverlapInv DEF ListenerInv

\* A restart ends the requests it finds: none of them is in flight after it.
LEMMA CrashFact ==
  ASSUME TypeOK, Crash
  PROVE  /\ UNCHANGED <<streams, subscriptions, nextId, seen, stream, found, overlaps>>
         /\ \A r \in Requests :
               /\ stage'[r] \in Answered \cup {"new"}
               /\ stage[r] \in Answered \cup {"new"} => stage'[r] = stage[r]
               /\ stage'[r] # stage[r] => stage'[r] = "failed"
               /\ \A e \in Events :
                     /\ task'[r][e] \in Settled \cup {"none"}
                     /\ task'[r][e] # "none" => task'[r][e] = task[r][e]
  BY DEF Crash, TypeOK, upstreamVars, Answered

\* and so do a restart
LEMMA CrashListenerInv == ListenerInv /\ Crash => ListenerInv'
<1> SUFFICES ASSUME ListenerInv, Crash PROVE ListenerInv'
  OBVIOUS
<1> USE DEF ListenerInv
<1>1. TypeOK'
  <2>1. stage' \in [Requests -> Stages]
    BY DEF Crash, TypeOK, Stages, Answered
  <2>2. task' \in [Requests -> [Events -> Tasks]]
    BY DEF Crash, TypeOK, Tasks
  <2>3. crashes' \in 0..MaxCrashes
    BY ListenersAssumption DEF Crash, TypeOK
  <2> QED
    BY <2>1, <2>2, <2>3 DEF Crash, TypeOK, upstreamVars
<1>2. TaskInv'
  BY CrashFact DEF TaskInv, TaskOK, Deletes, Answered, Settled
<1>3. StreamInv'
  BY CrashFact DEF Crash, StreamInv, StreamsKept, NamespaceIds
<1>4. OverlapInv'
  BY CrashFact DEF OverlapInv, InFlight, Settled
<1> QED
  BY <1>1, <1>2, <1>3, <1>4

\* and a step that changes nothing.
LEMMA StutterListenerInv == ListenerInv /\ UNCHANGED vars => ListenerInv'
  BY DEF ListenerInv, TypeOK, TaskInv, TaskOK, StreamInv, StreamsKept, NamespaceIds,
         OverlapInv, InFlight, vars, upstreamVars, requestVars

\* The invariant is inductive.
LEMMA ListenerInvStep == ListenerInv /\ [Next]_vars => ListenerInv'
  BY StepListenerInv, CrashListenerInv, StutterListenerInv DEF Next

\* The invariant of the provisioning: types, the order of the tasks of a request, the
\* streams it works with, and the history of the requests in flight together.
THEOREM ListenersInvariant == Spec => []ListenerInv
<1> QED
  BY InitListenerInv, ListenerInvStep, PTL DEF Spec

\* The variables of PoolListeners keep their types for any number of requests.
THEOREM ListenersTypeCorrect == Spec => []TypeOK
<1>1. ListenerInv => TypeOK
  BY DEF ListenerInv
<1> QED
  BY <1>1, ListenersInvariant, PTL

\* No request, whatever fails and whatever runs beside it, leaves a listener or the cache
\* with a stream that was purged (createOrUpdateStream, getStream).
THEOREM StreamsAlwaysKept == Spec => []StreamsKept
<1>1. ListenerInv => StreamsKept
  BY DEF ListenerInv, StreamInv
<1> QED
  BY <1>1, ListenersInvariant, PTL
-----------------------------------------------------------------------------
(* Nothing is made twice *)

\* While no two requests were in flight together, the one that steps is alone.
LEMMA Alone ==
  ASSUME ListenerInv, NEW r \in Requests, RequestStep(r), overlaps' = {}
  PROVE  /\ overlaps = {}
         /\ \A q \in Requests \ {r} :
               /\ stage'[q] \notin {"purging", "updating"}
               /\ \A e \in Events : task'[q][e] # "create"
<1>1. TypeOK
  BY DEF ListenerInv
<1>2. overlaps = {}
  BY <1>1, Frame
<1>3. ASSUME NEW q \in Requests \ {r}
      PROVE  ~InFlight(q)
  <2>1. CASE Begin(r)
    BY <2>1 DEF Begin
  <2>2. CASE InFlight(r)
    BY <2>2, <1>2 DEF ListenerInv, OverlapInv
  <2> QED
    BY <1>1, <2>1, <2>2, Frame
<1> QED
  BY <1>1, <1>2, <1>3, Frame DEF InFlight, Answered

\* A request that is alone makes a stream only when there is none.
LEMMA StepStreamsUnique ==
  ASSUME ListenerInv, UniqueInv, NEW r \in Requests, RequestStep(r), overlaps' = {}
  PROVE  \A s, t \in Named(streams', "namespace") : s = t
<1>1. overlaps = {}
  BY Alone
<1>2. CASE Named(streams', "namespace") = Named(streams, "namespace")
  BY <1>1, <1>2 DEF UniqueInv
<1>3. CASE CreateStream(r)
  <2>1. Named(streams, "namespace") = {}
    BY <1>1, <1>3 DEF CreateStream, UniqueInv
  <2>2. streams' \subseteq streams \cup {[id |-> nextId, name |-> "namespace"]}
    BY <1>3 DEF CreateStream
  <2> QED
    BY <2>1, <2>2 DEF Named
<1>4. CASE PurgeDeprecated(r)
  <2>1. Named(streams', "namespace") = Named(streams, "namespace")
    BY <1>4 DEF PurgeDeprecated, Deprecated, Named
  <2> QED
    BY <1>2, <2>1
<1>5. CASE streams' = streams
  BY <1>2, <1>5
<1> QED
  BY <1>3, <1>4, <1>5 DEF RequestStep, Begin, ListStreams, UpdateStream, AllSubscribed,
     Finish, ListSubscriptions, CreateSubscription, DeleteSubscription, upstreamVars

\* The listeners of a request's event are those of the namespace with its name.
LEMMA MatchingAll ==
  ASSUME ListenerInv, UniqueInv, overlaps = {}, NEW r \in Requests, NEW e \in Events,
         task[r][e] # "none", Matching(r, e) = {}
  PROVE  \A s \in subscriptions : s.name # e
<1>1. stream[r] \in NamespaceIds
  BY DEF ListenerInv, TaskInv, TaskOK, StreamInv
<1>2. \A s \in subscriptions : s.stream = stream[r]
  BY <1>1 DEF ListenerInv, StreamInv, StreamsKept, NamespaceIds, UniqueInv
<1> QED
  BY <1>2 DEF Matching

\* What a request that is alone makes is new.
LEMMA StepUniqueInv ==
  ASSUME ListenerInv, UniqueInv, NEW r \in Requests, RequestStep(r)
  PROVE  UniqueInv'
<1> SUFFICES ASSUME overlaps' = {}
             PROVE  /\ \A s, t \in Named(streams, "namespace")' : s = t
                    /\ \A s, t \in subscriptions' : s.name = t.name => s = t
                    /\ \A q \in Requests :
                          stage'[q] \in {"purging", "updating"} =>
                              Named(seen'[q], "namespace") = Named(streams', "namespace")
                    /\ \A q \in Requests, e \in Events :
                          task'[q][e] = "create" => \A s \in subscriptions' : s.name # e
  BY DEF UniqueInv, Named
<1>1. TypeOK /\ TaskOK(r)
  BY DEF ListenerInv, TaskInv
<1>2. overlaps = {}
  BY Alone
<1>3. \A s, t \in subscriptions' : s.name = t.name => s = t
  <2>1. CASE subscriptions' \subseteq subscriptions
    BY <1>2, <2>1 DEF UniqueInv
  <2>2. ASSUME NEW e \in EventsOf(r), task[r][e] = "create",
               subscriptions' =
                 subscriptions \cup {[id |-> nextId, name |-> e, stream |-> stream[r]]}
        PROVE  \A s, t \in subscriptions' : s.name = t.name => s = t
    BY <1>2, <2>2, EventsOfType DEF UniqueInv
  <2> QED
    BY <1>1, <2>1, <2>2, ListenersChange
<1>4. ASSUME NEW q \in Requests, stage'[q] \in {"purging", "updating"}
      PROVE  Named(seen'[q], "namespace") = Named(streams', "namespace")
  <2>1. q = r
    BY <1>4, Alone
  <2>2. CASE seen'[r] = streams /\ streams' = streams
    BY <2>1, <2>2
  <2>3. CASE /\ seen' = seen /\ stage[r] = "purging"
             /\ Named(streams', "namespace") = Named(streams, "namespace")
    BY <1>2, <2>1, <2>3 DEF UniqueInv
  <2> QED
    BY <1>1, <1>4, <2>1, <2>2, <2>3, StageMoves
<1>5. ASSUME NEW q \in Requests, NEW e \in Events, task'[q][e] = "create",
             NEW s \in subscriptions'
      PROVE  s.name # e
  <2>1. q = r
    BY <1>5, Alone
  <2>2. TaskMove(r, e)
    BY <1>1, TaskMoves
  <2>3. \A t \in subscriptions : t.name # e
    <3>1. CASE task[r][e] = "create"
      BY <1>2, <3>1 DEF UniqueInv
    <3>2. CASE task[r][e] = "list" /\ Matching(r, e) = {}
      BY <1>2, <3>2, MatchingAll
    <3> QED
      BY <1>5, <2>1, <2>2, <3>1, <3>2 DEF TaskMove
  <2>4. CASE s \in subscriptions
    BY <2>3, <2>4
  <2>5. CASE s \notin subscriptions
    BY <1>1, <1>5, <2>1, <2>5, ListenersChange
  <2> QED
    BY <2>4, <2>5
<1> QED
  BY <1>3, <1>4, <1>5, StepStreamsUnique DEF Named

\* A set in which all are equal has one element at most.
LEMMA SingleCardinality ==
  ASSUME NEW S, \A s, t \in S : s = t
  PROVE  ~(Cardinality(S) > 1)
<1>1. CASE S = {}
  BY <1>1, FS_EmptySet
<1>2. CASE S # {}
  <2>1. PICK s \in S : S = {s}
    BY <1>2
  <2> QED
    BY <2>1, FS_Singleton
<1> QED
  BY <1>1, <1>2

\* Failed calls, lost answers, restarts and retries never make a second stream for the
\* namespace or a second listener for an event: that takes two requests in flight together
\* (createOrUpdateStream, getOrCreateSubscription).
THEOREM RetriesNeverMakeTwo == Spec => []RetriesNeverDuplicate
<1>1. Init => UniqueInv
  <2>1. Init => \A s, t \in Named(streams, "namespace") : s = t
    BY DEF Init, Named
  <2> QED
    BY <2>1 DEF Init, UniqueInv
<1>2. ListenerInv /\ UniqueInv /\ [Next]_vars => UniqueInv'
  <2> SUFFICES ASSUME ListenerInv, UniqueInv, [Next]_vars PROVE UniqueInv'
    OBVIOUS
  <2>1. CASE Crash
    <3>1. \A r \in Requests : stage'[r] \notin {"purging", "updating"}
             /\ \A e \in Events : task'[r][e] # "create"
      BY <2>1, CrashFact DEF ListenerInv, Answered, Settled
    <3> QED
      BY <2>1, <3>1, CrashFact DEF ListenerInv, UniqueInv
  <2>2. CASE UNCHANGED vars
    BY <2>2 DEF UniqueInv, vars, upstreamVars, requestVars
  <2> QED
    BY <2>1, <2>2, StepUniqueInv DEF Next
<1>3. ListenerInv /\ UniqueInv => RetriesNeverDuplicate
  <2> SUFFICES ASSUME ListenerInv, UniqueInv PROVE RetriesNeverDuplicate
    OBVIOUS
  <2>1. CASE overlaps = {}
    <3>1. ~(Cardinality(Named(streams, "namespace")) > 1)
      BY <2>1, SingleCardinality DEF UniqueInv
    <3>2. ASSUME NEW e \in Events
          PROVE  ~(Cardinality({s \in subscriptions : s.name = e}) > 1)
      <4> DEFINE same == {s \in subscriptions : s.name = e}
      <4>1. \A s, t \in same : s = t
        BY <2>1 DEF UniqueInv
      <4> HIDE DEF same
      <4>2. ~(Cardinality(same) > 1)
        BY <4>1, SingleCardinality
      <4> QED
        BY <4>2 DEF same
    <3> QED
      BY <3>1, <3>2 DEF RetriesNeverDuplicate
  <2>2. CASE overlaps # {}
    <3>1. ~Sequential(Requests)
      BY <2>2 DEF Sequential, ListenerInv, TypeOK
    <3> QED
      BY <3>1 DEF RetriesNeverDuplicate
  <2> QED
    BY <2>1, <2>2
<1> QED
  BY <1>1, <1>2, <1>3, ListenersInvariant, PTL DEF Spec
-----------------------------------------------------------------------------
(* What an answer promises *)

\* A step of one request while another is in flight is in the history.
LEMMA InHistory ==
  ASSUME ListenerInv, NEW r \in Requests, NEW q \in Requests, q # r, RequestStep(q),
         ~Begin(q), InFlight(r)
  PROVE  {q, r} \in overlaps
  BY Frame DEF ListenerInv, OverlapInv

\* Only a deactivation takes a listener away.
LEMMA StepActivatedInv ==
  ASSUME ListenerInv, ActivatedInv, NEW q \in Requests, RequestStep(q)
  PROVE  ActivatedInv'
<1> SUFFICES ASSUME NEW r \in Activations \cup Creations,
                    stage'[r] \in {"subscribing", "finishing"},
                    \A d \in Deactivations : {d, r} \notin overlaps',
                    NEW e \in Events, task'[r][e] = "done"
             PROVE  \E s \in subscriptions' : s.name = e /\ s.stream = stream'[r]
  BY DEF ActivatedInv, HasListener
<1>1. TypeOK /\ TaskOK(q) /\ TaskOK(r) /\ r \in Requests /\ ~Deletes(r)
  BY ListenersAssumption DEF ListenerInv, TaskInv, Requests, Deletes
<1>2. \A d \in Deactivations : {d, r} \notin overlaps
  BY <1>1, Frame
<1>3. CASE q = r
  <2>1. subscriptions \subseteq subscriptions'
    BY <1>1, <1>3, ListenersChange
  <2>2. TaskMove(r, e)
    BY <1>1, <1>3, TaskMoves
  <2>3. CASE task[r][e] = "done"
    <3>1. stage[r] \in {"subscribing", "finishing"}
      BY <1>1, <1>3, <2>3, StageMoves DEF TaskOK, TypeOK, Stages, Answered
    <3>2. stream'[r] = stream[r]
      BY <1>1, <1>3, <2>3, TaskMoves
    <3> QED
      BY <1>2, <2>1, <2>3, <3>1, <3>2 DEF ActivatedInv, HasListener
  <2>4. CASE task[r][e] = "list" /\ Matching(r, e) # {}
    BY <1>1, <1>3, <2>1, <2>4, TaskMoves DEF Matching
  <2>5. CASE /\ task[r][e] = "create"
             /\ subscriptions' =
                  subscriptions \cup {[id |-> nextId, name |-> e, stream |-> stream[r]]}
    <3> DEFINE new == [id |-> nextId, name |-> e, stream |-> stream[r]]
    <3>1. new \in subscriptions' /\ new.name = e /\ new.stream = stream[r]
      BY <2>5
    <3>2. stream'[r] = stream[r]
      BY <1>1, <1>3, <2>5, TaskMoves
    <3> HIDE DEF new
    <3> QED
      BY <3>1, <3>2
  <2> QED
    BY <1>1, <2>2, <2>3, <2>4, <2>5 DEF TaskMove, TaskOK
<1>4. CASE q # r
  <2>1. /\ stage'[r] = stage[r] /\ task'[r] = task[r] /\ stream'[r] = stream[r]
    BY <1>1, <1>4, Frame
  <2>2. PICK s \in subscriptions : s.name = e /\ s.stream = stream[r]
    BY <1>2, <2>1 DEF ActivatedInv, HasListener
  <2>3. InFlight(r)
    BY <2>1 DEF InFlight, Answered
  <2>4. CASE subscriptions \subseteq subscriptions'
    BY <2>1, <2>2, <2>4
  <2>5. CASE Deletes(q) /\ subscriptions' # subscriptions
    <3>1. ~Begin(q)
      BY <2>5 DEF Begin, upstreamVars
    <3>2. {q, r} \in overlaps
      BY <1>1, <1>4, <2>3, <3>1, InHistory
    <3> QED
      BY <1>2, <2>5, <3>2 DEF Deletes
  <2> QED
    BY <1>1, <2>4, <2>5, ListenersChange
<1> QED
  BY <1>3, <1>4

\* When an activation is answered, every event of the pool has a listener on its stream,
\* whatever failed before, unless a deactivation ran beside it (activatePool,
\* createFromFactory).
THEOREM AnsweredMeansListening == Spec => ActivationComplete
<1>1. Init => ActivatedInv
  BY DEF Init, ActivatedInv, Requests
<1>2. ListenerInv /\ ActivatedInv /\ [Next]_vars => ActivatedInv'
  <2> SUFFICES ASSUME ListenerInv, ActivatedInv, [Next]_vars PROVE ActivatedInv'
    OBVIOUS
  <2>1. CASE Crash
    <3>1. \A r \in Requests : stage'[r] \notin {"subscribing", "finishing"}
      BY <2>1, CrashFact DEF ListenerInv, Answered
    <3> QED
      BY <3>1 DEF ActivatedInv, Requests
  <2>2. CASE UNCHANGED vars
    <3>1. UNCHANGED <<stage, task, stream, subscriptions, overlaps>>
      BY <2>2 DEF vars, upstreamVars, requestVars
    <3> QED
      BY <3>1 DEF ActivatedInv, HasListener
  <2> QED
    BY <2>1, <2>2, StepActivatedInv DEF Next
<1>3. ASSUME ListenerInv, ActivatedInv, [Next]_vars,
             NEW r \in Activations \cup Creations, AnsweredOk(r),
             \A d \in Deactivations : {d, r} \notin overlaps,
             NEW e \in EventsOf(r)
      PROVE  Listens(r, e)
  <2>1. r \in Requests /\ TypeOK /\ TaskOK(r) /\ e \in Events
    BY <1>3, EventsOfType DEF ListenerInv, TaskInv, Requests
  <2>2. ~Deletes(r) /\ r \notin Connections
    BY ListenersAssumption DEF Deletes
  <2>3. RequestStep(r)
    <3>1. ~Crash /\ ~UNCHANGED vars
      BY <1>3, <2>1, CrashFact DEF AnsweredOk, vars, requestVars
    <3>2. PICK q \in Requests : RequestStep(q)
      BY <1>3, <3>1 DEF Next
    <3> QED
      BY <1>3, <2>1, <3>2, Frame DEF AnsweredOk
  <2>4. stage[r] = "finishing" /\ UNCHANGED subscriptions
    BY <1>3, <2>1, <2>2, <2>3, StageMoves DEF AnsweredOk
  <2> QED
    BY <1>3, <2>1, <2>4 DEF ActivatedInv, HasListener, TaskOK, Listens
<1>4. ListenerInv /\ ActivatedInv /\ [Next]_vars =>
        [\A r \in Activations \cup Creations :
            AnsweredOk(r) /\ (\A d \in Deactivations : {d, r} \notin overlaps) =>
                \A e \in EventsOf(r) : Listens(r, e)]_vars
  BY <1>3
<1> QED
  BY <1>1, <1>2, <1>4, ListenersInvariant, PTL DEF Spec, ActivationComplete

\* Only an activation makes listeners for the events of the pool.
LEMMA ByActivation ==
  ASSUME NEW r \in Requests, ~Deletes(r), NEW e \in EventsOf(r), e \in PoolEvents
  PROVE  r \in Activations
  BY ListenersAssumption DEF Deletes, EventsOf, Requests

\* Requests of a sequential set are not in the history together.
LEMMA SequentialPair ==
  ASSUME NEW S, Sequential(S), NEW p \in S, NEW q \in S
  PROVE  {p, q} \notin overlaps
  BY DEF Sequential

\* What is sequential after a step was so before it.
LEMMA SequentialPast ==
  ASSUME TypeOK, NEW r \in Requests, RequestStep(r), NEW S, Sequential(S)'
  PROVE  Sequential(S)
  BY Frame DEF Sequential

\* Activations one after another make one listener for each event.
LEMMA StepSingleInv ==
  ASSUME ListenerInv, SingleInv, NEW q \in Requests, RequestStep(q)
  PROVE  SingleInv'
<1> SUFFICES ASSUME Sequential(Activations)'
             PROVE  /\ \A s, t \in subscriptions' :
                          /\ s.name \in PoolEvents
                          /\ s.name = t.name /\ s.stream = t.stream
                          => s = t
                    /\ \A a \in Activations, e \in Events :
                          task'[a][e] = "create" => Matching(a, e)' = {}
  BY DEF SingleInv
<1>1. TypeOK /\ TaskOK(q) /\ Sequential(Activations)
  BY SequentialPast DEF ListenerInv, TaskInv
<1>2. \A s, t \in subscriptions' :
         s.name \in PoolEvents /\ s.name = t.name /\ s.stream = t.stream => s = t
  <2>1. CASE subscriptions' \subseteq subscriptions
    BY <1>1, <2>1 DEF SingleInv
  <2>2. ASSUME NEW e \in EventsOf(q), task[q][e] = "create", ~Deletes(q),
               subscriptions' =
                 subscriptions \cup {[id |-> nextId, name |-> e, stream |-> stream[q]]}
        PROVE  \A s, t \in subscriptions' :
                  s.name \in PoolEvents /\ s.name = t.name /\ s.stream = t.stream => s = t
    <3>1. CASE e \in PoolEvents
      <4>1. Matching(q, e) = {}
        BY <1>1, <2>2, <3>1, ByActivation, EventsOfType DEF SingleInv
      <4> QED
        BY <1>1, <2>2, <4>1 DEF SingleInv, Matching
    <3>2. CASE e \notin PoolEvents
      BY <1>1, <2>2, <3>2 DEF SingleInv
    <3> QED
      BY <3>1, <3>2
  <2> QED
    BY <1>1, <2>1, <2>2, ListenersChange
<1>3. ASSUME NEW a \in Activations, NEW e \in Events, task'[a][e] = "create"
      PROVE  Matching(a, e)' = {}
  <2>1. a \in Requests /\ TaskOK(a)
    BY DEF Requests, ListenerInv, TaskInv
  <2>2. Matching(a, e) = {} /\ stream'[a] = stream[a]
    <3>1. CASE q = a
      <4>1. TaskMove(a, e) /\ (task[a][e] # "none" => stream'[a] = stream[a])
        BY <1>1, <3>1, TaskMoves
      <4> QED
        BY <1>1, <1>3, <4>1 DEF TaskMove, SingleInv
    <3>2. CASE q # a
      BY <1>1, <1>3, <2>1, <3>2, Frame DEF SingleInv
    <3> QED
      BY <3>1, <3>2
  <2>3. CASE subscriptions' \subseteq subscriptions
    BY <2>2, <2>3 DEF Matching
  <2>4. ASSUME NEW f \in EventsOf(q), task[q][f] = "create", ~Deletes(q),
               task'[q][f] \in {"done", "failed"},
               subscriptions' =
                 subscriptions \cup {[id |-> nextId, name |-> f, stream |-> stream[q]]}
        PROVE  Matching(a, e)' = {}
    <3>1. f # e
      <4>1. CASE q = a
        BY <1>3, <2>4, <4>1
      <4>2. CASE q # a
        <5> SUFFICES ASSUME f = e PROVE FALSE
          OBVIOUS
        <5>1. e \in EventsOf(a)
          BY <1>1, <1>3, <2>1, <4>2, Frame DEF TaskOK
        <5>2. e \in PoolEvents
          BY <5>1, ListenersAssumption DEF EventsOf
        <5>3. q \in Activations
          BY <2>4, <5>2, ByActivation
        <5>4. InFlight(a) /\ InFlight(q)
          BY <1>1, <1>3, <2>1, <2>4, <4>2, Frame, EventsOfType DEF InFlight
        <5> QED
          BY <1>1, <4>2, <5>3, <5>4, <2>1, SequentialPair DEF ListenerInv, OverlapInv
      <4> QED
        BY <4>1, <4>2
    <3> QED
      BY <2>2, <2>4, <3>1 DEF Matching
  <2> QED
    BY <1>1, <2>3, <2>4, ListenersChange
<1> QED
  BY <1>2, <1>3

\* A deactivation deletes the one listener there is.
LEMMA StepDeactivatedInv ==
  ASSUME ListenerInv, SingleInv, DeactivatedInv, NEW q \in Requests, RequestStep(q)
  PROVE  DeactivatedInv'
<1> SUFFICES ASSUME NEW d \in Deactivations, stage'[d] = "subscribing",
                    Sequential(Activations \cup {d})', NEW e \in PoolEvents
             PROVE  /\ task'[d][e] \in {"done", "absent"} => Matching(d, e)' = {}
                    /\ task'[d][e] = "delete" =>
                          \A s \in Matching(d, e)' : s.id = found'[d][e]
  BY DEF DeactivatedInv
<1>1. /\ TypeOK /\ TaskOK(q) /\ TaskOK(d) /\ d \in Requests /\ Deletes(d) /\ e \in Events
      /\ Sequential(Activations \cup {d}) /\ Sequential(Activations)
  <2>1. Sequential(Activations \cup {d})
    BY SequentialPast DEF ListenerInv
  <2> QED
    BY <2>1 DEF ListenerInv, TaskInv, Requests, Deletes, Events, Sequential
<1>2. task'[d][e] \in {"done", "absent", "delete"} =>
        /\ \A s \in Matching(d, e)' : s \in Matching(d, e)
        /\ stream'[d] = stream[d]
  <2> SUFFICES ASSUME task'[d][e] \in {"done", "absent", "delete"}
               PROVE  /\ \A s \in Matching(d, e)' : s \in Matching(d, e)
                      /\ stream'[d] = stream[d]
    OBVIOUS
  <2>1. stream'[d] = stream[d]
    <3>1. CASE q = d
      BY <1>1, <3>1, TaskMoves DEF TaskMove
    <3>2. CASE q # d
      BY <1>1, <3>2, Frame
    <3> QED
      BY <3>1, <3>2
  <2>2. ASSUME NEW s \in subscriptions', s.name = e, s.stream = stream'[d],
               s \notin subscriptions
        PROVE  FALSE
    <3>1. /\ e \in EventsOf(q) /\ ~Deletes(q) /\ task[q][e] = "create"
      BY <1>1, <2>2, ListenersChange
    <3>2. q \in Activations /\ q # d
      BY <1>1, <3>1, ByActivation
    <3>3. InFlight(q) /\ InFlight(d)
      BY <1>1, <3>1, <3>2, Frame DEF InFlight, Answered
    <3>4. {q, d} \in overlaps
      BY <1>1, <3>2, <3>3 DEF ListenerInv, OverlapInv
    <3>5. {q, d} \subseteq Activations \cup {d}
      BY <3>2
    <3> QED
      BY <1>1, <3>4, <3>5 DEF Sequential
  <2> QED
    BY <2>1, <2>2 DEF Matching
<1>3. CASE q # d
  BY <1>1, <1>2, <1>3, Frame DEF DeactivatedInv
<1>4. CASE q = d
  <2>1. TaskMove(d, e)
    BY <1>1, <1>4, TaskMoves
  <2>2. CASE task'[d][e] = task[d][e] /\ found'[d][e] = found[d][e]
    <3>1. CASE task[d][e] \in {"done", "absent", "delete"}
      <4>1. stage[d] = "subscribing"
        BY <1>1, <1>4, <3>1, StageMoves DEF TaskOK, TypeOK, Stages, Answered
      <4> QED
        BY <1>1, <1>2, <2>2, <4>1 DEF DeactivatedInv
    <3>2. CASE task[d][e] \notin {"done", "absent", "delete"}
      BY <2>2, <3>2
    <3> QED
      BY <3>1, <3>2
  <2>3. CASE task[d][e] = "list" /\ Matching(d, e) = {} /\ task'[d][e] = "absent"
    BY <1>2, <2>3
  <2>4. CASE task'[d][e] = "delete" /\ \E s \in Matching(d, e) : found'[d][e] = s.id
    BY <1>1, <1>2, <2>4 DEF SingleInv, Matching
  <2>5. CASE /\ task[d][e] = "delete" /\ task'[d][e] = "done"
             /\ subscriptions' = {s \in subscriptions : s.id # found[d][e]}
    <3>1. stage[d] = "subscribing"
      BY <1>1, <1>4, <2>5, StageMoves DEF TaskOK, TypeOK, Stages, Answered
    <3>2. \A s \in Matching(d, e) : s.id = found[d][e]
      BY <1>1, <2>5, <3>1 DEF DeactivatedInv
    <3>3. \A s \in Matching(d, e)' : s \in subscriptions'
      BY DEF Matching
    <3> QED
      BY <1>2, <2>5, <3>2, <3>3
  <2> QED
    BY <1>1, <2>1, <2>2, <2>3, <2>4, <2>5 DEF TaskMove, TaskOK
<1> QED
  BY <1>3, <1>4

\* When a deactivation is answered, no listener of the pool is left on its stream, whatever
\* failed before, if no activation ran beside it and activations did not overlap
\* (deactivatePool).
THEOREM AnsweredMeansSilent == Spec => DeactivationComplete
<1>1. Init => SingleInv /\ DeactivatedInv
  BY DEF Init, SingleInv, DeactivatedInv, Requests
<1>2. ListenerInv /\ SingleInv /\ DeactivatedInv /\ [Next]_vars => (SingleInv /\ DeactivatedInv)'
  <2> SUFFICES ASSUME ListenerInv, SingleInv, DeactivatedInv, [Next]_vars
               PROVE  (SingleInv /\ DeactivatedInv)'
    OBVIOUS
  <2>1. CASE Crash
    <3>1. /\ \A r \in Requests : stage'[r] # "subscribing"
          /\ \A r \in Requests, e \in Events : task'[r][e] # "create"
      BY <2>1, CrashFact DEF ListenerInv, Answered, Settled
    <3>2. UNCHANGED <<subscriptions, overlaps>>
      BY <2>1, CrashFact DEF ListenerInv
    <3> QED
      BY <3>1, <3>2 DEF SingleInv, DeactivatedInv, Sequential, Requests
  <2>2. CASE UNCHANGED vars
    <3>1. UNCHANGED <<stage, task, stream, found, subscriptions, overlaps>>
      BY <2>2 DEF vars, upstreamVars, requestVars
    <3> QED
      BY <3>1 DEF SingleInv, DeactivatedInv, Sequential, Matching
  <2> QED
    BY <2>1, <2>2, StepSingleInv, StepDeactivatedInv DEF Next
<1>3. ASSUME ListenerInv, DeactivatedInv, [Next]_vars,
             NEW r \in Deactivations, AnsweredOk(r), Sequential(Activations \cup {r}),
             NEW e \in PoolEvents
      PROVE  ~Listens(r, e)
  <2>1. r \in Requests /\ TypeOK /\ TaskOK(r) /\ e \in EventsOf(r)
    BY <1>3, ListenersAssumption DEF ListenerInv, TaskInv, Requests, EventsOf
  <2>2. Deletes(r) /\ r \notin Connections
    BY ListenersAssumption DEF Deletes
  <2>3. RequestStep(r)
    <3>1. ~Crash /\ ~UNCHANGED vars
      BY <1>3, <2>1, CrashFact DEF AnsweredOk, vars, requestVars
    <3>2. PICK q \in Requests : RequestStep(q)
      BY <1>3, <3>1 DEF Next
    <3> QED
      BY <1>3, <2>1, <3>2, Frame DEF AnsweredOk
  <2>4. UNCHANGED subscriptions /\ stage[r] = "subscribing" /\ AllDone(r)
    BY <1>3, <2>1, <2>2, <2>3, StageMoves DEF AnsweredOk, TaskOK
  <2>5. Matching(r, e) = {}
    BY <1>3, <2>1, <2>4 DEF DeactivatedInv, AllDone
  <2> QED
    BY <2>4, <2>5 DEF Listens, Matching
<1>4. ListenerInv /\ DeactivatedInv /\ [Next]_vars =>
        [\A r \in Deactivations :
            AnsweredOk(r) /\ Sequential(Activations \cup {r}) =>
                \A e \in PoolEvents : ~Listens(r, e)]_vars
  BY <1>3
<1> QED
  BY <1>1, <1>2, <1>4, ListenersInvariant, PTL DEF Spec, DeactivationComplete
=============================================================================
