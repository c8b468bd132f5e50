-------------------------- MODULE EventBatchesProofs --------------------------
(***************************************************************************)
(* What holds of batches for every set of pools, accounts and tokens, and  *)
(* any number of events, deliveries, failures and exits: the reader of the *)
(* messages follows the ledger of the contracts.                           *)
(*                                                                         *)
(* The argument is about the ledgers after each event of the batch.  What  *)
(* the reader knows is the k-th of them, for the k that its reading has    *)
(* got to, and it knows the ids of the events up to there and no others.   *)
(***************************************************************************)
EXTENDS EventBatches, TokenListenerProofs, SequenceTheorems, FiniteSetTheorems,
        WellFoundedInduction

Creation(e) == e.signature = "TokenPoolCreation"
NewPool(e) == <<e.to, NewPoolType(e)>>

\* What the parts of the state that are about the current batch have to do with each
\* other.
Shape ==
    /\ delivery = "new" => ~running
    /\ delivery # "sent" \/ running => unread = <<>>
    /\ delivery # "new" => events # <<>>
    /\ \A i \in 1..Len(events) :
          /\ events[i].blockNumber = happened - Len(events)
          /\ events[i].logIndex = i - 1
          /\ Creation(events[i]) => NewPool(events[i]) \in ledger.created
    /\ \A i \in 1..Len(calls) : calls[i] \in {"decimals", "rejected"} => Creation(events[i])
    /\ lost \subseteq ledger.created

\* The ledgers after each event, of which the reader knows the one after k events, but
\* for the pools that are lost.
History(after, k) ==
    /\ k \in 0..Len(events)
    /\ after \in [0..Len(events) -> Ledger]
    /\ after[Len(events)] = ledger
    /\ \A i \in 1..Len(events) : /\ Fits(after[i - 1], events[i])
                                 /\ after[i] = ChainStep(after[i - 1], events[i])
                                 /\ past[i] = after[i - 1]
    /\ Plus(view, lost) = Plus(after[k], lost)

\* The k-th event is the last one whose message was read.  The ids that the reader was
\* told are those of earlier batches, and of events up to the k-th one.
Position(k) ==
    /\ IF delivery = "sent" THEN k >= Len(events) - Len(unread) ELSE k = 0
    /\ \A t \in told : /\ t[2] \in Ids
                       /\ t[2][1] <= happened - Len(events)
                       /\ t[2][1] = happened - Len(events) => t[2][3] < k

\* An event whose message was read, one that yields none, or one whose pool is lost.
Done(i) ==
    LET e == events[i]
    IN  \/ OnEvent(e) = <<>>
        \/ Key(OnEvent(e)[1]) \in told
        \/ Creation(e) /\ NewPool(e) \in lost

\* What is left to read.
Yields ==
    \A i \in 1..Len(unread) :
        LET e == events[Len(events) - Len(unread) + i]
        IN  \/ unread[i] = OnEvent(e)
            \/ unread[i] = <<>> /\ Creation(e) /\ NewPool(e) \in lost

Reading(after, k) ==
    /\ History(after, k)
    /\ Position(k)
    /\ \A i \in 1..k : Done(i)

BatchInv ==
    /\ TypeOK
    /\ Shape
    /\ Yields
    /\ \E after, k : Reading(after, k)

\* The initial state satisfies the invariant.
LEMMA EmptyLedgerIsLedger == EmptyLedger \in Ledger
  BY DEF EmptyLedger, Ledger, Addresses

LEMMA InitBatchInv == Init => BatchInv
<1> SUFFICES ASSUME Init PROVE BatchInv
  OBVIOUS
<1>1. events = <<>> /\ past = <<>> /\ unread = <<>> /\ calls = <<>> /\ Len(events) = 0
      /\ Len(unread) = 0 /\ Len(calls) = 0 /\ Len(past) = 0 /\ past \in Seq(Ledger)
  BY EmptySeq DEF Init
<1>2. TypeOK
  <2>1. <<>> \in Seq(Event) /\ <<>> \in Seq(Seq(Message)) /\ <<>> \in Seq(Calls)
    BY EmptySeq
  <2>2. 0 \in 0..MaxOrphans /\ 0 \in 0..MaxEvents /\ 0 \in 0..MaxExits
    BY BatchesAssumption
  <2>3. lost \subseteq Addresses \X Types /\ subscriptionNames \subseteq Subscription
    BY DEF Init
  <2>4. \A i \in DOMAIN unread : Len(unread[i]) <= 1
    BY <1>1
  <2> QED
    <3>1. ledger \in Ledger /\ view \in Ledger
      BY EmptyLedgerIsLedger DEF Init
    <3>2. events \in Seq(Event) /\ unread \in Seq(Seq(Message)) /\ calls \in Seq(Calls)
      BY <1>1, <2>1
    <3>3. Len(unread) <= Len(events) /\ Len(events) <= happened
      BY <1>1 DEF Init
    <3>4. running = FALSE /\ delivery = "new"
      BY DEF Init
    <3>5. orphans \in 0..MaxOrphans /\ happened \in 0..MaxEvents /\ exits \in 0..MaxExits
      BY <2>2 DEF Init
    <3> QED
      BY <1>1, <2>3, <2>4, <3>1, <3>2, <3>3, <3>4, <3>5 DEF TypeOK
<1>3. Shape /\ Yields
  BY <1>1 DEF Init, Shape, Yields
<1>4. Reading([i \in 0..0 |-> EmptyLedger], 0)
  BY <1>1, EmptyLedgerIsLedger DEF Init, Reading, History, Position
<1> QED
  BY <1>2, <1>3, <1>4 DEF BatchInv
-----------------------------------------------------------------------------
(* What the reader knows, when it and the chain do nothing. *)

LEMMA ReadingKept ==
  ASSUME NEW after, NEW k, Reading(after, k),
         UNCHANGED <<ledger, reading, lost, events, past, happened>>,
         delivery' = "sent" <=> delivery = "sent"
  PROVE  Reading(after, k)'
<1>1. UNCHANGED <<ledger, unread, view, told, lost, events, past, happened>>
  BY DEF reading
<1>2. History(after, k)'
  BY <1>1 DEF Reading, History
<1>3. Position(k)'
  BY <1>1 DEF Reading, Position
<1>4. \A i : Done(i)' <=> Done(i)
  BY <1>1 DEF Done
<1> QED
  BY <1>2, <1>3, <1>4 DEF Reading
-----------------------------------------------------------------------------
(* processEvents *)

LEMMA FirstCallKind ==
  ASSUME NEW e
  PROVE  /\ FirstCall(e) \in Calls
         /\ FirstCall(e) \in {"decimals", "rejected"} => Creation(e)
  BY DEF FirstCall, Calls, Pending, Creation

\* Calls for the events of the batch, of which only those of new pools may fail.
GoodCalls(c) ==
    /\ c \in Seq(Calls)
    /\ Len(c) = Len(events)
    /\ \A i \in 1..Len(c) : c[i] \in {"decimals", "rejected"} => Creation(events[i])

\* A function on 1..n is a sequence of length n.
LEMMA FunctionIsSeq ==
  ASSUME NEW S, NEW n \in Nat, NEW f \in [1..n -> S]
  PROVE  f \in Seq(S) /\ Len(f) = n
<1>1. f \in Seq(S)
  BY SeqDef
<1>2. DOMAIN f = 1..Len(f) /\ Len(f) \in Nat
  BY <1>1, LenProperties
<1>3. 1..n = 1..Len(f)
  BY <1>2
<1> QED
  BY <1>1, <1>2, <1>3

LEMMA WithNamedGood ==
  ASSUME TypeOK, NEW c, GoodCalls(c), NEW names
  PROVE  GoodCalls(WithNamed(c, names))
<1> DEFINE w == WithNamed(c, names)
<1>1. /\ DOMAIN c = 1..Len(c) /\ Len(c) \in Nat
      /\ \A i \in 1..Len(c) : c[i] \in Calls
  BY LenProperties, ElementOfSeq DEF GoodCalls
<1>2. /\ DOMAIN w = 1..Len(c)
      /\ \A i \in 1..Len(c) : w[i] = c[i] \/ w[i] = FirstCall(events[i])
      /\ w = [i \in 1..Len(c) |-> w[i]]
  BY <1>1 DEF WithNamed
<1> HIDE DEF w
<1>3. w \in [1..Len(c) -> Calls]
  BY <1>1, <1>2, FirstCallKind
<1>4. w \in Seq(Calls) /\ Len(w) = Len(c)
  BY <1>1, <1>3, FunctionIsSeq
<1>5. \A i \in 1..Len(c) : w[i] \in {"decimals", "rejected"} => Creation(events[i])
  BY <1>2, FirstCallKind DEF GoodCalls
<1> QED
  BY <1>4, <1>5 DEF GoodCalls, w

LEMMA ExitInv ==
  ASSUME BatchInv, Exit, Delivered \/ UNCHANGED delivery, Delivered => events # <<>>
  PROVE  BatchInv'
<1>1. /\ UNCHANGED <<ledger, reading, lost, events, past, happened>>
      /\ UNCHANGED <<unread, view, told>>
      /\ running' = FALSE /\ calls' = <<>> /\ Len(calls') = 0
      /\ subscriptionNames' = {} /\ orphans' = 0
      /\ exits < MaxExits /\ exits' = exits + 1
  BY DEF Exit, reading
<1>2. /\ delivery' = "sent" <=> delivery = "sent"
      /\ delivery' \in {"new", "delivered", "sent"}
      /\ delivery' # "new" => delivery # "new" \/ events # <<>>
  BY DEF Delivered, BatchInv, TypeOK
<1>3. TypeOK'
  <2>1. <<>> \in Seq(Calls)
    BY EmptySeq
  <2>2. exits' \in 0..MaxExits /\ 0 \in 0..MaxOrphans
    BY <1>1, BatchesAssumption DEF BatchInv, TypeOK
  <2>3. /\ ledger' \in Ledger /\ view' \in Ledger /\ lost' \subseteq Addresses \X Types
        /\ unread' \in Seq(Seq(Message)) /\ Len(unread') <= Len(events')
        /\ \A i \in DOMAIN unread' : Len(unread'[i]) <= 1
        /\ events' \in Seq(Event) /\ Len(events') <= happened' /\ happened' \in 0..MaxEvents
        /\ past' \in Seq(Ledger) /\ Len(past') = Len(events')
    BY <1>1 DEF BatchInv, TypeOK
  <2>4. running' \in BOOLEAN /\ ~running'
    BY <1>1, Zenon
  <2> QED
    BY <1>1, <1>2, <2>1, <2>2, <2>3, <2>4 DEF TypeOK
<1>4. Shape'
  BY <1>1, <1>2 DEF BatchInv, Shape
<1>5. Yields'
  BY <1>1 DEF BatchInv, Yields
<1>6. \E after, k : Reading(after, k)'
  BY <1>1, <1>2, ReadingKept DEF BatchInv
<1> QED
  BY <1>3, <1>4, <1>5, <1>6 DEF BatchInv

\* What an event of the batch yields.
LEMMA YieldType ==
  ASSUME NEW e \in Event, NEW v \in Ledger, Fits(v, e)
  PROVE  /\ OnEvent(e) \in Seq(Message)
         /\ Len(OnEvent(e)) <= 1
         /\ OnEvent(e) # <<>> =>
               /\ OnEvent(e)[1] \in Message
               /\ OnEvent(e)[1].id = FormatBlockchainEventId(e)
               /\ ReaderStep(v, OnEvent(e)[1]) = ChainStep(v, e)
         /\ OnEvent(e) = <<>> => ChainStep(v, e) = v
<1>1. Tells(v, e)
  BY EventToldCorrectly
<1>2. CASE OnEvent(e) = <<>>
  BY <1>1, <1>2, EmptySeq DEF Tells
<1>3. CASE OnEvent(e) # <<>>
  <2>1. PICK m \in Message : /\ OnEvent(e) = <<m>>
                             /\ m.id = FormatBlockchainEventId(e)
                             /\ ReaderStep(v, m) = ChainStep(v, e)
    BY <1>1, <1>3 DEF Tells
  <2>2. <<m>> \in Seq(Message) /\ Len(<<m>>) = 1 /\ <<m>>[1] = m
    OBVIOUS
  <2> QED
    BY <1>3, <2>1, <2>2
<1> QED
  BY <1>2, <1>3

LEMMA SendInv ==
  ASSUME BatchInv, events # <<>>, unread = <<>>, NEW c, GoodCalls(c), AllSettled(c),
         NEW names \in SUBSET Subscription, subscriptionNames' = names, Send(c)
  PROVE  BatchInv'
<1> DEFINE new == {<<events[i].to, NewPoolType(events[i])>> :
                      i \in {j \in DOMAIN c : c[j] = "rejected"}}
<1>1. /\ unread' = Messages(c) /\ lost' = lost \cup new
      /\ delivery' = "sent" /\ running' = FALSE /\ calls' = <<>> /\ Len(calls') = 0
      /\ UNCHANGED <<ledger, view, told, events, past, orphans, happened, exits>>
  BY DEF Send
<1>2. PICK after, k : Reading(after, k)
  BY DEF BatchInv
<1>3. /\ DOMAIN c = 1..Len(events) /\ Len(events) \in Nat /\ Len(c) = Len(events)
      /\ \A i \in 1..Len(events) : c[i] \in Calls
      /\ \A i \in 1..Len(events) : events[i] \in Event
  BY LenProperties, ElementOfSeq DEF GoodCalls, BatchInv, TypeOK
<1>4. \A i \in 1..Len(events) :
         c[i] = "settled" \/ (c[i] = "rejected" /\ Creation(events[i]))
  BY <1>3 DEF AllSettled, Calls, GoodCalls
<1>5. \A i \in 1..Len(events) :
         /\ OnEvent(events[i]) \in Seq(Message)
         /\ Len(OnEvent(events[i])) <= 1
  <2> TAKE i \in 1..Len(events)
  <2>1. after[i - 1] \in Ledger /\ Fits(after[i - 1], events[i]) /\ events[i] \in Event
    BY <1>2, <1>3 DEF Reading, History
  <2> QED
    BY <2>1, YieldType
<1>6. new \subseteq ledger.created /\ ledger.created \subseteq Addresses \X Types
  <2>1. \A i \in 1..Len(events) : c[i] = "rejected" => NewPool(events[i]) \in ledger.created
    BY <1>4 DEF BatchInv, Shape
  <2> QED
    BY <1>3, <2>1 DEF BatchInv, TypeOK, Ledger, NewPool
<1>7. /\ unread' \in Seq(Seq(Message)) /\ Len(unread') = Len(events)
      /\ \A i \in 1..Len(events) : /\ Len(unread'[i]) <= 1
                                   /\ c[i] = "settled" => unread'[i] = OnEvent(events[i])
                                   /\ c[i] # "settled" => unread'[i] = <<>>
  <2>1. /\ DOMAIN unread' = 1..Len(events)
        /\ unread' = [i \in 1..Len(events) |-> unread'[i]]
        /\ \A i \in 1..Len(events) :
              unread'[i] = IF c[i] = "settled" THEN OnEvent(events[i]) ELSE <<>>
    BY <1>1, <1>3 DEF Messages
  <2>2. <<>> \in Seq(Message) /\ Len(<<>>) = 0
    BY EmptySeq
  <2>3. unread' \in [1..Len(events) -> Seq(Message)]
    BY <1>5, <2>1, <2>2
  <2>4. unread' \in Seq(Seq(Message)) /\ Len(unread') = Len(events)
    BY <1>3, <2>3, FunctionIsSeq
  <2> QED
    BY <1>5, <2>1, <2>2, <2>4
<1>8. TypeOK'
  <2>1. <<>> \in Seq(Calls)
    BY EmptySeq
  <2>2. lost' \subseteq Addresses \X Types
    BY <1>1, <1>6 DEF BatchInv, TypeOK
  <2>3. \A i \in DOMAIN unread' : Len(unread'[i]) <= 1
    BY <1>3, <1>7, LenProperties
  <2>4. /\ ledger' \in Ledger /\ view' \in Ledger /\ lost' \subseteq Addresses \X Types
        /\ events' \in Seq(Event) /\ Len(events') <= happened' /\ happened' \in 0..MaxEvents
        /\ past' \in Seq(Ledger) /\ Len(past') = Len(events')
        /\ subscriptionNames' \subseteq Subscription
        /\ orphans' \in 0..MaxOrphans /\ exits' \in 0..MaxExits
    BY <1>1, <2>2 DEF BatchInv, TypeOK
  <2>5. unread' \in Seq(Seq(Message)) /\ Len(unread') <= Len(events')
    BY <1>1, <1>3, <1>7
  <2>6. running' \in BOOLEAN /\ ~running'
    BY <1>1, Zenon
  <2> QED
    BY <1>1, <2>1, <2>3, <2>4, <2>5, <2>6 DEF TypeOK
<1>9. Shape'
  BY <1>1, <1>6 DEF BatchInv, Shape
<1>10. Yields'
  <2>1. ASSUME NEW i \in 1..Len(unread')
        PROVE  LET e == events[i]
               IN  unread'[i] = OnEvent(e) \/ (unread'[i] = <<>> /\ Creation(e) /\ NewPool(e) \in lost')
    <3>1. i \in 1..Len(events)
      BY <1>7
    <3>2. c[i] = "rejected" => NewPool(events[i]) \in lost'
      BY <1>1, <1>3, <3>1 DEF NewPool
    <3> QED
      BY <1>4, <1>7, <3>1, <3>2
  <2>2. \A i \in 1..Len(unread') : Len(events') - Len(unread') + i = i
    BY <1>1, <1>3, <1>7
  <2> QED
    BY <1>1, <2>1, <2>2 DEF Yields
<1>11. Reading(after, k)'
  <2>1. History(after, k)'
    <3>1. /\ view \in Ledger /\ after[k] \in Ledger /\ lost \in NewPools /\ new \in NewPools
      BY <1>2, <1>6 DEF BatchInv, TypeOK, NewPools, Reading, History
    <3> HIDE DEF new
    <3>2. Plus(view, lost \cup new) = Plus(after[k], lost \cup new)
      <4>1. Plus(view, lost) = Plus(after[k], lost)
        BY <1>2 DEF Reading, History
      <4>2. Plus(view, lost \cup new) = Plus(Plus(view, lost), new)
        BY <3>1, PlusTwice
      <4>3. Plus(after[k], lost \cup new) = Plus(Plus(after[k], lost), new)
        BY <3>1, PlusTwice
      <4> QED
        BY <4>1, <4>2, <4>3
    <3> QED
      BY <1>1, <1>2, <3>2 DEF Reading, History
  <2>2. Position(k)'
    <3>1. k \in 0..Len(events) /\ Len(events') - Len(unread') = 0
      BY <1>1, <1>2, <1>3, <1>7 DEF Reading, History
    <3> QED
      BY <1>1, <1>2, <3>1 DEF Reading, Position
  <2>3. \A i : Done(i) => Done(i)'
    BY <1>1 DEF Done
  <2> QED
    BY <1>1, <1>2, <2>1, <2>2, <2>3 DEF Reading
<1> QED
  BY <1>8, <1>9, <1>10, <1>11 DEF BatchInv

LEMMA WaitInv ==
  ASSUME BatchInv, events # <<>>, unread = <<>>, NEW c, GoodCalls(c),
         NEW names \in SUBSET Subscription, subscriptionNames' = names,
         calls' = c, running' = TRUE, Delivered,
         UNCHANGED <<ledger, reading, lost, events, past, orphans, happened, exits>>
  PROVE  BatchInv'
<1>1. UNCHANGED <<ledger, unread, view, told, lost, events, past, orphans, happened, exits>>
  BY DEF reading
<1>2. /\ delivery' = "sent" <=> delivery = "sent"
      /\ delivery' \in {"delivered", "sent"}
  BY DEF Delivered
<1>3. running' \in BOOLEAN /\ running'
  BY Zenon
<1>4. TypeOK'
  <2>1. /\ calls' \in Seq(Calls)
        /\ Len(calls') = Len(events')
    BY <1>1 DEF GoodCalls
  <2>2. /\ ledger' \in Ledger /\ view' \in Ledger /\ lost' \subseteq Addresses \X Types
        /\ unread' \in Seq(Seq(Message)) /\ Len(unread') <= Len(events')
        /\ \A i \in DOMAIN unread' : Len(unread'[i]) <= 1
        /\ events' \in Seq(Event) /\ Len(events') <= happened' /\ happened' \in 0..MaxEvents
        /\ past' \in Seq(Ledger) /\ Len(past') = Len(events')
        /\ subscriptionNames' \subseteq Subscription
        /\ orphans' \in 0..MaxOrphans /\ exits' \in 0..MaxExits
    BY <1>1 DEF BatchInv, TypeOK
  <2> QED
    BY <1>2, <1>3, <2>1, <2>2 DEF TypeOK
<1>5. Shape'
  BY <1>1, <1>2 DEF BatchInv, Shape, GoodCalls
<1>6. Yields'
  BY <1>1 DEF BatchInv, Yields
<1>7. \E after, k : Reading(after, k)'
  BY <1>1, <1>2, ReadingKept DEF BatchInv, reading
<1> QED
  BY <1>4, <1>5, <1>6, <1>7 DEF BatchInv

\* A rejection that goes unhandled is one of several events.
LEMMA UnhandledHasOthers ==
  ASSUME TypeOK, NEW c, GoodCalls(c), Unhandled(c)
  PROVE  Len(events) > 1
<1>1. DOMAIN c = 1..Len(events) /\ Len(events) \in Nat
  BY LenProperties DEF GoodCalls
<1>2. PICK i \in DOMAIN c, j \in DOMAIN c :
         c[i] = "rejected" /\ (c[j] = "unnamed" \/ (j < i /\ c[j] \in Pending))
  BY DEF Unhandled
<1>3. i # j
  BY <1>1, <1>2
<1> QED
  BY <1>1, <1>3

LEMMA ProceedInv ==
  ASSUME BatchInv, events # <<>>, unread = <<>>, NEW c, GoodCalls(c),
         NEW names \in SUBSET Subscription, Proceed(c, names)
  PROVE  BatchInv' /\ (exits' # exits => Len(events) > 1)
<1>1. CASE Unhandled(c)
  <2>1. Exit /\ Delivered
    BY <1>1 DEF Proceed
  <2> QED
    BY <1>1, <2>1, ExitInv, UnhandledHasOthers DEF BatchInv
<1>2. CASE ~Unhandled(c) /\ AllSettled(c)
  <2>1. Send(c) /\ subscriptionNames' = names
    BY <1>2 DEF Proceed
  <2> QED
    BY <1>2, <2>1, SendInv DEF Send
<1>3. CASE ~Unhandled(c) /\ ~AllSettled(c)
  <2>1. /\ subscriptionNames' = names /\ calls' = c /\ running' = TRUE /\ Delivered
        /\ UNCHANGED <<ledger, reading, lost, events, past, orphans, happened, exits>>
    BY <1>3 DEF Proceed
  <2> QED
    BY <2>1, WaitInv
<1> QED
  BY <1>1, <1>2, <1>3
-----------------------------------------------------------------------------
(* Steps of the task *)

LEMMA StartInv ==
  ASSUME BatchInv, Start
  PROVE  BatchInv' /\ (exits' # exits => Len(events) > 1)
<1> DEFINE c == [i \in DOMAIN events |-> "unnamed"]
<1>1. events # <<>> /\ unread = <<>>
  BY DEF Start
<1>2. GoodCalls(c)
  <2>1. DOMAIN events = 1..Len(events) /\ Len(events) \in Nat
    BY LenProperties DEF BatchInv, TypeOK
  <2>2. c \in [1..Len(events) -> Calls] /\ \A i \in 1..Len(events) : c[i] = "unnamed"
    BY <2>1 DEF Calls, Pending
  <2> HIDE DEF c
  <2>3. c \in Seq(Calls) /\ Len(c) = Len(events)
    BY <2>1, <2>2, FunctionIsSeq
  <2> QED
    BY <2>2, <2>3 DEF GoodCalls
<1>3. Proceed(WithNamed(c, subscriptionNames), subscriptionNames)
  BY DEF Start
<1>4. GoodCalls(WithNamed(c, subscriptionNames))
  BY <1>2, WithNamedGood DEF BatchInv
<1>5. subscriptionNames \in SUBSET Subscription
  BY DEF BatchInv, TypeOK
<1> HIDE DEF c
<1> QED
  BY <1>1, <1>3, <1>4, <1>5, ProceedInv

\* While calls are awaited the task is at work, on a batch that has not been read.
LEMMA CallsOfTask ==
  ASSUME BatchInv, NEW i \in DOMAIN calls
  PROVE  /\ running /\ events # <<>> /\ unread = <<>>
         /\ GoodCalls(calls)
         /\ i \in 1..Len(events) /\ events[i] \in Event
         /\ DOMAIN calls = 1..Len(events)
<1>1. DOMAIN calls = 1..Len(calls)
  BY LenProperties DEF BatchInv, TypeOK
<1>2. running
  <2>1. calls # <<>>
    BY <1>1
  <2> QED
    BY <2>1 DEF BatchInv, TypeOK
<1>3. delivery # "new"
  BY <1>2 DEF BatchInv, Shape
<1>4. GoodCalls(calls)
  BY <1>2 DEF BatchInv, TypeOK, Shape, GoodCalls
<1>5. events # <<>> /\ unread = <<>>
  BY <1>2, <1>3 DEF BatchInv, Shape
<1>6. i \in 1..Len(events) /\ events[i] \in Event
  BY <1>1, <1>4, ElementOfSeq DEF GoodCalls, BatchInv, TypeOK
<1> QED
  BY <1>1, <1>2, <1>4, <1>5, <1>6 DEF GoodCalls

LEMMA NameFoundInv ==
  ASSUME BatchInv, NEW i \in DOMAIN calls, NameFound(i)
  PROVE  BatchInv' /\ (exits' # exits => Len(events) > 1)
<1> DEFINE names == subscriptionNames \cup {events[i].subscription}
<1>1. /\ events # <<>> /\ unread = <<>> /\ GoodCalls(calls) /\ events[i] \in Event
  BY CallsOfTask
<1>2. names \in SUBSET Subscription
  BY <1>1 DEF BatchInv, TypeOK, Event
<1>3. Proceed(WithNamed(calls, names), names)
  BY DEF NameFound
<1>4. GoodCalls(WithNamed(calls, names))
  BY <1>1, WithNamedGood DEF BatchInv
<1> HIDE DEF names
<1> QED
  BY <1>1, <1>2, <1>3, <1>4, ProceedInv

LEMMA SettlesInv ==
  ASSUME BatchInv, NEW i \in DOMAIN calls, NEW as \in Calls, Settles(i, as),
         as \in {"decimals", "rejected"} => calls[i] = "decimals"
  PROVE  BatchInv' /\ (exits' # exits => Len(events) > 1)
<1> DEFINE c == [calls EXCEPT ![i] = as]
<1>1. /\ events # <<>> /\ unread = <<>> /\ GoodCalls(calls) /\ i \in 1..Len(events)
      /\ DOMAIN calls = 1..Len(events)
  BY CallsOfTask
<1>2. GoodCalls(c)
  <2>1. i \in 1..Len(calls)
    BY <1>1 DEF GoodCalls
  <2>2. /\ c \in Seq(Calls) /\ Len(c) = Len(calls)
        /\ \A j \in 1..Len(calls) : c[j] = IF j = i THEN as ELSE calls[j]
    BY <1>1, <2>1, ExceptSeq DEF GoodCalls
  <2> HIDE DEF c
  <2> QED
    BY <1>1, <2>2 DEF GoodCalls
<1>3. Proceed(c, subscriptionNames)
  BY DEF Settles
<1>4. subscriptionNames \in SUBSET Subscription
  BY DEF BatchInv, TypeOK
<1> HIDE DEF c
<1> QED
  BY <1>1, <1>2, <1>3, <1>4, ProceedInv

LEMMA NameUnknownInv ==
  ASSUME BatchInv, NEW i \in DOMAIN calls, NameUnknown(i)
  PROVE  BatchInv' /\ exits' = exits
<1>1. /\ UNCHANGED <<ledger, reading, lost, events, past, delivery, subscriptionNames, happened,
                     exits>>
      /\ UNCHANGED <<unread, view, told>>
      /\ running' = FALSE /\ calls' = <<>> /\ Len(calls') = 0
      /\ orphans' = orphans + Rejectable(calls)
      /\ orphans + Rejectable(calls) <= MaxOrphans
  BY DEF NameUnknown, GiveUp, reading
<1>2. running' \in BOOLEAN /\ ~running'
  BY <1>1, Zenon
<1>3. Rejectable(calls) \in Nat
  <2>1. DOMAIN calls = 1..Len(calls) /\ Len(calls) \in Nat
    BY LenProperties DEF BatchInv, TypeOK
  <2>2. IsFiniteSet(1..Len(calls))
    BY <2>1, FS_Interval
  <2>3. IsFiniteSet({j \in DOMAIN calls : calls[j] = "decimals"})
    BY <2>1, <2>2, FS_Subset
  <2> QED
    BY <2>3, FS_CardinalityType DEF Rejectable
<1>4. TypeOK'
  <2>1. <<>> \in Seq(Calls)
    BY EmptySeq
  <2>2. orphans' \in 0..MaxOrphans
    BY <1>1, <1>3, BatchesAssumption DEF BatchInv, TypeOK
  <2>3. /\ ledger' \in Ledger /\ view' \in Ledger /\ lost' \subseteq Addresses \X Types
        /\ unread' \in Seq(Seq(Message)) /\ Len(unread') <= Len(events')
        /\ \A j \in DOMAIN unread' : Len(unread'[j]) <= 1
        /\ events' \in Seq(Event) /\ Len(events') <= happened' /\ happened' \in 0..MaxEvents
        /\ past' \in Seq(Ledger) /\ Len(past') = Len(events')
        /\ subscriptionNames' \subseteq Subscription /\ delivery' \in {"new", "delivered", "sent"}
        /\ exits' \in 0..MaxExits
    BY <1>1 DEF BatchInv, TypeOK
  <2> QED
    BY <1>1, <1>2, <2>1, <2>2, <2>3 DEF TypeOK
<1>5. Shape'
  BY <1>1, <1>2 DEF BatchInv, Shape
<1>6. Yields'
  BY <1>1 DEF BatchInv, Yields
<1>7. \E after, k : Reading(after, k)'
  BY <1>1, ReadingKept DEF BatchInv
<1> QED
  BY <1>1, <1>4, <1>5, <1>6, <1>7 DEF BatchInv

LEMMA AnsweredInv ==
  ASSUME BatchInv, NEW i \in DOMAIN calls, Answered(i)
  PROVE  BatchInv' /\ (exits' # exits => Len(events) > 1)
<1>1. CASE NameFound(i)
  BY <1>1, NameFoundInv
<1>2. CASE NameUnknown(i)
  BY <1>2, NameUnknownInv
<1>3. CASE UriAnswered(i)
  BY <1>3, SettlesInv DEF UriAnswered, Calls
<1>4. CASE SchemaAnswered(i)
  BY <1>4, SettlesInv DEF SchemaAnswered, Calls
<1>5. CASE DecimalsAnswered(i)
  BY <1>5, SettlesInv DEF DecimalsAnswered, Calls, Pending
<1>6. CASE DecimalsFailed(i)
  BY <1>6, SettlesInv DEF DecimalsFailed, Calls
<1> QED
  BY <1>1, <1>2, <1>3, <1>4, <1>5, <1>6 DEF Answered
-----------------------------------------------------------------------------
(* The other steps *)

LEMMA OrphanAnsweredInv ==
  ASSUME BatchInv, OrphanAnswered
  PROVE  BatchInv'
<1>1. /\ UNCHANGED <<ledger, reading, lost, events, past, delivery, running, subscriptionNames,
                     calls, happened, exits>>
      /\ UNCHANGED <<unread, view, told>>
      /\ orphans > 0 /\ orphans' = orphans - 1
  BY DEF OrphanAnswered, reading
<1>2. TypeOK'
  <2>1. orphans' \in 0..MaxOrphans
    BY <1>1, BatchesAssumption DEF BatchInv, TypeOK
  <2> QED
    BY <1>1, <2>1 DEF BatchInv, TypeOK
<1>3. Shape'
  BY <1>1 DEF BatchInv, Shape
<1>4. Yields'
  BY <1>1 DEF BatchInv, Yields
<1>5. \E after, k : Reading(after, k)'
  BY <1>1, ReadingKept DEF BatchInv
<1> QED
  BY <1>2, <1>3, <1>4, <1>5 DEF BatchInv

\* A step after which the reader knows what it knew, or the ledger after one more event.
Follows ==
    \/ Known(view') = Known(view)
    \/ \E k \in DOMAIN past : Known(view) = Known(past[k]) /\ Known(view') = Known(After(k))

\* The ledgers of the history are those that the reader goes through.
LEMMA HistoryAfter ==
  ASSUME TypeOK, NEW after, NEW k, History(after, k), k < Len(events)
  PROVE  k + 1 \in DOMAIN past /\ past[k + 1] = after[k] /\ After(k + 1) = after[k + 1]
<1>1. /\ past \in Seq(Ledger) /\ Len(past) = Len(events) /\ Len(events) \in Nat
      /\ DOMAIN past = 1..Len(past) /\ ledger \in Ledger
  BY LenProperties DEF TypeOK
<1>2. /\ k \in 0..Len(events) /\ after[Len(events)] = ledger
      /\ \A i \in 1..Len(events) : past[i] = after[i - 1]
  BY DEF History
<1>3. k + 1 \in 1..Len(events) /\ (k + 1) - 1 = k
  BY <1>1, <1>2
<1>4. After(k + 1) = IF k + 1 = Len(past) THEN ledger ELSE past[(k + 1) + 1]
  BY <1>1, <1>3 DEF After
<1>5. k + 1 # Len(past) => (k + 1) + 1 \in 1..Len(events) /\ ((k + 1) + 1) - 1 = k + 1
  BY <1>1, <1>3
<1> QED
  BY <1>1, <1>2, <1>3, <1>4, <1>5

\* The reader comes to an event whose message it was told before, or to the one after
\* the last that it knows.
LEMMA ReadInv ==
  ASSUME BatchInv, Read
  PROVE  BatchInv' /\ Follows
<1>0. PICK p : p = Len(events) - Len(unread)
  OBVIOUS
<1> DEFINE e == events[p + 1]
           u == Head(unread)
<1>1. /\ unread # <<>> /\ unread' = Tail(unread)
      /\ UNCHANGED <<ledger, lost, events, past, delivery, running, subscriptionNames, calls,
                     orphans, happened, exits>>
      /\ IF u = <<>> \/ Key(u[1]) \in told THEN UNCHANGED <<view, told>>
         ELSE view' = ReaderStep(view, u[1]) /\ told' = told \cup {Key(u[1])}
  BY DEF Read
<1>2. PICK after, k : Reading(after, k)
  BY DEF BatchInv
<1>3. /\ unread \in Seq(Seq(Message)) /\ Len(unread) \in Nat /\ Len(unread) > 0
      /\ Len(events) \in Nat /\ Len(unread) <= Len(events)
      /\ u = unread[1] /\ Len(unread') = Len(unread) - 1
      /\ unread' \in Seq(Seq(Message))
      /\ \A i \in 1..Len(unread') : unread'[i] = unread[i + 1]
      /\ DOMAIN unread = 1..Len(unread) /\ DOMAIN unread' = 1..Len(unread')
  BY <1>1, HeadTailProperties, LenProperties, EmptySeq DEF BatchInv, TypeOK
<1>4. p + 1 \in 1..Len(events) /\ p \in Nat /\ e \in Event
  <2>1. p + 1 \in 1..Len(events) /\ p \in Nat
    BY <1>0, <1>3
  <2>2. events \in Seq(Event)
    BY DEF BatchInv, TypeOK
  <2> QED
    BY <2>1, <2>2, ElementOfSeq
<1>5. /\ after[p] \in Ledger /\ after[p + 1] \in Ledger /\ Fits(after[p], e)
      /\ after[p + 1] = ChainStep(after[p], e)
  <2>1. p \in 0..Len(events) /\ p + 1 \in 0..Len(events) /\ (p + 1) - 1 = p
    BY <1>3, <1>4
  <2>2. /\ after \in [0..Len(events) -> Ledger]
        /\ \A i \in 1..Len(events) : /\ Fits(after[i - 1], events[i])
                                     /\ after[i] = ChainStep(after[i - 1], events[i])
    BY <1>2 DEF Reading, History
  <2>4. after[p] \in Ledger /\ after[p + 1] \in Ledger
    BY <2>1, <2>2
  <2>3. Fits(after[(p + 1) - 1], e) /\ after[p + 1] = ChainStep(after[(p + 1) - 1], e)
    BY <1>4, <2>2
  <2> QED
    BY <2>1, <2>3, <2>4
<1>6. /\ OnEvent(e) # <<>> => /\ OnEvent(e)[1] \in Message
                              /\ OnEvent(e)[1].id = FormatBlockchainEventId(e)
                              /\ ReaderStep(after[p], OnEvent(e)[1]) = after[p + 1]
      /\ OnEvent(e) = <<>> => after[p + 1] = after[p]
  BY <1>4, <1>5, YieldType
<1>7. u = OnEvent(e) \/ (u = <<>> /\ Creation(e) /\ NewPool(e) \in lost)
  <2>1. 1 \in 1..Len(unread) /\ Len(events) - Len(unread) + 1 = p + 1
    BY <1>0, <1>3
  <2>2. Yields
    BY DEF BatchInv
  <2>3. \/ unread[1] = OnEvent(events[p + 1])
        \/ /\ unread[1] = <<>> /\ Creation(events[p + 1])
           /\ NewPool(events[p + 1]) \in lost
    BY <2>1, <2>2 DEF Yields
  <2> QED
    BY <1>3, <2>3
<1>8. k \in Nat /\ k <= Len(events) /\ k >= p
  <2>1. delivery = "sent"
    BY <1>1 DEF BatchInv, Shape
  <2> QED
    BY <1>0, <1>2, <1>3, <2>1 DEF Reading, History, Position
<1>9. /\ view \in Ledger /\ lost \in NewPools /\ Plus(view, lost) = Plus(after[k], lost)
      /\ after[k] \in Ledger
  BY <1>2 DEF BatchInv, TypeOK, NewPools, Reading, History
<1>10. /\ FormatBlockchainEventId(e) \in Ids
       /\ FormatBlockchainEventId(e)[1] = happened - Len(events)
       /\ FormatBlockchainEventId(e)[3] = p
  <2>1. e.blockNumber = happened - Len(events) /\ e.logIndex = p
    BY <1>3, <1>4 DEF BatchInv, Shape
  <2> QED
    BY <1>4, <2>1 DEF FormatBlockchainEventId, Ids, Event
<1>11. Key(OnEvent(e)[1])[2] = OnEvent(e)[1].id
  BY DEF Key
<1>12. TypeOK'
  <2>1. view' \in Ledger
    <3>1. CASE u = <<>> \/ Key(u[1]) \in told
      BY <1>1, <1>9, <3>1
    <3>2. CASE ~(u = <<>> \/ Key(u[1]) \in told)
      <4>1. view' = ReaderStep(view, u[1]) /\ u[1] \in Message
        BY <1>1, <1>6, <1>7, <3>2
      <4> HIDE DEF u
      <4> QED
        BY <1>9, <4>1, ReaderStepPlus
    <3> QED
      BY <3>1, <3>2
  <2>2. \A i \in DOMAIN unread' : Len(unread'[i]) <= 1
    <3>1. \A i \in 1..Len(unread') : i + 1 \in 1..Len(unread)
      BY <1>3
    <3>2. \A i \in 1..Len(unread) : Len(unread[i]) <= 1
      BY <1>3 DEF BatchInv, TypeOK
    <3> QED
      BY <1>3, <3>1, <3>2
  <2>3. Len(unread') <= Len(events')
    BY <1>1, <1>3
  <2> QED
    BY <1>1, <1>3, <2>1, <2>2, <2>3 DEF BatchInv, TypeOK
<1>13. Shape'
  BY <1>1 DEF BatchInv, Shape
<1>14. Yields'
  <2>1. ASSUME NEW i \in 1..Len(unread')
        PROVE  /\ i + 1 \in 1..Len(unread)
               /\ Len(events) - Len(unread') + i = Len(events) - Len(unread) + (i + 1)
    BY <1>3
  <2> QED
    BY <1>1, <1>3, <2>1 DEF BatchInv, Yields
<1>15. \A i : Done(i) => Done(i)'
  BY <1>1 DEF Done
<1>16. Done(p + 1)'
  <2>1. \/ OnEvent(e) = <<>>
        \/ Key(OnEvent(e)[1]) \in told'
        \/ Creation(e) /\ NewPool(e) \in lost
    BY <1>1, <1>7
  <2> QED
    BY <1>1, <2>1 DEF Done
<1>17. CASE k > p
  <2>1. Done(p + 1)
    <3>1. p + 1 \in 1..k
      BY <1>4, <1>8, <1>17
    <3> QED
      BY <1>2, <3>1 DEF Reading
  <2>2. Plus(view', lost) = Plus(view, lost)
    <3>1. CASE u = <<>> \/ Key(u[1]) \in told
      BY <1>1, <3>1
    <3>2. CASE ~(u = <<>> \/ Key(u[1]) \in told)
      <4>1. u = OnEvent(e) /\ Creation(e) /\ NewPool(e) \in lost
        BY <1>7, <2>1, <3>2 DEF Done
      <4>2. view' = ReaderStep(view, OnEvent(e)[1])
        BY <1>1, <3>2, <4>1
      <4>3. OnEvent(e) = <<PoolMessage(e)>>
        BY <4>1 DEF OnEvent, Creation
      <4>4. e.to \in Addresses /\ NewPoolType(e) \in Types
        BY <1>4 DEF Event, NewPoolType, Types
      <4>5. ReaderStep(view, PoolMessage(e)) = Creates(view, e.to, NewPoolType(e))
        <5>1. PoolMessage(e).event = "token-pool"
          BY DEF PoolMessage
        <5>2. PoolMessage(e).pool.poolLocator
                 = [address |-> e.to, schema |-> "schema", type |-> NewPoolType(e)]
          BY DEF PoolMessage, PackPoolLocator
        <5> QED
          BY <5>1, <5>2 DEF ReaderStep, UnpackPoolLocator, Get
      <4>6. view' = Plus(view, {NewPool(e)})
        <5>1. OnEvent(e)[1] = PoolMessage(e)
          BY <4>3
        <5> QED
          BY <4>2, <4>5, <5>1 DEF Plus, Creates, NewPool
      <4>7. {NewPool(e)} \in NewPools /\ {NewPool(e)} \cup lost = lost
        BY <4>1, <4>4 DEF NewPools, NewPool
      <4> QED
        BY <1>9, <4>6, <4>7, PlusTwice
    <3> QED
      BY <3>1, <3>2
  <2>3. History(after, k)'
    BY <1>1, <1>2, <2>2 DEF Reading, History
  <2>4. Position(k)'
    <3>1. \A t \in told' : t \in told \/ (u = OnEvent(e) /\ u # <<>> /\ t = Key(u[1]))
      BY <1>1, <1>7
    <3>2. Key(OnEvent(e)[1])[2] = FormatBlockchainEventId(e) \/ OnEvent(e) = <<>>
      BY <1>6, <1>11
    <3>3. \A t \in told' : /\ t[2] \in Ids
                           /\ t[2][1] <= happened' - Len(events')
                           /\ t[2][1] = happened' - Len(events') => t[2][3] < k
      <4> TAKE t \in told'
      <4>1. CASE t \in told
        BY <1>1, <1>2, <4>1 DEF Reading, Position
      <4>2. CASE t \notin told
        <5>1. t[2] = FormatBlockchainEventId(e)
          BY <3>1, <3>2, <4>2
        <5>2. happened \in Int
          BY DEF BatchInv, TypeOK
        <5> QED
          BY <1>1, <1>3, <1>10, <1>17, <5>1, <5>2
      <4> QED
        BY <4>1, <4>2
    <3>4. IF delivery' = "sent" THEN k >= Len(events') - Len(unread') ELSE k = 0
      BY <1>0, <1>1, <1>2, <1>3, <1>4, <1>8, <1>17 DEF Reading, Position
    <3> QED
      BY <3>3, <3>4 DEF Position
  <2>5. Reading(after, k)'
    BY <1>2, <1>15, <2>3, <2>4 DEF Reading
  <2> QED
    BY <1>12, <1>13, <1>14, <2>2, <2>5 DEF BatchInv, Follows, Known, Plus
<1>18. CASE k = p
  <2>1. u # <<>> => Key(u[1]) \notin told
    <3>1. \A t \in told : t[2] # FormatBlockchainEventId(e)
      <4> TAKE t \in told
      <4>1. t[2] \in Ids /\ (t[2][1] = happened - Len(events) => t[2][3] < k)
        BY <1>2 DEF Reading, Position
      <4> QED
        BY <1>8, <1>10, <1>18, <4>1
    <3> QED
      BY <1>6, <1>7, <1>11, <3>1
  <2>2. Plus(view', lost) = Plus(after[k + 1], lost)
    <3>1. CASE u # <<>>
      <4>1. view' = ReaderStep(view, OnEvent(e)[1]) /\ OnEvent(e) # <<>>
        BY <1>1, <1>7, <2>1, <3>1
      <4>2. Plus(view', lost) = ReaderStep(Plus(view, lost), OnEvent(e)[1])
        BY <1>6, <1>9, <4>1, ReaderStepPlus
      <4>3. Plus(after[k + 1], lost) = ReaderStep(Plus(after[k], lost), OnEvent(e)[1])
        <5>1. /\ ReaderStep(after[k], OnEvent(e)[1]) = after[k + 1]
              /\ OnEvent(e)[1] \in Message
          BY <1>6, <1>18, <4>1
        <5> HIDE DEF e
        <5>2. ReaderStep(Plus(after[k], lost), OnEvent(e)[1])
                 = Plus(ReaderStep(after[k], OnEvent(e)[1]), lost)
          BY <1>9, <5>1, ReaderStepPlus
        <5> QED
          BY <5>1, <5>2
      <4> QED
        BY <1>9, <4>2, <4>3
    <3>2. CASE u = <<>> /\ OnEvent(e) = <<>>
      BY <1>1, <1>6, <1>9, <1>18, <3>2
    <3>3. CASE u = <<>> /\ OnEvent(e) # <<>>
      <4>1. Creation(e) /\ NewPool(e) \in lost
        BY <1>7, <3>3
      <4>2. e.to \in Addresses /\ NewPoolType(e) \in Types
        BY <1>4 DEF Event, NewPoolType, Types
      <4>3. after[k + 1] = Plus(after[k], {NewPool(e)})
        <5>1. after[k + 1] = Creates(after[k], e.to, NewPoolType(e))
          BY <1>5, <1>18, <4>1 DEF ChainStep, Creation
        <5> QED
          BY <5>1 DEF Creates, Plus, NewPool
      <4>4. {NewPool(e)} \in NewPools /\ {NewPool(e)} \cup lost = lost
        BY <4>1, <4>2 DEF NewPools, NewPool
      <4>5. Plus(after[k + 1], lost) = Plus(after[k], lost)
        BY <1>9, <4>3, <4>4, PlusTwice
      <4> QED
        BY <1>1, <1>9, <3>3, <4>5
    <3> QED
      BY <3>1, <3>2, <3>3
  <2>3. History(after, k + 1)'
    <3>1. k + 1 \in 0..Len(events)
      BY <1>4, <1>18
    <3> QED
      BY <1>1, <1>2, <2>2, <3>1 DEF Reading, History
  <2>4. Position(k + 1)'
    <3>1. \A t \in told' : t \in told \/ (u = OnEvent(e) /\ u # <<>> /\ t = Key(u[1]))
      BY <1>1, <1>7
    <3>2. Key(OnEvent(e)[1])[2] = FormatBlockchainEventId(e) \/ OnEvent(e) = <<>>
      BY <1>6, <1>11
    <3>3. \A t \in told' : /\ t[2] \in Ids
                           /\ t[2][1] <= happened' - Len(events')
                           /\ t[2][1] = happened' - Len(events') => t[2][3] < k + 1
      <4> TAKE t \in told'
      <4>1. CASE t \in told
        <5>1. /\ t[2] \in Ids /\ t[2][1] <= happened - Len(events)
              /\ t[2][1] = happened - Len(events) => t[2][3] < k
          BY <1>2, <4>1 DEF Reading, Position
        <5>2. t[2][3] \in Nat
          BY <5>1 DEF Ids
        <5> QED
          BY <1>1, <1>8, <5>1, <5>2
      <4>2. CASE t \notin told
        <5>1. t[2] = FormatBlockchainEventId(e)
          BY <3>1, <3>2, <4>2
        <5>2. happened \in Int
          BY DEF BatchInv, TypeOK
        <5> QED
          BY <1>1, <1>3, <1>4, <1>10, <1>18, <5>1, <5>2
      <4> QED
        BY <4>1, <4>2
    <3>4. delivery' = "sent" /\ k + 1 >= Len(events') - Len(unread')
      BY <1>0, <1>1, <1>3, <1>18 DEF BatchInv, Shape
    <3> QED
      BY <3>3, <3>4 DEF Position
  <2>5. \A i \in 1..(k + 1) : Done(i)'
    <3>1. \A i \in 1..(k + 1) : i \in 1..k \/ i = p + 1
      BY <1>8, <1>18
    <3>2. \A i \in 1..k : Done(i)'
      BY <1>2, <1>15 DEF Reading
    <3> QED
      BY <1>16, <3>1, <3>2
  <2>6. Reading(after, k + 1)'
    BY <2>3, <2>4, <2>5 DEF Reading
  <2>7. Follows
    <3>1. k < Len(events) /\ TypeOK /\ History(after, k)
      BY <1>2, <1>4, <1>18 DEF BatchInv, Reading
    <3>2. k + 1 \in DOMAIN past /\ past[k + 1] = after[k] /\ After(k + 1) = after[k + 1]
      BY <3>1, HistoryAfter
    <3> QED
      BY <1>9, <2>2, <3>2 DEF Follows, Known, Plus
  <2> QED
    BY <1>12, <1>13, <1>14, <2>6, <2>7 DEF BatchInv
<1> QED
  BY <1>4, <1>8, <1>17, <1>18

\* The next batch starts from the ledger that the reader has got to.
LEMMA AcknowledgedInv ==
  ASSUME BatchInv, Acknowledged
  PROVE  BatchInv'
<1>1. /\ ~running /\ delivery = "sent" /\ unread = <<>> /\ Len(unread) = 0
      /\ delivery' = "new" /\ events' = <<>> /\ Len(events') = 0
      /\ past' = <<>> /\ Len(past') = 0 /\ past' \in Seq(Ledger)
      /\ UNCHANGED <<ledger, unread, view, told, lost, running, subscriptionNames, calls,
                     orphans, happened, exits>>
  BY EmptySeq DEF Acknowledged, reading
<1>2. PICK after, k : Reading(after, k)
  BY DEF BatchInv
<1>3. Len(events) \in Nat /\ Len(events) > 0 /\ happened \in Nat /\ calls = <<>>
  BY <1>1, EmptySeq, LenProperties DEF BatchInv, TypeOK, Shape
<1>4. k = Len(events) /\ Plus(view, lost) = Plus(ledger, lost) /\ ledger \in Ledger
  BY <1>1, <1>2, <1>3 DEF BatchInv, TypeOK, Reading, History, Position
<1>5. TypeOK'
  <2>1. events' \in Seq(Event)
    BY <1>1, EmptySeq
  <2> QED
    BY <1>1, <1>3, <2>1 DEF BatchInv, TypeOK
<1>6. Shape' /\ Yields'
  <2>1. Len(calls') = 0
    BY <1>1, <1>3
  <2> QED
    BY <1>1, <2>1 DEF BatchInv, Shape, Yields
<1>7. Reading([i \in 0..0 |-> ledger], 0)'
  <2> DEFINE first == [i \in 0..0 |-> ledger]
  <2>1. first \in [0..0 -> Ledger] /\ first[0] = ledger
    BY <1>4
  <2>2. first' = first
    BY <1>1
  <2> HIDE DEF first
  <2>3. History(first, 0)'
    BY <1>1, <1>4, <2>1, <2>2 DEF History
  <2>4. Position(0)'
    <3>1. ASSUME NEW t \in told
          PROVE  t[2] \in Ids /\ t[2][1] <= happened /\ t[2][1] # happened
      <4>1. t[2] \in Ids /\ t[2][1] <= happened - Len(events)
        BY <1>2 DEF Reading, Position
      <4>2. t[2][1] \in Nat
        BY <4>1 DEF Ids
      <4> QED
        BY <1>3, <4>1, <4>2
    <3> QED
      BY <1>1, <1>3, <3>1 DEF Position
  <2> QED
    BY <2>3, <2>4 DEF Reading, first
<1> QED
  BY <1>5, <1>6, <1>7 DEF BatchInv

\* The ledgers after the events of the batch go on with the one after the new event.
LEMMA HappensInv ==
  ASSUME BatchInv, NEW e \in ChainEvents, Happens(e)
  PROVE  BatchInv'
<1> DEFINE f == [e EXCEPT !.blockNumber = happened - Len(events), !.logIndex = Len(events)]
<1>1. /\ delivery = "new" /\ happened < MaxEvents /\ Possible(e)
      /\ events' = Append(events, f) /\ happened' = happened + 1
      /\ past' = Append(past, ledger)
      /\ ledger' = ChainStep(ledger, e)
      /\ UNCHANGED <<unread, view, told, lost, delivery, running, subscriptionNames, calls,
                     orphans, exits>>
  BY DEF Happens, reading
<1>2. PICK after, k : Reading(after, k)
  BY DEF BatchInv
<1>3. PICK n \in Nat : n = Len(events)
  BY LenProperties DEF BatchInv, TypeOK
<1>4. PICK block \in Nat : block = happened - n
  <2>1. happened \in Nat /\ n <= happened
    BY <1>3 DEF BatchInv, TypeOK
  <2> QED
    BY <2>1
<1>5. e \in Event /\ f = [e EXCEPT !.blockNumber = block, !.logIndex = n]
  BY <1>3, <1>4, BatchesAssumption
<1>6. /\ f \in Event
      /\ f.signature = e.signature /\ f.subscription = e.subscription
      /\ f.from = e.from /\ f.to = e.to /\ f.value = e.value
      /\ f.blockNumber = block /\ f.logIndex = n
  BY <1>5 DEF Event
<1> HIDE DEF f
<1>7. /\ events' \in Seq(Event) /\ Len(events') = n + 1
      /\ \A i \in 1..n : events'[i] = events[i]
      /\ events'[n + 1] = f
      /\ events \in Seq(Event) /\ \A i \in 1..n : events[i] \in Event
  BY <1>1, <1>3, <1>6, ElementOfSeq DEF BatchInv, TypeOK
<1>8. ledger \in Ledger /\ view \in Ledger
  BY DEF BatchInv, TypeOK
<1>16. /\ past' \in Seq(Ledger) /\ Len(past') = n + 1
       /\ \A i \in 1..n : past'[i] = past[i]
       /\ past'[n + 1] = ledger
  BY <1>1, <1>3, <1>8 DEF BatchInv, TypeOK
<1>9. ChainStep(ledger, f) = ledger' /\ Fits(ledger, f)
  <2>1. NewPoolType(f) = NewPoolType(e)
    BY <1>6 DEF NewPoolType, Flag
  <2>2. ChainStep(ledger, f) = ChainStep(ledger, e)
    BY <1>6, <2>1 DEF ChainStep
  <2>3. Fits(ledger, f)
    BY <1>1, <1>6 DEF Fits, Possible
  <2> QED
    BY <1>1, <2>2, <2>3
<1>10. /\ ledger' \in Ledger /\ ledger.created \subseteq ledger'.created
       /\ Creation(f) => NewPool(f) \in ledger'.created
  BY <1>6, <1>8, <1>9, ChainStepLedger DEF Creation, NewPool
<1>11. unread = <<>> /\ Len(unread) = 0 /\ ~running /\ calls = <<>> /\ Len(calls) = 0
  BY <1>1, EmptySeq DEF BatchInv, TypeOK, Shape
<1>12. TypeOK'
  <2>1. happened' \in 0..MaxEvents /\ Len(events') <= happened'
    BY <1>1, <1>3, <1>7, BatchesAssumption DEF BatchInv, TypeOK
  <2>2. Len(unread') <= Len(events')
    BY <1>1, <1>7, <1>11
  <2> QED
    BY <1>1, <1>7, <1>10, <1>11, <1>16, <2>1, <2>2 DEF BatchInv, TypeOK
<1>13. Shape'
  <2>1. happened' - Len(events') = block
    BY <1>1, <1>3, <1>4, <1>7 DEF BatchInv, TypeOK
  <2>2. ASSUME NEW i \in 1..Len(events')
        PROVE  /\ events'[i].blockNumber = block
               /\ events'[i].logIndex = i - 1
               /\ Creation(events'[i]) => NewPool(events'[i]) \in ledger'.created
    <3>1. CASE i = n + 1
      BY <1>6, <1>7, <1>10, <3>1
    <3>2. CASE i \in 1..n
      <4>1. /\ events[i].blockNumber = block /\ events[i].logIndex = i - 1
            /\ Creation(events[i]) => NewPool(events[i]) \in ledger.created
        BY <1>3, <1>4, <3>2 DEF BatchInv, Shape
      <4>2. events'[i] = events[i]
        BY <1>7, <3>2
      <4> QED
        BY <1>10, <4>1, <4>2
    <3> QED
      BY <1>7, <3>1, <3>2
  <2>3. lost' \subseteq ledger'.created
    BY <1>1, <1>10 DEF BatchInv, Shape
  <2> QED
    <3>1. \A i \in 1..Len(events') :
              /\ events'[i].blockNumber = happened' - Len(events')
              /\ events'[i].logIndex = i - 1
              /\ Creation(events'[i]) => NewPool(events'[i]) \in ledger'.created
      BY <2>1, <2>2
    <3>2. delivery' = "new" /\ ~running' /\ unread' = <<>> /\ Len(calls') = 0
      BY <1>1, <1>11
    <3> QED
      BY <2>3, <3>1, <3>2 DEF Shape
<1>14. Yields'
  BY <1>1, <1>11 DEF Yields
<1>15. \E next : Reading(next, 0)'
  <2>1. k = 0
    BY <1>1, <1>2 DEF Reading, Position
  <2> DEFINE next == [i \in 0..n + 1 |-> IF i = n + 1 THEN ledger' ELSE after[i]]
  <2>2. /\ after \in [0..n -> Ledger] /\ after[n] = ledger
        /\ \A i \in 1..n : /\ Fits(after[i - 1], events[i])
                            /\ after[i] = ChainStep(after[i - 1], events[i])
                            /\ past[i] = after[i - 1]
        /\ Plus(view, lost) = Plus(after[0], lost)
    BY <1>2, <1>3, <2>1 DEF Reading, History
  <2>3. /\ next \in [0..n + 1 -> Ledger]
        /\ next[n + 1] = ledger' /\ \A i \in 0..n : next[i] = after[i]
    BY <1>10, <2>2
  <2> HIDE DEF next
  <2>4. PICK new : new = next
    OBVIOUS
  <2>5. ASSUME NEW i \in 1..n + 1
        PROVE  /\ Fits(new[i - 1], events'[i])
               /\ new[i] = ChainStep(new[i - 1], events'[i])
               /\ past'[i] = new[i - 1]
    <3>1. CASE i = n + 1
      <4>1. new[i - 1] = ledger /\ new[i] = ledger' /\ events'[i] = f
        BY <1>7, <2>2, <2>3, <2>4, <3>1
      <4> QED
        BY <1>9, <1>16, <3>1, <4>1
    <3>2. CASE i \in 1..n
      <4>1. new[i - 1] = after[i - 1] /\ new[i] = after[i] /\ events'[i] = events[i]
        BY <1>7, <2>3, <2>4, <3>2
      <4> QED
        BY <1>16, <2>2, <3>2, <4>1
    <3> QED
      BY <3>1, <3>2
  <2>6. History(new, 0)'
    <3>1. new \in [0..n + 1 -> Ledger] /\ new[n + 1] = ledger' /\ new[0] = after[0]
      BY <2>3, <2>4
    <3> QED
      <4>1. Len(events') = n + 1 /\ 0 \in 0..n + 1
        BY <1>7
      <4>2. Plus(view', lost') = Plus(new[0], lost')
        BY <1>1, <2>2, <3>1
      <4> QED
        BY <2>5, <3>1, <4>1, <4>2 DEF History
  <2>7. Position(0)'
    <3>1. happened' - Len(events') = happened - Len(events)
      BY <1>1, <1>3, <1>7 DEF BatchInv, TypeOK
    <3> QED
      BY <1>1, <1>2, <2>1, <3>1 DEF Reading, Position
  <2>8. Reading(new, 0)'
    BY <2>6, <2>7 DEF Reading
  <2> QED
    BY <2>8
<1> QED
  BY <1>12, <1>13, <1>14, <1>15 DEF BatchInv
-----------------------------------------------------------------------------
(* The theorems *)

\* The task of processEvents tells the reader nothing, however it goes on.
LEMMA ProceedTellsNothing ==
  ASSUME NEW c, NEW names, Proceed(c, names)
  PROVE  view' = view
<1>1. CASE Unhandled(c)
  BY <1>1 DEF Proceed, Exit, reading
<1>2. CASE ~Unhandled(c)
  BY <1>2 DEF Proceed, Send, reading
<1> QED
  BY <1>1, <1>2

\* The reader learns nothing from a step that is not its own.
LEMMA NothingNew ==
  ASSUME [Next]_vars, ~Read
  PROVE  Follows
<1>1. CASE \E e \in ChainEvents : Happens(e)
  BY <1>1 DEF Happens, reading, Follows, Known
<1>2. CASE Start
  <2>1. view' = view
    BY <1>2, ProceedTellsNothing DEF Start
  <2> QED
    BY <2>1 DEF Follows, Known
<1>3. CASE Acknowledged \/ OrphanAnswered \/ OrphanFailed \/ UNCHANGED vars
  BY <1>3 DEF Acknowledged, OrphanAnswered, OrphanFailed, Exit, vars, reading, Follows, Known
<1>4. ASSUME NEW i \in DOMAIN calls, Answered(i) PROVE Follows
  <2>1. view' = view
    BY <1>4, ProceedTellsNothing
    DEF Answered, NameFound, NameUnknown, UriAnswered, SchemaAnswered, DecimalsAnswered,
        DecimalsFailed, Settles, reading
  <2> QED
    BY <2>1 DEF Follows, Known
<1> QED
  BY <1>1, <1>2, <1>3, <1>4 DEF Next

\* Every step preserves the invariant, and one that ends the process has a batch with
\* other events, or calls of a batch that was given up.  The reader follows.
LEMMA NextBatchInv ==
  BatchInv /\ [Next]_vars => /\ BatchInv'
                             /\ exits' # exits => Len(events) > 1 \/ orphans > 0
                             /\ Follows
<1> SUFFICES ASSUME BatchInv, [Next]_vars
             PROVE  BatchInv' /\ (exits' # exits => Len(events) > 1 \/ orphans > 0)
  BY ReadInv, NothingNew
<1>1. CASE \E e \in ChainEvents : Happens(e)
  BY <1>1, HappensInv DEF Happens
<1>2. CASE Start
  BY <1>2, StartInv
<1>3. CASE Read
  BY <1>3, ReadInv DEF Read
<1>4. CASE Acknowledged
  BY <1>4, AcknowledgedInv DEF Acknowledged
<1>5. CASE \E i \in DOMAIN calls : Answered(i)
  BY <1>5, AnsweredInv
<1>6. CASE OrphanAnswered
  BY <1>6, OrphanAnsweredInv DEF OrphanAnswered
<1>7. CASE OrphanFailed
  <2>1. Exit /\ UNCHANGED delivery /\ orphans > 0
    BY <1>7 DEF OrphanFailed
  <2>2. Delivered => events # <<>>
    BY <2>1 DEF Delivered, BatchInv, TypeOK, Shape
  <2> QED
    BY <2>1, <2>2, ExitInv
<1>8. CASE UNCHANGED vars
  <2>1. UNCHANGED <<ledger, reading, unread, view, told, lost, events, past, delivery, running,
                    subscriptionNames, calls, orphans, happened, exits>>
    BY <1>8 DEF vars, reading
  <2>2. TypeOK' /\ Shape' /\ Yields'
    BY <2>1 DEF BatchInv, TypeOK, Shape, Yields
  <2>3. \E after, k : Reading(after, k)'
    BY <2>1, ReadingKept DEF BatchInv
  <2> QED
    BY <2>1, <2>2, <2>3 DEF BatchInv
<1> QED
  BY <1>1, <1>2, <1>3, <1>4, <1>5, <1>6, <1>7, <1>8 DEF Next

\* The invariant holds of every state.
LEMMA BatchAlwaysInv == Spec => []BatchInv
<1>1. Init => BatchInv
  BY InitBatchInv
<1>2. BatchInv /\ [Next]_vars => BatchInv'
  BY NextBatchInv
<1> QED
  BY <1>1, <1>2, PTL DEF Spec

\* Batches are typed correctly.
THEOREM BatchTypeCorrect == Spec => []TypeOK
<1>1. BatchInv => TypeOK
  BY DEF BatchInv
<1> QED
  BY <1>1, BatchAlwaysInv, PTL

\* The reader of the messages follows the ledger of the contracts, however often batches
\* are delivered and whatever fails on the way (processEvents, onEvent,
\* formatBlockchainEventId, packSubscriptionName, unpackSubscriptionName).
THEOREM LedgerAlwaysFollowed == Spec => []LedgerFollowed
<1>1. BatchInv => LedgerFollowed
  <2> SUFFICES ASSUME BatchInv, events = <<>> \/ delivery = "sent", unread = <<>>
               PROVE  Plus(view, lost) = ledger
    BY DEF LedgerFollowed, Known, Plus
  <2>1. PICK after, k : Reading(after, k)
    BY DEF BatchInv
  <2>2. Len(events) \in Nat /\ Len(unread) = 0 /\ (events = <<>> => Len(events) = 0)
    BY EmptySeq, LenProperties DEF BatchInv, TypeOK
  <2>3. k = Len(events)
    BY <2>1, <2>2 DEF Reading, History, Position
  <2>4. Plus(view, lost) = Plus(ledger, lost)
    BY <2>1, <2>3 DEF Reading, History
  <2>5. ledger \in Ledger /\ lost \in NewPools /\ lost \subseteq ledger.created
    BY DEF BatchInv, TypeOK, NewPools, Shape
  <2> QED
    BY <2>4, <2>5, PlusTwice
<1> QED
  BY <1>1, BatchAlwaysInv, PTL

\* The reader takes one event of the batch after the other, in their order, whatever order
\* their handlers end in (processEvents): it never knows a ledger that the contracts were
\* not in.
THEOREM ReaderAlwaysFollows == Spec => ReaderFollows
<1>1. BatchInv /\ [Next]_vars =>
         [\/ Known(view') = Known(view)
          \/ \E k \in DOMAIN past : /\ Known(view) = Known(past[k])
                                    /\ Known(view') = Known(After(k))]_vars
  BY NextBatchInv DEF Follows
<1> QED
  BY <1>1, BatchAlwaysInv, PTL DEF Spec, ReaderFollows

\* A failure ends the process only if the batch had other events, or a batch given up
\* before it still had calls to answer (processEvents, catch).
THEOREM LoneFailureAlwaysContained == Spec => LoneFailureContained
<1>1. BatchInv /\ [Next]_vars =>
         [exits' # exits => Len(events) > 1 \/ orphans > 0]_vars
  BY NextBatchInv
<1> QED
  BY <1>1, BatchAlwaysInv, PTL DEF Spec, LoneFailureContained
-----------------------------------------------------------------------------
(* Why the task ends, but for fairness: an answer is always awaited, and each one takes *)
(* the promises closer to their ends.                                                   *)

\* Promises that have come closer to their ends.
Closer(c, d) ==
    /\ \A i \in DOMAIN c : AnswersLeft(d[i]) <= AnswersLeft(c[i])
    /\ \E i \in DOMAIN c : AnswersLeft(d[i]) < AnswersLeft(c[i])

\* The answers left in each state of a promise.
LEMMA AnswersLeftOf ==
  ASSUME NEW call
  PROVE  /\ AnswersLeft(call) \in 0..3
         /\ call = "unnamed" => AnswersLeft(call) = 3
         /\ call = "decimals" => AnswersLeft(call) = 2
         /\ call \in {"uri", "schema"} => AnswersLeft(call) = 1
         /\ call \in {"settled", "rejected"} => AnswersLeft(call) = 0
  BY DEF AnswersLeft

\* A promise that is left alone, or comes closer to its end, is not taken back.
LEMMA NotTakenBack ==
  ASSUME NEW x, NEW y, x = y \/ AnswersLeft(x) < AnswersLeft(y)
  PROVE  AnswersLeft(x) <= AnswersLeft(y)
<1>1. AnswersLeft(x) \in 0..3 /\ AnswersLeft(y) \in 0..3
  BY AnswersLeftOf
<1> QED
  BY <1>1

\* An answer settles a promise, or takes it to the second of its two calls.
LEMMA AnswerTakesOn ==
  ASSUME NEW x, NEW y,
         \/ x = "settled" /\ y \in {"uri", "schema"}
         \/ x \in {"schema", "rejected"} /\ y = "decimals"
  PROVE  AnswersLeft(x) < AnswersLeft(y)
<1>1. CASE x = "settled" /\ y \in {"uri", "schema"}
  <2>1. AnswersLeft(x) = 0 /\ AnswersLeft(y) = 1
    BY <1>1, AnswersLeftOf
  <2> QED
    BY <2>1
<1>2. CASE x \in {"schema", "rejected"} /\ y = "decimals"
  <2>1. AnswersLeft(x) \in {0, 1} /\ AnswersLeft(y) = 2
    BY <1>2, AnswersLeftOf
  <2> QED
    BY <2>1
<1> QED
  BY <1>1, <1>2

\* A set of natural numbers has a least element.
LEMMA LeastNatural ==
  ASSUME NEW S, S \subseteq Nat, S # {}
  PROVE  \E m \in S : \A k \in S : m <= k
<1> DEFINE less == {pair \in Nat \X Nat : pair[1] < pair[2]}
<1>1. IsWellFoundedOn(less, Nat)
  BY NatLessThanWellFounded DEF OpToRel
<1>2. \A j, k \in Nat : j < k => <<j, k>> \in less
  OBVIOUS
<1> HIDE DEF less
<1>3. PICK m \in S : \A k \in S : <<k, m>> \notin less
  BY <1>1, WFMin
<1>4. ASSUME NEW k \in S
      PROVE  m <= k
  <2>1. m \in Nat /\ k \in Nat
    OBVIOUS
  <2>2. ~(k < m)
    BY <1>2, <1>3, <2>1
  <2> QED
    BY <2>1, <2>2
<1> QED
  BY <1>4

\* The task ends, or it waits for the calls that it was given.
LEMMA ProceedWaits ==
  ASSUME NEW c, NEW names, Proceed(c, names)
  PROVE  ~running' \/ (calls' = c /\ ~AllSettled(c))
<1>1. CASE Unhandled(c)
  <2>1. running' = FALSE
    BY <1>1 DEF Proceed, Exit
  <2> QED
    BY <2>1, Zenon
<1>2. CASE ~Unhandled(c) /\ AllSettled(c)
  <2>1. running' = FALSE
    BY <1>2 DEF Proceed, Send
  <2> QED
    BY <2>1, Zenon
<1>3. CASE ~Unhandled(c) /\ ~AllSettled(c)
  BY <1>3 DEF Proceed
<1> QED
  BY <1>1, <1>2, <1>3

\* The loop over the events goes on, past the event whose name was found.
LEMMA NamedCloser ==
  ASSUME BatchInv, NEW i \in DOMAIN calls, LookingUp(i),
         NEW names, events[i].subscription \in names
  PROVE  Closer(calls, WithNamed(calls, names))
<1> DEFINE w == WithNamed(calls, names)
<1>1. DOMAIN calls = 1..Len(calls) /\ Len(calls) \in Nat
  BY LenProperties DEF BatchInv, TypeOK
<1>2. /\ calls[i] = "unnamed"
      /\ \A j \in 1..i - 1 : calls[j] # "unnamed"
  BY DEF LookingUp
<1>3. \A j \in 1..i : calls[j] = "unnamed" => events[j].subscription \in names
  BY <1>1, <1>2
<1>4. /\ w[i] = FirstCall(events[i])
      /\ \A j \in DOMAIN calls :
            w[j] = calls[j] \/ (calls[j] = "unnamed" /\ w[j] = FirstCall(events[j]))
  BY <1>2, <1>3 DEF WithNamed
<1>5. \A e : FirstCall(e) \in {"decimals", "schema", "uri", "settled"}
  BY DEF FirstCall
<1> HIDE DEF w
<1>6. \A e : AnswersLeft(FirstCall(e)) \in 0..2
  BY <1>5, AnswersLeftOf
<1>7. \A j \in DOMAIN calls : AnswersLeft(w[j]) <= AnswersLeft(calls[j])
  <2> TAKE j \in DOMAIN calls
  <2>1. AnswersLeft(calls[j]) \in 0..3 /\ (calls[j] = "unnamed" => AnswersLeft(calls[j]) = 3)
    BY AnswersLeftOf
  <2> QED
    BY <1>4, <1>6, <2>1
<1>8. AnswersLeft(w[i]) < AnswersLeft(calls[i])
  BY <1>2, <1>4, <1>6, AnswersLeftOf
<1> QED
  BY <1>7, <1>8 DEF Closer, w

\* One promise is settled, or goes on to its next call.
LEMMA SettledCloser ==
  ASSUME NEW i \in DOMAIN calls, NEW as, AnswersLeft(as) < AnswersLeft(calls[i])
  PROVE  Closer(calls, [calls EXCEPT ![i] = as])
<1> DEFINE d == [calls EXCEPT ![i] = as]
<1>1. d[i] = as /\ \A j \in DOMAIN calls : j # i => d[j] = calls[j]
  OBVIOUS
<1> HIDE DEF d
<1>2. \A j \in DOMAIN calls : d[j] = calls[j] \/ AnswersLeft(d[j]) < AnswersLeft(calls[j])
  BY <1>1, Zenon
<1>3. \A j \in DOMAIN calls : AnswersLeft(d[j]) <= AnswersLeft(calls[j])
  BY <1>2, NotTakenBack, Zenon
<1> QED
  BY <1>1, <1>3, Zenon DEF Closer, d

\* What an answer leaves of the task.
LEMMA AnsweredCloser ==
  ASSUME BatchInv, NEW i \in DOMAIN calls, Answered(i)
  PROVE  ~running' \/ (Closer(calls, calls') /\ ~AllSettled(calls'))
<1>1. CASE NameFound(i)
  <2> DEFINE names == subscriptionNames \cup {events[i].subscription}
  <2>1. LookingUp(i) /\ Proceed(WithNamed(calls, names), names)
    BY <1>1 DEF NameFound
  <2>2. events[i].subscription \in names
    OBVIOUS
  <2> HIDE DEF names
  <2>3. Closer(calls, WithNamed(calls, names))
    BY <2>1, <2>2, NamedCloser
  <2> QED
    BY <2>1, <2>3, ProceedWaits
<1>2. CASE NameUnknown(i)
  <2>1. running' = FALSE
    BY <1>2 DEF NameUnknown, GiveUp
  <2> QED
    BY <2>1, Zenon
<1>3. CASE UriAnswered(i) \/ SchemaAnswered(i) \/ DecimalsAnswered(i) \/ DecimalsFailed(i)
  <2>1. PICK as : /\ Settles(i, as)
                  /\ \/ calls[i] \in {"uri", "schema"} /\ as = "settled"
                     \/ calls[i] = "decimals" /\ as \in {"schema", "rejected"}
    BY <1>3 DEF UriAnswered, SchemaAnswered, DecimalsAnswered, DecimalsFailed
  <2>2. AnswersLeft(as) < AnswersLeft(calls[i])
    BY <2>1, AnswerTakesOn
  <2>3. Closer(calls, [calls EXCEPT ![i] = as])
    BY <2>2, SettledCloser
  <2>4. Proceed([calls EXCEPT ![i] = as], subscriptionNames)
    BY <2>1 DEF Settles
  <2> QED
    BY <2>3, <2>4, ProceedWaits
<1> QED
  BY <1>1, <1>2, <1>3 DEF Answered

\* What any step leaves of it.
LEMMA TaskStep ==
  ASSUME BatchInv, [Next]_vars
  PROVE  \/ ~running'
         \/ running' = running /\ calls' = calls
         \/ ~running /\ ~AllSettled(calls')
         \/ Closer(calls, calls') /\ ~AllSettled(calls')
<1>1. CASE UNCHANGED vars
  BY <1>1 DEF vars
<1>2. CASE \E e \in ChainEvents : Happens(e)
  BY <1>2 DEF Happens
<1>3. CASE Start
  <2>1. ~running /\ \E c, names : Proceed(c, names)
    BY <1>3 DEF Start
  <2> QED
    BY <2>1, ProceedWaits
<1>4. CASE Read \/ Acknowledged \/ OrphanAnswered
  BY <1>4 DEF Read, Acknowledged, OrphanAnswered
<1>5. CASE \E i \in DOMAIN calls : Answered(i)
  BY <1>5, AnsweredCloser
<1>6. CASE OrphanFailed
  <2>1. running' = FALSE
    BY <1>6 DEF OrphanFailed, Exit
  <2> QED
    BY <2>1, Zenon
<1> QED
  BY <1>1, <1>2, <1>3, <1>4, <1>5, <1>6 DEF Next

\* Each answer that leaves processEvents at work brings the promise of some event closer
\* to its end and takes none back, whatever is delivered again or given up besides
\* (processEvents, getSubscriptionName, onEvent).
THEOREM PromisesAlwaysAdvance == Spec => PromisesAdvance
<1>1. ASSUME BatchInv, [Next]_vars, running, running', calls' # calls
      PROVE  Closer(calls, calls')
  BY <1>1, TaskStep
<1>2. BatchInv /\ [Next]_vars =>
         [running /\ running' /\ calls' # calls =>
             /\ \A i \in DOMAIN calls : AnswersLeft(calls'[i]) <= AnswersLeft(calls[i])
             /\ \E i \in DOMAIN calls : AnswersLeft(calls'[i]) < AnswersLeft(calls[i])]_vars
  BY <1>1 DEF Closer
<1> QED
  BY <1>2, BatchAlwaysInv, PTL DEF Spec, PromisesAdvance

\* Some promise is pending, and the first of those without a name is being looked up.
LEMMA PendingIsAwaited ==
  ASSUME TypeOK, ~AllSettled(calls)
  PROVE  \E i \in DOMAIN calls : LookingUp(i) \/ calls[i] \in {"uri", "decimals", "schema"}
<1>1. DOMAIN calls = 1..Len(calls) /\ Len(calls) \in Nat
  BY LenProperties DEF TypeOK
<1>2. PICK i \in DOMAIN calls : calls[i] \in Pending
  BY DEF AllSettled
<1>3. CASE calls[i] # "unnamed"
  BY <1>2, <1>3 DEF Pending
<1>4. CASE calls[i] = "unnamed"
  <2> DEFINE unnamed == {j \in DOMAIN calls : calls[j] = "unnamed"}
  <2>1. unnamed \subseteq Nat /\ unnamed # {}
    BY <1>1, <1>4
  <2>2. PICK first \in unnamed : \A j \in unnamed : first <= j
    BY <2>1, LeastNatural
  <2>3. \A j \in 1..first - 1 : calls[j] # "unnamed"
    BY <1>1, <2>2
  <2> QED
    BY <2>2, <2>3 DEF LookingUp
<1> QED
  BY <1>3, <1>4

\* While processEvents is at work, it has a call that EVMConnect has still to answer:
\* the name that it looks up, or one that a handler awaits (processEvents).
THEOREM AnswerAlwaysAwaited == Spec => []AnswerAwaited
<1> DEFINE Waits == running => ~AllSettled(calls)
<1>1. Init => BatchInv /\ Waits
  <2>1. Init => ~running
    <3>1. Init => running = FALSE
      BY DEF Init
    <3> QED
      BY <3>1, Zenon
  <2> QED
    BY <2>1, InitBatchInv
<1>2. BatchInv /\ Waits /\ [Next]_vars => BatchInv' /\ Waits'
  <2>1. SUFFICES ASSUME BatchInv, Waits, [Next]_vars
                 PROVE  Waits'
    BY NextBatchInv
  <2>2. AllSettled(calls)' <=> AllSettled(calls')
    BY DEF AllSettled
  <2> QED
    BY <2>1, <2>2, TaskStep
<1>3. BatchInv /\ Waits => AnswerAwaited
  BY PendingIsAwaited DEF BatchInv, AnswerAwaited
<1> QED
  BY <1>1, <1>2, <1>3, PTL DEF Spec
=============================================================================
