------------------------- MODULE TokenListenerProofs -------------------------
(***************************************************************************)
(* What holds of names, locators and messages for every set of pools,      *)
(* accounts and tokens: what is packed is read back, and a message tells   *)
(* of its event what the contract meant by it.                             *)
(***************************************************************************)
EXTENDS TokenListener, TLAPS

\* A subscription name gives back all that it was packed from
\* (packSubscriptionName, unpackSubscriptionName).
THEOREM NameRoundTrip ==
  ASSUME NEW poolLocator, NEW event, NEW poolData
  PROVE  UnpackSubscriptionName(PackSubscriptionName(poolLocator, event, poolData))
            = [poolLocator |-> poolLocator, event |-> event, poolData |-> poolData]
  BY DEF PackSubscriptionName, UnpackSubscriptionName, EncodeURIComponent,
         DecodeURIComponent

\* So no two subscriptions have the same name, unless they are to the same event of the
\* same pool with the same data.
THEOREM NamesDiffer ==
  ASSUME NEW l1, NEW e1, NEW d1, NEW l2, NEW e2, NEW d2,
         PackSubscriptionName(l1, e1, d1) = PackSubscriptionName(l2, e2, d2)
  PROVE  l1 = l2 /\ e1 = e2 /\ d1 = d2
<1>1. [poolLocator |-> l1, event |-> e1, poolData |-> d1]
         = [poolLocator |-> l2, event |-> e2, poolData |-> d2]
  BY NameRoundTrip
<1> QED
  BY <1>1

\* A pool locator gives back what it was packed from, and so the locator of a new pool
\* is one that requests about the pool are accepted with (packPoolLocator,
\* unpackPoolLocator, validatePoolLocator).
THEOREM LocatorRoundTrip ==
  ASSUME NEW address, NEW schema, NEW type,
         address # Undefined, schema # Undefined, type # Undefined
  PROVE  LET locator == [address |-> address, schema |-> schema, type |-> type]
         IN  /\ UnpackPoolLocator(PackPoolLocator(locator)) = locator
             /\ ValidatePoolLocator(UnpackPoolLocator(PackPoolLocator(locator)))
<1> DEFINE locator == [address |-> address, schema |-> schema, type |-> type]
           text == PackPoolLocator(locator)
<1>1. /\ DOMAIN text = {"address", "schema", "type"}
      /\ text["address"] = address /\ text["schema"] = schema /\ text["type"] = type
  BY DEF PackPoolLocator
<1> HIDE DEF text
<1>2. UnpackPoolLocator(text) = locator
  BY <1>1 DEF UnpackPoolLocator, Get
<1>3. ValidatePoolLocator(locator)
  BY DEF ValidatePoolLocator
<1> QED
  BY <1>2, <1>3 DEF text
-----------------------------------------------------------------------------
(* Events of pools *)

\* What the connector reads from the name of a pool's subscription is the pool.
LEMMA PoolRead ==
  ASSUME NEW e \in Event, e.subscription.of \in Pools
  PROVE  /\ Unpacked(e).poolLocator = e.subscription.of.poolLocator
         /\ PoolOf(e) = e.subscription.of
         /\ LocatorType(e) = e.subscription.of.poolLocator.type
         /\ LocatorType(e) \in Types
<1> DEFINE p == e.subscription.of
<1>1. Unpacked(e) = [poolLocator |-> p.poolLocator, event |-> e.subscription.event,
                     poolData |-> p.poolData]
  BY NameRoundTrip DEF Unpacked, Name
<1>2. p = [poolLocator |-> p.poolLocator, poolData |-> p.poolData]
  BY ListenerAssumption
<1>3. /\ UnpackPoolLocator(p.poolLocator).type \in Types
      /\ Undefined \notin Types
  BY ListenerAssumption
<1>4. UnpackPoolLocator(p.poolLocator).type = p.poolLocator.type
  BY <1>3 DEF UnpackPoolLocator, Get
<1> QED
  BY <1>1, <1>2, <1>3, <1>4 DEF PoolOf, LocatorType

\* What it reads from the name of somebody else's subscription is nothing.
LEMMA NoPoolRead ==
  ASSUME NEW e \in Event, e.subscription.of \notin Pools,
         e.subscription.of \notin Factories
  PROVE  Unpacked(e) = [poolLocator |-> Undefined, event |-> Undefined,
                        poolData |-> Undefined]
  BY DEF Unpacked, Name, UnpackSubscriptionName

\* The kinds of events.
LEMMA EventKinds ==
  ASSUME NEW e \in Event
  PROVE  \/ e.signature = "TokenPoolCreation" /\ e.subscription.of \notin Pools
         \/ e.signature \in PoolEvents /\ e.subscription.of \in Pools
         \/ /\ e.signature # "TokenPoolCreation"
            /\ e.subscription.of \notin Pools /\ e.subscription.of \notin Factories
<1>1. /\ e.subscription \in Subscription
      /\ e.signature = e.subscription.event
  BY DEF Event
<1>2. CASE e.subscription \in [of : Pools, event : PoolEvents]
  BY <1>1, <1>2
<1>3. CASE e.subscription \in [of : Factories, event : {"TokenPoolCreation"}]
  BY <1>1, <1>3, ListenerAssumption
<1>4. CASE e.subscription \in [of : Strays, event : Signatures]
  BY <1>1, <1>4, ListenerAssumption
<1> QED
  BY <1>1, <1>2, <1>3, <1>4 DEF Subscription

\* What an event may be, given the ledger before it: only the owner of a token
\* transfers it.
Fits(v, e) ==
    e.signature = "Transfer" /\ e.subscription.of \in Pools
        /\ ~IsFungible(e.subscription.of) =>
            e.value \in Tokens /\ v.owner[e.subscription.of][e.value] = e.from

\* The reader of an event's message learns what the event says.
Tells(v, e) ==
    IF OnEvent(e) = <<>> THEN ChainStep(v, e) = v
    ELSE \E m \in Message :
            /\ OnEvent(e) = <<m>>
            /\ m.id = FormatBlockchainEventId(e)
            /\ ReaderStep(v, m) = ChainStep(v, e)

LEMMA PoolCreationTold ==
  ASSUME NEW e \in Event, e.signature = "TokenPoolCreation",
         e.subscription.of \notin Pools, NEW v \in Ledger
  PROVE  Tells(v, e)
<1> DEFINE m == PoolMessage(e)
<1>1. Unpacked(e).poolData = Undefined
  BY NameRoundTrip, NoPoolRead DEF Unpacked, Name
<1>2. m.id = FormatBlockchainEventId(e) /\ m.id \in Ids
  BY DEF PoolMessage, FormatBlockchainEventId, Event, Ids
<1>3. NewPoolType(e) \in Types /\ e.to \in Addresses
  BY DEF NewPoolType, Types, Event
<1>4. m.pool.poolLocator = [address |-> e.to, schema |-> "schema",
                            type |-> NewPoolType(e)]
  BY DEF PoolMessage, PackPoolLocator
<1>5. m \in TokenPoolEvent
  <2>1. m.pool \in [poolLocator : [address : Addresses, schema : {"schema"}, type : Types],
                    poolData : {Undefined}]
    <3>1. m.pool = [poolLocator |-> m.pool.poolLocator,
                    poolData |-> Unpacked(e).poolData]
      BY DEF PoolMessage
    <3> QED
      BY <1>1, <1>3, <1>4, <3>1
  <2>2. m = [event |-> "token-pool", id |-> m.id, pool |-> m.pool]
    BY DEF PoolMessage
  <2> QED
    BY <1>2, <2>1, <2>2 DEF TokenPoolEvent
<1>6. ReaderStep(v, m) = ChainStep(v, e)
  <2>1. m.event = "token-pool"
    BY DEF PoolMessage
  <2> QED
    BY <1>4, <2>1 DEF ReaderStep, ChainStep, UnpackPoolLocator, Get
<1> QED
  BY <1>2, <1>5, <1>6 DEF Tells, OnEvent, Message

\* Events of other subscriptions say nothing of a pool, and are not told.
LEMMA StrayNotTold ==
  ASSUME NEW e \in Event, e.signature # "TokenPoolCreation",
         e.subscription.of \notin Pools, e.subscription.of \notin Factories,
         NEW v \in Ledger
  PROVE  Tells(v, e)
<1>1. ~Reported(e)
  BY NoPoolRead DEF Reported
<1>2. OnEvent(e) = <<>>
  BY <1>1 DEF OnEvent
<1> QED
  BY <1>2 DEF Tells, ChainStep

\* What events of a pool have in common.
LEMMA PoolEventRead ==
  ASSUME NEW e \in Event, e.subscription.of \in Pools
  PROVE  /\ PoolOf(e) = e.subscription.of
         /\ Fungible(e) <=> IsFungible(e.subscription.of)
         /\ Unpacked(e).poolLocator # Undefined => 
               (Reported(e) <=> (e.signature = "Transfer" =>
                                    {e.from, e.to} # {ZERO_ADDRESS}))
         /\ FormatBlockchainEventId(e) \in Ids
         /\ e.from \in Addresses /\ e.to \in Addresses /\ e.value \in Values
<1>1. /\ PoolOf(e) = e.subscription.of
      /\ LocatorType(e) = e.subscription.of.poolLocator.type
  BY PoolRead
<1>2. Fungible(e) <=> IsFungible(e.subscription.of)
  BY <1>1 DEF Fungible, IsFungible
<1>3. FormatBlockchainEventId(e) \in Ids
  BY DEF FormatBlockchainEventId, Event, Ids
<1>4. e.from \in Addresses /\ e.to \in Addresses /\ e.value \in Values
  BY DEF Event
<1> QED
  BY <1>1, <1>2, <1>3, <1>4 DEF Reported

\* The locator of a pool is known, so its events are reported.
LEMMA PoolReported ==
  ASSUME NEW e \in Event, e.subscription.of \in Pools
  PROVE  Reported(e) <=> (e.signature = "Transfer" => {e.from, e.to} # {ZERO_ADDRESS})
<1>1. Unpacked(e).poolLocator = e.subscription.of.poolLocator
  BY PoolRead
<1>2. Unpacked(e).poolLocator # Undefined
  BY <1>1, ListenerAssumption
<1> QED
  BY <1>2, PoolEventRead

LEMMA AllowanceTold ==
  ASSUME NEW e \in Event, e.subscription.of \in Pools, NEW v \in Ledger,
         \/ e.signature = "ApprovalForAll"
         \/ e.signature = "Approval" /\ IsFungible(e.subscription.of)
  PROVE  Tells(v, e)
<1> DEFINE m == IF e.signature = "Approval" THEN ApprovalMessage(e)
                ELSE ApprovalForAllMessage(e)
           pool == e.subscription.of
<1>1. /\ PoolOf(e) = pool
      /\ Fungible(e) <=> IsFungible(pool)
      /\ FormatBlockchainEventId(e) \in Ids
      /\ e.from \in Addresses /\ e.to \in Addresses /\ e.value \in Values
      /\ Reported(e)
  BY PoolEventRead, PoolReported
<1>2. (e.value > 0) \in BOOLEAN
  OBVIOUS
<1>3. m = [event |-> "token-approval", id |-> FormatBlockchainEventId(e), pool |-> pool,
           operator |-> e.to, subject |-> <<e.from, e.to>>, approved |-> e.value > 0]
  <2>1. CASE e.signature = "Approval"
    BY <1>1, <2>1 DEF ApprovalMessage
  <2>2. CASE e.signature # "Approval"
    BY <1>1, <2>2 DEF ApprovalForAllMessage, Flag
  <2> QED
    BY <2>1, <2>2
<1>4. OnEvent(e) = <<m>>
  BY <1>1 DEF OnEvent
<1> HIDE DEF m
<1>5. m \in Message
  BY <1>1, <1>2, <1>3 DEF Message, TokenApprovalEvent
<1>6. ReaderStep(v, m) = Allows(v, pool, e.from, e.to, e.value > 0)
  BY <1>1, <1>3 DEF ReaderStep
<1>7. ChainStep(v, e) = Allows(v, pool, e.from, e.to, e.value > 0)
  BY <1>1 DEF ChainStep
<1>8. m.id = FormatBlockchainEventId(e)
  BY <1>3
<1> QED
  BY <1>4, <1>5, <1>6, <1>7, <1>8 DEF Tells

LEMMA TokenApprovalTold ==
  ASSUME NEW e \in Event, e.subscription.of \in Pools, NEW v \in Ledger,
         e.signature = "Approval", ~IsFungible(e.subscription.of)
  PROVE  Tells(v, e)
<1> DEFINE m == ApprovalMessage(e)
           pool == e.subscription.of
<1>1. /\ PoolOf(e) = pool /\ ~Fungible(e)
      /\ FormatBlockchainEventId(e) \in Ids
      /\ e.from \in Addresses /\ e.to \in Addresses /\ e.value \in Values
      /\ Reported(e)
  BY PoolEventRead, PoolReported
<1>2. m = [event |-> "token-approval", id |-> FormatBlockchainEventId(e), pool |-> pool,
           operator |-> e.to, subject |-> <<e.value>>, approved |-> e.to # ZERO_ADDRESS]
  BY <1>1 DEF ApprovalMessage
<1>3. OnEvent(e) = <<m>>
  BY <1>1 DEF OnEvent
<1> HIDE DEF m
<1>4. m \in Message
  BY <1>1, <1>2 DEF Message, TokenApprovalEvent
<1>5. ReaderStep(v, m) = Approves(v, pool, e.value, e.to)
  <2>1. (IF m.approved THEN m.operator ELSE ZERO_ADDRESS) = e.to
    BY <1>2
  <2>2. m.event = "token-approval" /\ Len(m.subject) = 1 /\ m.subject[1] = e.value
           /\ m.pool = pool
    BY <1>2
  <2> QED
    BY <2>1, <2>2 DEF ReaderStep
<1>6. ChainStep(v, e) = Approves(v, pool, e.value, e.to)
  BY <1>1 DEF ChainStep
<1>7. m.id = FormatBlockchainEventId(e)
  BY <1>2
<1> QED
  BY <1>3, <1>4, <1>5, <1>6, <1>7 DEF Tells

\* The transfer of a pool from nobody to nobody, which is not told, changes nothing.
LEMMA EmptyTransfer ==
  ASSUME NEW e \in Event, e.subscription.of \in Pools, NEW v \in Ledger, Fits(v, e),
         e.signature = "Transfer", e.from = ZERO_ADDRESS, e.to = ZERO_ADDRESS
  PROVE  ChainStep(v, e) = v
<1> DEFINE pool == e.subscription.of
<1>1. CASE IsFungible(pool)
  <2>1. Moved(v.balance[pool], ZERO_ADDRESS, ZERO_ADDRESS, e.value) = v.balance[pool]
    <3>1. v.balance[pool] \in [Accounts -> Int] /\ e.value \in Int
      BY ListenerAssumption DEF Ledger, Event, Values
    <3>2. ASSUME NEW a \in Accounts
          PROVE  Moved(v.balance[pool], ZERO_ADDRESS, ZERO_ADDRESS, e.value)[a]
                    = v.balance[pool][a]
      <4>1. v.balance[pool][a] \in Int
        BY <3>1
      <4>2. a # ZERO_ADDRESS
        BY ListenerAssumption
      <4> QED
        BY <4>1, <4>2 DEF Moved
    <3>3. Moved(v.balance[pool], ZERO_ADDRESS, ZERO_ADDRESS, e.value)
             = [a \in Accounts |->
                   Moved(v.balance[pool], ZERO_ADDRESS, ZERO_ADDRESS, e.value)[a]]
      BY DEF Moved
    <3> QED
      BY <3>1, <3>2, <3>3
  <2>2. ChainStep(v, e) = [v EXCEPT !.balance[pool] = v.balance[pool]]
    BY <1>1, <2>1 DEF ChainStep, Moves
  <2> QED
    BY <2>2 DEF Ledger
<1>2. CASE ~IsFungible(pool)
  <2>1. e.value \in Tokens /\ v.owner[pool][e.value] = ZERO_ADDRESS
    BY <1>2 DEF Fits
  <2>2. ChainStep(v, e) = [v EXCEPT !.owner[pool][e.value] = ZERO_ADDRESS]
    BY <1>2 DEF ChainStep, Owns
  <2> QED
    <3>1. v.owner \in [Pools -> [Tokens -> Addresses]]
      BY DEF Ledger
    <3>2. [v.owner[pool] EXCEPT ![e.value] = ZERO_ADDRESS] = v.owner[pool]
      BY <2>1, <3>1
    <3>3. [v.owner EXCEPT ![pool][e.value] = ZERO_ADDRESS] = v.owner
      BY <3>1, <3>2
    <3>4. ChainStep(v, e) = [v EXCEPT !.owner = v.owner]
      BY <2>2, <3>3
    <3> QED
      BY <3>4 DEF Ledger
<1> QED
  BY <1>1, <1>2

LEMMA TransferTold ==
  ASSUME NEW e \in Event, e.subscription.of \in Pools, NEW v \in Ledger, Fits(v, e),
         e.signature = "Transfer"
  PROVE  Tells(v, e)
<1> DEFINE m == TransferMessage(e)
           pool == e.subscription.of
<1>1. /\ PoolOf(e) = pool
      /\ Fungible(e) <=> IsFungible(pool)
      /\ FormatBlockchainEventId(e) \in Ids
      /\ e.from \in Addresses /\ e.to \in Addresses /\ e.value \in Values
      /\ Reported(e) <=> {e.from, e.to} # {ZERO_ADDRESS}
  BY PoolEventRead, PoolReported
<1>2. CASE ~Reported(e)
  <2>1. e.from = ZERO_ADDRESS /\ e.to = ZERO_ADDRESS
    BY <1>1, <1>2
  <2>2. OnEvent(e) = <<>>
    BY <1>2 DEF OnEvent
  <2> QED
    BY <2>1, <2>2, EmptyTransfer DEF Tells
<1>3. CASE Reported(e)
  <2> DEFINE kind == IF e.from = ZERO_ADDRESS THEN "token-mint"
                     ELSE IF e.to = ZERO_ADDRESS THEN "token-burn" ELSE "token-transfer"
             amount == IF Fungible(e) THEN e.value ELSE 1
             tokenIndex == IF Fungible(e) THEN NoToken ELSE e.value
  <2>1. OnEvent(e) = <<m>>
    BY <1>3 DEF OnEvent
  <2>7. m = [event |-> kind, id |-> FormatBlockchainEventId(e), pool |-> pool,
             from |-> e.from, to |-> e.to, amount |-> amount, tokenIndex |-> tokenIndex]
    BY <1>1 DEF TransferMessage
  <2>8. /\ kind \in {"token-mint", "token-transfer", "token-burn"}
        /\ kind = "token-mint" => e.from = ZERO_ADDRESS
        /\ kind = "token-burn" => e.to = ZERO_ADDRESS
    OBVIOUS
  <2>9. amount \in Values /\ tokenIndex \in Values \cup {NoToken}
    BY <1>1 DEF Values
  <2>10. IF IsFungible(pool) THEN amount = e.value /\ tokenIndex = NoToken
         ELSE tokenIndex = e.value
    BY <1>1
  <2> HIDE DEF kind, amount, tokenIndex, m
  <2>2. m.id = FormatBlockchainEventId(e)
    BY <2>7
  <2>3. m \in Message
    BY <1>1, <2>7, <2>8, <2>9 DEF Message, TokenTransferEvent
  <2>4. /\ m.event \notin {"token-pool", "token-approval"}
        /\ m.pool = pool
        /\ m.event = "token-mint" => m.from = ZERO_ADDRESS
        /\ m.event = "token-burn" => m.to = ZERO_ADDRESS
        /\ m.from = e.from /\ m.to = e.to
    BY <2>7, <2>8
  <2>5. CASE IsFungible(pool)
    <3>1. m.tokenIndex = NoToken /\ m.amount = e.value
      BY <2>5, <2>7, <2>10
    <3>2. ReaderStep(v, m) = Moves(v, pool, e.from, e.to, e.value)
      BY <2>4, <3>1 DEF ReaderStep
    <3>3. ChainStep(v, e) = Moves(v, pool, e.from, e.to, e.value)
      BY <2>5 DEF ChainStep
    <3> QED
      BY <2>1, <2>2, <2>3, <3>2, <3>3 DEF Tells
  <2>6. CASE ~IsFungible(pool)
    <3>1. e.value # NoToken
      BY <1>1, ListenerAssumption DEF Values, NoToken
    <3>2. m.tokenIndex = e.value
      BY <2>6, <2>7, <2>10
    <3>3. ReaderStep(v, m) = Owns(v, pool, e.value, e.to)
      BY <2>4, <3>1, <3>2 DEF ReaderStep
    <3>4. ChainStep(v, e) = Owns(v, pool, e.value, e.to)
      BY <2>6 DEF ChainStep
    <3> QED
      BY <2>1, <2>2, <2>3, <3>3, <3>4 DEF Tells
  <2> QED
    BY <2>5, <2>6
<1> QED
  BY <1>2, <1>3

\* Every event is told correctly: if it yields a message, a reader who has the ledger
\* before the event has the one after it when it has read the message, and otherwise
\* the ledger has not changed (onEvent and what it calls).
THEOREM EventToldCorrectly ==
  ASSUME NEW e \in Event, NEW v \in Ledger, Fits(v, e)
  PROVE  Tells(v, e)
<1>1. CASE e.signature = "TokenPoolCreation" /\ e.subscription.of \notin Pools
  BY <1>1, PoolCreationTold
<1>2. CASE /\ e.signature # "TokenPoolCreation"
           /\ e.subscription.of \notin Pools /\ e.subscription.of \notin Factories
  BY <1>2, StrayNotTold
<1>3. CASE e.signature \in PoolEvents /\ e.subscription.of \in Pools
  BY <1>3, TransferTold, AllowanceTold, TokenApprovalTold DEF PoolEvents
<1> QED
  BY <1>1, <1>2, <1>3, EventKinds
-----------------------------------------------------------------------------
(* Ledgers *)

\* A ledger and pools that were created besides.
Plus(v, S) == [v EXCEPT !.created = @ \cup S]
NewPools == SUBSET (Addresses \X Types)

\* The five changes of a ledger keep its type, and add to one with more pools what they
\* add to it.
LEMMA MovesLedger ==
  ASSUME NEW v \in Ledger, NEW S \in NewPools, NEW pool \in Pools, NEW from, NEW to,
         NEW amount \in Int
  PROVE  /\ Moves(v, pool, from, to, amount) \in Ledger
         /\ Moves(Plus(v, S), pool, from, to, amount)
               = Plus(Moves(v, pool, from, to, amount), S)
<1>1. v.balance \in [Pools -> [Accounts -> Int]]
  BY DEF Ledger
<1>2. Moved(v.balance[pool], from, to, amount) \in [Accounts -> Int]
  <2>1. v.balance[pool] \in [Accounts -> Int]
    BY <1>1
  <2> HIDE <1>1
  <2> QED
    BY <2>1 DEF Moved
<1> DEFINE b == [v.balance EXCEPT ![pool] = Moved(v.balance[pool], from, to, amount)]
<1>3. b \in [Pools -> [Accounts -> Int]]
  BY <1>1, <1>2
<1>4. Moves(v, pool, from, to, amount) = [v EXCEPT !.balance = b]
  BY DEF Moves
<1>5. Moves(Plus(v, S), pool, from, to, amount) = [Plus(v, S) EXCEPT !.balance = b]
  BY DEF Moves, Plus, Ledger
<1> HIDE DEF b
<1> QED
  BY <1>3, <1>4, <1>5 DEF Ledger, Plus

LEMMA OwnsLedger ==
  ASSUME NEW v \in Ledger, NEW S \in NewPools, NEW pool \in Pools, NEW token,
         NEW account \in Addresses
  PROVE  /\ Owns(v, pool, token, account) \in Ledger
         /\ Owns(Plus(v, S), pool, token, account)
               = Plus(Owns(v, pool, token, account), S)
<1>1. v.owner \in [Pools -> [Tokens -> Addresses]]
  BY DEF Ledger
<1> DEFINE o == [v.owner EXCEPT ![pool][token] = account]
<1>2. o \in [Pools -> [Tokens -> Addresses]]
  BY <1>1
<1>3. Owns(v, pool, token, account) = [v EXCEPT !.owner = o]
  BY DEF Owns
<1>4. Owns(Plus(v, S), pool, token, account) = [Plus(v, S) EXCEPT !.owner = o]
  BY DEF Owns, Plus, Ledger
<1> HIDE DEF o
<1> QED
  BY <1>2, <1>3, <1>4 DEF Ledger, Plus

LEMMA ApprovesLedger ==
  ASSUME NEW v \in Ledger, NEW S \in NewPools, NEW pool \in Pools, NEW token,
         NEW account \in Addresses
  PROVE  /\ Approves(v, pool, token, account) \in Ledger
         /\ Approves(Plus(v, S), pool, token, account)
               = Plus(Approves(v, pool, token, account), S)
<1>1. v.approved \in [Pools -> [Tokens -> Addresses]]
  BY DEF Ledger
<1> DEFINE o == [v.approved EXCEPT ![pool][token] = account]
<1>2. o \in [Pools -> [Tokens -> Addresses]]
  BY <1>1
<1>3. Approves(v, pool, token, account) = [v EXCEPT !.approved = o]
  BY DEF Approves
<1>4. Approves(Plus(v, S), pool, token, account) = [Plus(v, S) EXCEPT !.approved = o]
  BY DEF Approves, Plus, Ledger
<1> HIDE DEF o
<1> QED
  BY <1>2, <1>3, <1>4 DEF Ledger, Plus

LEMMA AllowsLedger ==
  ASSUME NEW v \in Ledger, NEW S \in NewPools, NEW pool \in Pools,
         NEW account \in Addresses, NEW operator \in Addresses, NEW on
  PROVE  /\ Allows(v, pool, account, operator, on) \in Ledger
         /\ Allows(Plus(v, S), pool, account, operator, on)
               = Plus(Allows(v, pool, account, operator, on), S)
<1> DEFINE who == <<pool, account, operator>>
           w == IF on THEN v.allowed \cup {who} ELSE v.allowed \ {who}
<1>1. w \in SUBSET (Pools \X Addresses \X Addresses)
  BY DEF Ledger
<1>2. Allows(v, pool, account, operator, on) = [v EXCEPT !.allowed = w]
  BY DEF Allows
<1>3. Allows(Plus(v, S), pool, account, operator, on) = [Plus(v, S) EXCEPT !.allowed = w]
  BY DEF Allows, Plus, Ledger
<1> HIDE DEF w
<1> QED
  BY <1>1, <1>2, <1>3 DEF Ledger, Plus

LEMMA CreatesLedger ==
  ASSUME NEW v \in Ledger, NEW S \in NewPools, NEW address \in Addresses,
         NEW type \in Types
  PROVE  /\ Creates(v, address, type) \in Ledger
         /\ Creates(Plus(v, S), address, type) = Plus(Creates(v, address, type), S)
         /\ Creates(v, address, type) = Plus(v, {<<address, type>>})
<1> DEFINE c == v.created \cup {<<address, type>>}
<1>1. c \in NewPools
  BY DEF Ledger, NewPools
<1>2. Creates(v, address, type) = [v EXCEPT !.created = c]
  BY DEF Creates
<1>3. Creates(Plus(v, S), address, type) = [Plus(v, S) EXCEPT !.created = c \cup S]
  <2>1. Plus(v, S).created = v.created \cup S
    BY DEF Plus, Ledger
  <2>2. Plus(v, S).created \cup {<<address, type>>} = c \cup S
    BY <2>1
  <2>3. Creates(Plus(v, S), address, type)
           = [Plus(v, S) EXCEPT !.created = Plus(v, S).created \cup {<<address, type>>}]
    BY DEF Creates
  <2> QED
    BY <2>2, <2>3
<1> HIDE DEF c
<1>4. /\ [v EXCEPT !.created = c] \in Ledger
      /\ [Plus(v, S) EXCEPT !.created = c \cup S] = Plus([v EXCEPT !.created = c], S)
  BY <1>1 DEF Ledger, Plus, NewPools
<1>5. Creates(v, address, type) = Plus(v, {<<address, type>>})
  BY DEF Creates, Plus
<1> QED
  BY <1>2, <1>3, <1>4, <1>5

\* Pools that are added twice, or that are there already.
LEMMA PlusTwice ==
  ASSUME NEW v \in Ledger, NEW S \in NewPools, NEW T \in NewPools
  PROVE  /\ Plus(v, S) \in Ledger
         /\ Plus(Plus(v, S), T) = Plus(v, S \cup T)
         /\ S \subseteq v.created => Plus(v, S) = v
<1>1. Plus(v, S) \in Ledger
  BY DEF Ledger, Plus, NewPools
<1>2. Plus(v, S).created \cup T = v.created \cup (S \cup T)
  BY DEF Ledger, Plus
<1>3. Plus(Plus(v, S), T) = [Plus(v, S) EXCEPT !.created = v.created \cup (S \cup T)]
  BY <1>2 DEF Plus
<1>4. Plus(Plus(v, S), T) = Plus(v, S \cup T)
  BY <1>3 DEF Plus, Ledger
<1>5. ASSUME S \subseteq v.created
      PROVE  Plus(v, S) = v
  <2>1. v.created \cup S = v.created
    BY <1>5
  <2> QED
    BY <2>1 DEF Plus, Ledger
<1> QED
  BY <1>1, <1>4, <1>5

\* What a reader learns from a message does not depend on new pools.
LEMMA ReaderStepPlus ==
  ASSUME NEW v \in Ledger, NEW S \in NewPools, NEW m \in Message
  PROVE  /\ ReaderStep(v, m) \in Ledger
         /\ ReaderStep(Plus(v, S), m) = Plus(ReaderStep(v, m), S)
<1>1. CASE m \in TokenPoolEvent
  <2> DEFINE l == UnpackPoolLocator(m.pool.poolLocator)
  <2>1. m.event = "token-pool" /\ l.address \in Addresses /\ l.type \in Types
    <3>1. /\ m.event = "token-pool"
          /\ m.pool.poolLocator \in [address : Addresses, schema : {"schema"}, type : Types]
      BY <1>1 DEF TokenPoolEvent
    <3> DEFINE text == m.pool.poolLocator
    <3>2. /\ DOMAIN text = {"address", "schema", "type"}
          /\ text["address"] \in Addresses /\ text["type"] \in Types
      BY <3>1
    <3> HIDE DEF text
    <3> QED
      BY <3>1, <3>2 DEF UnpackPoolLocator, Get, text
  <2>2. \A w : ReaderStep(w, m) = Creates(w, l.address, l.type)
    BY <2>1 DEF ReaderStep
  <2> DEFINE address == l.address
             type == l.type
  <2>3. address \in Addresses /\ type \in Types
    BY <2>1
  <2>4. \A w : ReaderStep(w, m) = Creates(w, address, type)
    BY <2>2
  <2> HIDE DEF l, address, type
  <2>5. /\ Creates(v, address, type) \in Ledger
        /\ Creates(Plus(v, S), address, type) = Plus(Creates(v, address, type), S)
    BY <2>3, CreatesLedger
  <2> QED
    BY <2>4, <2>5
<1>2. CASE m \in TokenApprovalEvent
  <2>1. /\ m.event = "token-approval" /\ m.pool \in Pools /\ m.operator \in Addresses
        /\ m.subject \in (Addresses \X Addresses) \cup {<<t>> : t \in Values}
    BY <1>2 DEF TokenApprovalEvent
  <2>2. CASE Len(m.subject) = 1
    <3> DEFINE account == IF m.approved THEN m.operator ELSE ZERO_ADDRESS
    <3>1. account \in Addresses
      BY <2>1 DEF Addresses
    <3>2. \A w : ReaderStep(w, m) = Approves(w, m.pool, m.subject[1], account)
      BY <2>1, <2>2 DEF ReaderStep
    <3> HIDE DEF account
    <3> QED
      BY <2>1, <3>1, <3>2, ApprovesLedger
  <2>3. CASE Len(m.subject) # 1
    <3>1. m.subject \in Addresses \X Addresses
      BY <2>1, <2>3
    <3>2. m.subject[1] \in Addresses
      BY <3>1
    <3>3. \A w : ReaderStep(w, m)
                    = Allows(w, m.pool, m.subject[1], m.operator, m.approved)
      BY <2>1, <2>3 DEF ReaderStep
    <3> QED
      BY <2>1, <3>2, <3>3, AllowsLedger
  <2> QED
    BY <2>2, <2>3
<1>3. CASE m \in TokenTransferEvent
  <2> DEFINE from == IF m.event = "token-mint" THEN ZERO_ADDRESS ELSE m.from
             to == IF m.event = "token-burn" THEN ZERO_ADDRESS ELSE m.to
  <2>1. /\ m.event \notin {"token-pool", "token-approval"}
        /\ m.pool \in Pools /\ to \in Addresses /\ m.amount \in Int
    BY <1>3, ListenerAssumption DEF TokenTransferEvent, Addresses, Values
  <2>2. \A w : ReaderStep(w, m)
                  = IF m.tokenIndex # NoToken THEN Owns(w, m.pool, m.tokenIndex, to)
                    ELSE Moves(w, m.pool, from, to, m.amount)
    BY <2>1 DEF ReaderStep
  <2> HIDE DEF from, to
  <2>3. CASE m.tokenIndex # NoToken
    BY <2>1, <2>2, <2>3, OwnsLedger
  <2>4. CASE m.tokenIndex = NoToken
    BY <2>1, <2>2, <2>4, MovesLedger
  <2> QED
    BY <2>3, <2>4
<1> QED
  BY <1>1, <1>2, <1>3 DEF Message

\* What an event says keeps the type of the ledger, and no pool is ever taken back.
LEMMA ChainStepLedger ==
  ASSUME NEW v \in Ledger, NEW e \in Event
  PROVE  /\ ChainStep(v, e) \in Ledger
         /\ v.created \subseteq ChainStep(v, e).created
         /\ e.signature = "TokenPoolCreation" =>
               /\ <<e.to, NewPoolType(e)>> \in ChainStep(v, e).created
               /\ <<e.to, NewPoolType(e)>> \in Addresses \X Types
<1> DEFINE pool == e.subscription.of
<1>1. e.from \in Addresses /\ e.to \in Addresses /\ e.value \in Int
  BY ListenerAssumption DEF Event, Values
<1>2. NewPoolType(e) \in Types
  BY DEF NewPoolType, Types
<1>3. {} \in NewPools
  BY DEF NewPools
<1>4. CASE e.signature = "TokenPoolCreation"
  <2>1. ChainStep(v, e) = Creates(v, e.to, NewPoolType(e))
    BY <1>4 DEF ChainStep
  <2>2. ChainStep(v, e) \in Ledger
    <3>1. \A address \in Addresses, type \in Types : Creates(v, address, type) \in Ledger
      BY <1>3, CreatesLedger
    <3> QED
      BY <1>1, <1>2, <2>1, <3>1
  <2>3. ChainStep(v, e).created = v.created \cup {<<e.to, NewPoolType(e)>>}
    BY <2>1 DEF Creates, Ledger
  <2> QED
    BY <1>1, <1>2, <2>2, <2>3
<1>5. CASE e.signature # "TokenPoolCreation" /\ (pool \notin Pools \/ e.signature = "other")
  BY <1>5 DEF ChainStep
<1>6. CASE e.signature # "TokenPoolCreation" /\ pool \in Pools /\ e.signature # "other"
  <2>1. \/ ChainStep(v, e) = Allows(v, pool, e.from, e.to, e.value > 0)
        \/ ChainStep(v, e) = Approves(v, pool, e.value, e.to)
        \/ ChainStep(v, e) = Moves(v, pool, e.from, e.to, e.value)
        \/ ChainStep(v, e) = Owns(v, pool, e.value, e.to)
    BY <1>6 DEF ChainStep
  <2>2. ChainStep(v, e) \in Ledger
    BY <1>1, <1>3, <1>6, <2>1, AllowsLedger, ApprovesLedger, MovesLedger, OwnsLedger
  <2>3. ChainStep(v, e).created = v.created
    <3>1. \A x \in Ledger : DOMAIN x = {"balance", "owner", "approved", "allowed", "created"}
      BY DEF Ledger
    <3>2. /\ Allows(v, pool, e.from, e.to, e.value > 0).created = v.created
          /\ Approves(v, pool, e.value, e.to).created = v.created
          /\ Moves(v, pool, e.from, e.to, e.value).created = v.created
          /\ Owns(v, pool, e.value, e.to).created = v.created
      BY <3>1 DEF Allows, Approves, Moves, Owns
    <3> QED
      BY <2>1, <3>2
  <2> QED
    BY <1>6, <2>2, <2>3
<1> QED
  BY <1>4, <1>5, <1>6
=============================================================================
