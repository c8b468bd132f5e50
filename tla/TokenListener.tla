---------------------------- MODULE TokenListener ----------------------------
(***************************************************************************)
(* What TokenListener makes of a blockchain event (tokens.listener.ts): at *)
(* most one message, and the calls it awaits on the way.  The contents of  *)
(* events are their place on the chain, their addresses and one value,     *)
(* which is an amount, a token index or a flag; what is only copied        *)
(* (timestamps, data, signer) is left out.  What the connector knows of an *)
(* event's pool is the name of its subscription.                           *)
(*                                                                         *)
(* The second part says what the events and the messages mean: the ledger  *)
(* of the contracts, as ERC-20 and ERC-721 define it, and the ledger that  *)
(* the reader of the messages keeps.                                       *)
(***************************************************************************)
EXTENDS TokenNames

CONSTANTS
    Accounts,
    ZERO_ADDRESS,
    Tokens,      \* token indices, which are numbers
    Pools,       \* the pools that were activated: their locators and data
    Factories,   \* the token factories that pools were created by
    Strays       \* subscriptions of the stream that are not the connector's

Addresses == Accounts \cup {ZERO_ADDRESS}
Values == Tokens \cup {0, 1}
Signatures == {"TokenPoolCreation", "Transfer", "Approval", "ApprovalForAll", "other"}
PoolEvents == {"Transfer", "Approval", "ApprovalForAll"}

\* A pool is activated with a locator that unpackPoolLocator and validatePoolLocator
\* accept, and a type that it has.
ASSUME ListenerAssumption ==
    /\ ZERO_ADDRESS \notin Accounts
    /\ Tokens \subseteq Nat
    /\ Undefined \notin Types
    /\ Factories \cap Pools = {} /\ Strays \cap (Pools \cup Factories) = {}
    /\ \A p \in Pools : /\ p = [poolLocator |-> p.poolLocator, poolData |-> p.poolData]
                        /\ p.poolLocator # Undefined
                        /\ ValidatePoolLocator(UnpackPoolLocator(p.poolLocator))
                        /\ UnpackPoolLocator(p.poolLocator).type \in Types

\* The subscriptions of activatePool and getOrCreateFactorySubscription, and others.
Subscription == [of : Pools, event : PoolEvents]
                    \cup [of : Factories, event : {"TokenPoolCreation"}]
                    \cup [of : Strays, event : Signatures]

Name(s) ==
    IF s.of \in Pools
    THEN PackSubscriptionName(s.of.poolLocator, s.event, s.of.poolData)
    ELSE IF s.of \in Factories THEN PackSubscriptionName(s.of, s.event, Undefined)
    ELSE <<s.of>>

\* Events, of the signature that their subscription is to.
Event ==
    {e \in [signature : Signatures, subscription : Subscription,
            blockNumber : Nat, transactionIndex : Nat, logIndex : Nat,
            from : Addresses, to : Addresses, value : Values] :
        e.signature = e.subscription.event}

NoToken == -1
Flag(e) == e.value > 0
Unpacked(e) == UnpackSubscriptionName(Name(e.subscription))
LocatorType(e) == UnpackPoolLocator(Unpacked(e).poolLocator).type
Fungible(e) == LocatorType(e) = "fungible"
-----------------------------------------------------------------------------
(* The messages.  A handler that returns undefined yields the empty sequence. *)

Ids == Nat \X Nat \X Nat
TokenPoolEvent ==
    [event : {"token-pool"}, id : Ids,
     pool : [poolLocator : [address : Addresses, schema : {"schema"}, type : Types],
             poolData : {Undefined}]]
TokenTransferEvent ==
    [event : {"token-mint", "token-transfer", "token-burn"}, id : Ids, pool : Pools,
     from : Addresses, to : Addresses, amount : Values, tokenIndex : Values \cup {NoToken}]
TokenApprovalEvent ==
    [event : {"token-approval"}, id : Ids, pool : Pools, operator : Addresses,
     subject : (Addresses \X Addresses) \cup {<<t>> : t \in Values}, approved : BOOLEAN]
Message == TokenPoolEvent \cup TokenTransferEvent \cup TokenApprovalEvent

\* Ids that leave out the place of an event in its transaction (a mutation of
\* FormatBlockchainEventId).
TransactionId(e) == <<e.blockNumber, e.transactionIndex>>

\* Padding with zeros keeps numbers apart, and in their order.
FormatBlockchainEventId(e) == <<e.blockNumber, e.transactionIndex, e.logIndex>>

\* The pool a message is about.
PoolOf(e) ==
    [poolLocator |-> Unpacked(e).poolLocator, poolData |-> Unpacked(e).poolData]

\* An approval whose `approved' keeps its initial value (a mutation of
\* ApprovalMessage).
AlwaysApprovedMessage(e) ==
    [event |-> "token-approval", id |-> FormatBlockchainEventId(e), pool |-> PoolOf(e),
     operator |-> e.to,
     subject |-> IF Fungible(e) THEN <<e.from, e.to>> ELSE <<e.value>>,
     approved |-> TRUE]

\* The creation of a pool is the event of a factory: from and to are its address.  The
\* schema is asked of the contract (TokenRequests).
NewPoolType(e) == IF Flag(e) THEN "fungible" ELSE "nonfungible"
PoolMessage(e) ==
    [event |-> "token-pool", id |-> FormatBlockchainEventId(e),
     pool |-> [poolLocator |-> PackPoolLocator([address |-> e.to, schema |-> "schema",
                                                type |-> NewPoolType(e)]),
               poolData |-> Unpacked(e).poolData]]

TransferMessage(e) ==
    [event |-> IF e.from = ZERO_ADDRESS THEN "token-mint"
               ELSE IF e.to = ZERO_ADDRESS THEN "token-burn" ELSE "token-transfer",
     id |-> FormatBlockchainEventId(e), pool |-> PoolOf(e), from |-> e.from, to |-> e.to,
     amount |-> IF Fungible(e) THEN e.value ELSE 1,
     tokenIndex |-> IF Fungible(e) THEN NoToken ELSE e.value]

\* An ERC-20 approval is of an owner and an operator, an ERC-721 one of a token.
ApprovalMessage(e) ==
    [event |-> "token-approval", id |-> FormatBlockchainEventId(e), pool |-> PoolOf(e),
     operator |-> e.to,
     subject |-> IF Fungible(e) THEN <<e.from, e.to>> ELSE <<e.value>>,
     approved |-> IF Fungible(e) THEN e.value > 0 ELSE e.to # ZERO_ADDRESS]

ApprovalForAllMessage(e) ==
    [event |-> "token-approval", id |-> FormatBlockchainEventId(e), pool |-> PoolOf(e),
     operator |-> e.to, subject |-> <<e.from, e.to>>, approved |-> Flag(e)]

Reported(e) ==
    /\ Unpacked(e).poolLocator # Undefined
    /\ e.signature = "Transfer" => {e.from, e.to} # {ZERO_ADDRESS}

\* onEvent
OnEvent(e) ==
    IF e.signature = "TokenPoolCreation" THEN <<PoolMessage(e)>>
    ELSE IF ~Reported(e) THEN <<>>
    ELSE IF e.signature = "Transfer" THEN <<TransferMessage(e)>>
    ELSE IF e.signature = "Approval" THEN <<ApprovalMessage(e)>>
    ELSE IF e.signature = "ApprovalForAll" THEN <<ApprovalForAllMessage(e)>>
    ELSE <<>>

\* The first call onEvent awaits, or "settled" if it awaits none: the token URI of a
\* non-fungible transfer; the decimals of a new fungible pool, and then its schema.
FirstCall(e) ==
    IF e.signature = "TokenPoolCreation"
    THEN IF Flag(e) THEN "decimals" ELSE "schema"
    ELSE IF /\ e.signature = "Transfer"
            /\ Reported(e)
            /\ LocatorType(e) = "nonfungible"
            /\ ValidatePoolLocator(UnpackPoolLocator(Unpacked(e).poolLocator))
    THEN "uri"
    ELSE "settled"
-----------------------------------------------------------------------------
(* Ledgers: per pool the balances of its accounts, if it is fungible, or the
   owners and the approved operators of its tokens; the operators each account
   allows per pool; and the contracts of pools that were created. *)

Ledger == [balance : [Pools -> [Accounts -> Int]],
           owner : [Pools -> [Tokens -> Addresses]],
           approved : [Pools -> [Tokens -> Addresses]],
           allowed : SUBSET (Pools \X Addresses \X Addresses),
           created : SUBSET (Addresses \X Types)]

EmptyLedger ==
    [balance |-> [p \in Pools |-> [a \in Accounts |-> 0]],
     owner |-> [p \in Pools |-> [t \in Tokens |-> ZERO_ADDRESS]],
     approved |-> [p \in Pools |-> [t \in Tokens |-> ZERO_ADDRESS]],
     allowed |-> {}, created |-> {}]

Moved(balance, from, to, amount) ==
    [a \in Accounts |-> balance[a] + (IF a = to THEN amount ELSE 0)
                                   - (IF a = from THEN amount ELSE 0)]
Moves(ledger, pool, from, to, amount) ==
    [ledger EXCEPT !.balance[pool] = Moved(@, from, to, amount)]
Owns(ledger, pool, token, account) == [ledger EXCEPT !.owner[pool][token] = account]
Approves(ledger, pool, token, account) ==
    [ledger EXCEPT !.approved[pool][token] = account]
Allows(ledger, pool, account, operator, on) ==
    LET who == <<pool, account, operator>>
    IN  [ledger EXCEPT !.allowed = IF on THEN @ \cup {who} ELSE @ \ {who}]
Creates(ledger, address, type) ==
    [ledger EXCEPT !.created = @ \cup {<<address, type>>}]

IsFungible(pool) == pool.poolLocator.type = "fungible"

\* What an event says of the contract that emitted it.
ChainStep(ledger, e) ==
    LET pool == e.subscription.of
    IN  IF e.signature = "TokenPoolCreation"
        THEN Creates(ledger, e.to, NewPoolType(e))
        ELSE IF pool \notin Pools \/ e.signature = "other" THEN ledger
        ELSE IF e.signature = "ApprovalForAll" \/ (e.signature = "Approval" /\ IsFungible(pool))
        THEN Allows(ledger, pool, e.from, e.to, e.value > 0)
        ELSE IF e.signature = "Approval" THEN Approves(ledger, pool, e.value, e.to)
        ELSE IF IsFungible(pool) THEN Moves(ledger, pool, e.from, e.to, e.value)
        ELSE Owns(ledger, pool, e.value, e.to)

\* What a message tells its reader.
ReaderStep(view, m) ==
    IF m.event = "token-pool"
    THEN LET locator == UnpackPoolLocator(m.pool.poolLocator)
         IN  Creates(view, locator.address, locator.type)
    ELSE IF m.event = "token-approval" /\ Len(m.subject) = 1
    THEN Approves(view, m.pool, m.subject[1],
                  IF m.approved THEN m.operator ELSE ZERO_ADDRESS)
    ELSE IF m.event = "token-approval"
    THEN Allows(view, m.pool, m.subject[1], m.operator, m.approved)
    ELSE LET from == IF m.event = "token-mint" THEN ZERO_ADDRESS ELSE m.from
             to == IF m.event = "token-burn" THEN ZERO_ADDRESS ELSE m.to
         IN  IF m.tokenIndex # NoToken THEN Owns(view, m.pool, m.tokenIndex, to)
             ELSE Moves(view, m.pool, from, to, m.amount)
=============================================================================
