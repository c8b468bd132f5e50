----------------------------- MODULE TokenRequests -----------------------------
(***************************************************************************)
(* Requests about one token contract, or one token factory: a pool is      *)
(* created from an existing contract or by the factory, and tokens are     *)
(* minted, transferred, burned and approved (tokens.service.ts, the        *)
(* interface queries and their cache in abimapper.service.ts, and the      *)
(* calls with their retries in blockchain.service.ts).  The subscription   *)
(* that a factory needs is in PoolListeners.                               *)
(*                                                                         *)
(* A step is one answer from EVMConnect to one request, and all that runs  *)
(* on it up to the next call that the request awaits.                      *)
(*                                                                         *)
(* Queries change nothing, so the answer of a query stands for that of its *)
(* last retry.  RETRY_MAX_ATTEMPTS is never equal to the number -1: it is  *)
(* read from the environment, as text.                                     *)
(***************************************************************************)
EXTENDS TokenMethods, Integers

CONSTANTS
    Requests,       \* the requests that may arrive
    Contracts,      \* the contracts they may be about
    Dtos(_),        \* what each of them may ask
    RetriesMax

Interfaces == {"ERC20WithDataIID", "ERC721WithDataV2IID", "ERC721WithDataV1bIID",
               "ERC721WithDataV1aIID", "TokenFactoryIID"}
OfType(iid) ==
    CASE iid = "ERC20WithDataIID" -> "fungible"
      [] iid = "TokenFactoryIID" -> "factory"
      [] OTHER -> "nonfungible"
Schemas == {"ERC20WithData", "ERC20NoData", "ERC721WithDataV2", "ERC721WithData",
            "ERC721NoData"}
Invocations == {"mint", "transfer", "burn", "approval"}

\* A contract is of a type, has an ABI and supports at most one interface, of its type,
\* as each of the samples does.  A request fits a type, and may bring an id; one about a
\* pool may bring the interface of its contract.
ASSUME RequestsAssumption ==
    /\ RetriesMax \in Nat
    /\ \A c \in Contracts : /\ c.type \in {"fungible", "nonfungible", "factory"}
                            /\ c.supports \subseteq Interfaces
                            /\ \A i, j \in c.supports : i = j /\ OfType(i) = c.type
    /\ \A r \in Requests : \A d \in Dtos(r) :
          /\ d.operation \in Invocations \cup {"pool", "create"}
          /\ (d.operation = "create") <=> (d.type = "factory")
          /\ d.hasInterface => d.operation \in Invocations
          /\ d.hasInterface \in BOOLEAN /\ d.hasId \in BOOLEAN

VARIABLES
    contract,
    legacy,         \* USE_LEGACY_ERC20_SAMPLE, USE_LEGACY_ERC721_SAMPLE
    supportCache,   \* what the cache says of each interface, if anything
    schemas,        \* the schemas in the pool locators given out so far
    requests,
    taken,          \* how many transactions EVMConnect took for each request
    failures        \* history: the interfaces whose query failed

vars == <<contract, legacy, supportCache, schemas, requests, taken, failures>>

Working == {"asking", "reading", "sending", "submitted", "duplicate"}
Answered == {"created", "accepted", "conflict", "refused", "failed"}

Fungible == contract.type = "fungible"
NoRequest == [phase |-> "new", dto |-> <<>>, schema |-> "", asked |-> 0,
              call |-> NoMethod, retries |-> 0]

TypeOK ==
    /\ contract \in Contracts
    /\ legacy \in BOOLEAN
    /\ supportCache \in [Interfaces -> {"unknown", "true", "false"}]
    /\ schemas \subseteq Schemas
    /\ DOMAIN requests = Requests
    /\ \A r \in Requests :
          /\ requests[r].phase \in {"new", "lost"} \cup Working \cup Answered
          /\ requests[r].asked \in 0..3
          /\ requests[r].retries \in 0..RetriesMax
    /\ taken \in [Requests -> 0..RetriesMax + 1]
    /\ failures \subseteq Interfaces
-----------------------------------------------------------------------------
(* Schemas and ABIs *)

\* getTokenSchema, for the interface that was found.
SchemaFor(found) ==
    CASE found = "ERC721WithDataV2IID" -> "ERC721WithDataV2"
      [] found \in {"ERC721WithDataV1bIID", "ERC721WithDataV1aIID"} -> "ERC721WithData"
      [] found = "ERC20WithDataIID" -> "ERC20WithData"
      [] OTHER -> IF Fungible THEN "ERC20NoData" ELSE "ERC721NoData"

\* getAbi, and a version that takes every ERC721WithData contract for the later of its
\* two interfaces (a mutation of AbiFor).
AbiUnchecked(schema, found) ==
    CASE schema = "ERC721WithDataV2" -> ERC721WithDataV2ABI
      [] schema = "ERC721WithData" -> ERC721WithDataV1bABI
      [] schema = "ERC721NoData" -> ERC721NoDataABI
      [] schema = "ERC20WithData" -> ERC20WithDataABI
      [] OTHER -> ERC20NoDataABI
AbiFor(schema, found) ==
    CASE schema = "ERC721WithDataV2" -> ERC721WithDataV2ABI
      [] schema = "ERC721WithData" ->
            IF found = "ERC721WithDataV1bIID" THEN ERC721WithDataV1bABI
            ELSE ERC721WithDataV1aABI
      [] schema = "ERC721NoData" ->
            IF legacy THEN ERC721NoDataLegacyABI ELSE ERC721NoDataABI
      [] schema = "ERC20WithData" -> ERC20WithDataABI
      [] OTHER -> IF legacy THEN ERC20NoDataLegacyABI ELSE ERC20NoDataABI

\* The interfaces a request asks for, until one is supported.
TokenInterfaces ==
    IF Fungible THEN <<"ERC20WithDataIID">>
    ELSE <<"ERC721WithDataV2IID", "ERC721WithDataV1bIID", "ERC721WithDataV1aIID">>
Asks(req) ==
    CASE req.dto.operation = "pool" -> TokenInterfaces
      [] req.dto.operation = "create" -> <<"TokenFactoryIID">>
      [] OTHER -> IF req.schema = "ERC721WithData" /\ ~req.dto.hasInterface
                  THEN <<"ERC721WithDataV1bIID">> ELSE <<>>

CreateCall(found) ==
    [method |-> CHOOSE m \in TokenFactoryABI : m.name = "create",
     params |-> <<"name", "symbol", "fungible", "data">>
                    \o IF found = "TokenFactoryIID" THEN <<"uri">> ELSE <<>>]

InvokeCall(req, found) ==
    LET abi == IF req.dto.hasInterface
               THEN GetAllMethods(contract.abi, Fungible, req.dto)
               ELSE AbiFor(req.schema, found)
    IN  GetMethodAndParams(abi, Fungible, req.dto)

\* The request knows the interface, or that there is none.
Resolved(req, found) ==
    LET op == req.dto.operation
        call == IF op = "create" THEN CreateCall(found) ELSE InvokeCall(req, found)
    IN  IF op = "pool"
        THEN [req EXCEPT !.phase = "reading", !.asked = 0, !.schema = SchemaFor(found)]
        ELSE [req EXCEPT !.phase = IF call = BadRequest THEN "refused" ELSE "sending",
                         !.asked = 0, !.call = call]

\* The request goes on asking from its i-th interface, as far as the cache answers.
Open(req, i, cache) ==
    {k \in i..Len(Asks(req)) : cache[Asks(req)[k]] # "false"}
Resume(req, i, cache) ==
    LET open == Open(req, i, cache)
        iid == Asks(req)[Min(open)]
    IN  IF open = {} THEN Resolved(req, "none")
        ELSE IF cache[iid] = "true" THEN Resolved(req, iid)
        ELSE [req EXCEPT !.phase = "asking", !.asked = Min(open)]
-----------------------------------------------------------------------------
(* The true schema of a contract, and contracts that have the methods of its ABI. *)

TrueInterface ==
    IF contract.supports = {} THEN "none" ELSE CHOOSE i \in contract.supports : TRUE
Promised ==
    [ERC20WithDataIID |-> ERC20WithDataABI, ERC721WithDataV2IID |-> ERC721WithDataV2ABI,
     ERC721WithDataV1bIID |-> ERC721WithDataV1bABI,
     ERC721WithDataV1aIID |-> ERC721WithDataV1aABI, TokenFactoryIID |-> TokenFactoryABI]
Fallback ==
    IF Fungible THEN IF legacy THEN ERC20NoDataLegacyABI ELSE ERC20NoDataABI
    ELSE IF legacy THEN ERC721NoDataLegacyABI ELSE ERC721NoDataABI
Conforms ==
    IF TrueInterface # "none" THEN Promised[TrueInterface] \subseteq contract.abi
    ELSE contract.type # "factory" /\ Fallback \subseteq contract.abi

\* Pools may have been created before the connector started.  The legacy ABIs only
\* matter to contracts without interfaces.
Init ==
    /\ contract \in Contracts
    /\ legacy \in IF contract.supports = {} THEN BOOLEAN ELSE {FALSE}
    /\ supportCache = [i \in Interfaces |-> "unknown"]
    /\ schemas \in IF contract.type = "factory" THEN {{}}
                   ELSE {{}, {SchemaFor(TrueInterface)}}
    /\ requests = [r \in Requests |-> NoRequest]
    /\ taken = [r \in Requests |-> 0]
    /\ failures = {}

\* A request arrives.  Mint, transfer, burn and approval are about a pool.
Begin(r) ==
    /\ requests[r].phase = "new"
    /\ \E d \in Dtos(r), s \in schemas \cup {""} :
          /\ d.type = contract.type
          /\ (s = "") <=> d.operation \notin Invocations
          /\ requests' = [requests EXCEPT
                ![r] = Resume([NoRequest EXCEPT !.dto = d, !.schema = s], 1, supportCache)]
    /\ UNCHANGED <<contract, legacy, supportCache, schemas, taken, failures>>
-----------------------------------------------------------------------------
(* supportsInterface *)

\* A cache whose key is the address alone (a mutation of Cache).
CacheForAddress(iid, support) ==
    [i \in Interfaces |-> IF support THEN "true" ELSE "false"]
Cache(iid, support) ==
    [supportCache EXCEPT ![iid] = IF support THEN "true" ELSE "false"]

InterfaceKnown(r, support) ==
    LET req == requests[r]
        iid == Asks(req)[req.asked]
    IN  /\ supportCache' = Cache(iid, support)
        /\ requests' = [requests EXCEPT
              ![r] = IF support THEN Resolved(req, iid)
                     ELSE Resume(req, req.asked + 1, supportCache')]
        /\ UNCHANGED <<contract, legacy, schemas, taken>>

QueryAnswered(r) ==
    /\ requests[r].phase = "asking"
    /\ InterfaceKnown(r, Asks(requests[r])[requests[r].asked] \in contract.supports)
    /\ UNCHANGED failures

QueryFailed(r) ==
    /\ requests[r].phase = "asking"
    /\ InterfaceKnown(r, FALSE)
    /\ failures' = failures \cup {Asks(requests[r])[requests[r].asked]}
-----------------------------------------------------------------------------
(* queryPool *)

\* The name, the symbol and the decimals are read, and the symbol is the expected one.
PoolRead(r) ==
    /\ requests[r].phase = "reading"
    /\ requests' = [requests EXCEPT ![r].phase = "created"]
    /\ schemas' = schemas \cup {requests[r].schema}
    /\ UNCHANGED <<contract, legacy, supportCache, taken, failures>>

PoolUnread(r) ==
    /\ requests[r].phase = "reading"
    /\ \E answer \in {"refused", "failed"} :
          requests' = [requests EXCEPT ![r].phase = answer]
    /\ UNCHANGED <<contract, legacy, supportCache, schemas, taken, failures>>
-----------------------------------------------------------------------------
(* sendTransaction *)

\* Transactions that are sent without the id of their request (a mutation of HasId).
NoId(r) == FALSE
HasId(r) == requests[r].dto.hasId

\* EVMConnect takes the transaction, unless it knows its id.
Taken(r) ==
    LET known == HasId(r) /\ taken[r] > 0
    IN  /\ requests[r].phase = "sending"
        /\ requests' = [requests EXCEPT
              ![r].phase = IF known THEN "duplicate" ELSE "submitted"]
        /\ taken' = IF known THEN taken ELSE [taken EXCEPT ![r] = @ + 1]
        /\ UNCHANGED <<contract, legacy, supportCache, schemas, failures>>

Answer(r, answer) ==
    /\ requests' = [requests EXCEPT ![r].phase = answer]
    /\ UNCHANGED <<contract, legacy, supportCache, schemas, taken, failures>>

Accepted(r) == requests[r].phase = "submitted" /\ Answer(r, "accepted")
Conflict(r) == requests[r].phase = "duplicate" /\ Answer(r, "conflict")
Rejected(r) == requests[r].phase = "sending" /\ Answer(r, "failed")

\* One retry too many (a mutation of MayTry).
MayTryAgain(retries) == retries <= RetriesMax + 1
MayTry(retries) == retries <= RetriesMax

\* Retries that are not counted (a mutation of Retry).
RetryUncounted(req) == [req EXCEPT !.phase = "sending"]
Retry(req) ==
    IF MayTry(req.retries + 1)
    THEN [req EXCEPT !.phase = "sending", !.retries = @ + 1]
    ELSE [req EXCEPT !.phase = "failed"]

\* The connection fails before or after the transaction was taken.
ConnectionFails(r) ==
    /\ requests[r].phase \in {"sending", "submitted", "duplicate"}
    /\ requests' = [requests EXCEPT ![r] = Retry(@)]
    /\ UNCHANGED <<contract, legacy, supportCache, schemas, taken, failures>>
-----------------------------------------------------------------------------
\* The cache holds 500 interfaces, of all contracts.  (Bound: while it matters to a
\* request.)
Evict ==
    /\ \E r \in Requests : requests[r].phase \in {"new", "asking"}
    /\ \E i \in Interfaces : /\ supportCache[i] # "unknown"
                             /\ supportCache' = [supportCache EXCEPT ![i] = "unknown"]
    /\ UNCHANGED <<contract, legacy, schemas, requests, taken, failures>>

\* The requests at work are forgotten.
Restart ==
    /\ \E r \in Requests : requests[r].phase \in Working
    /\ supportCache' = [i \in Interfaces |-> "unknown"]
    /\ requests' = [r \in Requests |->
                       IF requests[r].phase \in Working
                       THEN [NoRequest EXCEPT !.phase = "lost"] ELSE requests[r]]
    /\ UNCHANGED <<contract, legacy, schemas, taken, failures>>

Step(r) ==
    \/ QueryAnswered(r) \/ QueryFailed(r)
    \/ PoolRead(r) \/ PoolUnread(r)
    \/ Taken(r) \/ Accepted(r) \/ Conflict(r) \/ Rejected(r) \/ ConnectionFails(r)

Next ==
    \/ \E r \in Requests : Begin(r) \/ Step(r)
    \/ Evict
    \/ Restart

Spec == Init /\ [][Next]_vars

\* EVMConnect answers every call, or its connection fails.
LiveSpec == Spec /\ \A r \in Requests : WF_vars(Step(r))
-----------------------------------------------------------------------------
(* Properties *)

\* Only a failed query makes the connector believe what is not so, of an interface or
\* of the schema of a pool (supportsInterface, getTokenSchema).
OnlyFailuresMislead ==
    /\ \A i \in Interfaces :
          \/ supportCache[i] = "unknown"
          \/ (supportCache[i] = "true") <=> i \in contract.supports
          \/ i \in failures
    /\ schemas \subseteq {SchemaFor(TrueInterface)} \/ failures # {}

Sent(r) == requests[r].call \notin {NoMethod, BadRequest} /\ taken[r] > 0

\* A transaction calls a method that the contract has, with all its arguments, unless
\* the contract does not conform to the README or a query had failed
\* (getMethodAndParams, getCreateMethodAndParams).  Only an interface that lacks the
\* operation leaves it without a method.
MethodOnContract ==
    \A r \in Requests : taken[r] > 0 /\ requests[r].phase # "lost" =>
        LET call == requests[r].call
        IN  IF requests[r].dto.hasInterface
            THEN call = NoMethod \/ call.method \in contract.abi
            ELSE Conforms /\ failures = {} =>
                    /\ call.method \in contract.abi
                    /\ Len(call.params) = Len(call.method.inputs)

\* What a transaction does to the contract is what the request asked for, for any of
\* the contract's methods (the map() of each signature of erc20.ts and erc721.ts).
DoesWhatWasAsked ==
    \A r \in Requests :
        Sent(r) /\ requests[r].dto.operation \in Invocations =>
            Meaning(requests[r].call, requests[r].dto.signer, Fungible)
                = Asked(requests[r].dto, Fungible)

\* A caller that hands back what checkInterface answered for the operation gets the
\* call that the whole interface of the contract would have given (checkInterface,
\* getAllMethods).
InterfaceSuffices ==
    \A r \in Requests :
        /\ requests[r].phase \in Answered \cup {"sending"}
        /\ requests[r].dto.operation \in Invocations
        /\ requests[r].dto.hasInterface
        => requests[r].call = GetMethodAndParams(contract.abi, Fungible, requests[r].dto)

\* The answers: a transaction that was accepted was taken; a refused request left
\* none; a conflict means that an earlier attempt was taken; with an id, no retry is
\* taken twice (sendTransaction, retryableCall, wrapError).
AnswersTruthful ==
    \A r \in Requests : requests[r].phase # "lost" =>
        /\ requests[r].phase = "accepted" => taken[r] > 0
        /\ requests[r].phase = "refused" => taken[r] = 0
        /\ requests[r].phase = "conflict" => taken[r] = 1
        /\ taken[r] > 1 => ~requests[r].dto.hasId
        /\ taken[r] <= requests[r].retries + 1

\* How many steps a request at work is from its answer, at most: the queries that it may
\* still ask, and for each attempt to send its transaction, that it is taken and that its
\* connection fails.
StepsLeft(req) ==
    CASE req.phase = "asking" -> (4 - req.asked) + 2 * (RetriesMax + 1)
      [] req.phase = "reading" -> 1
      [] req.phase = "sending" -> 2 * (RetriesMax + 1 - req.retries)
      [] OTHER -> 2 * (RetriesMax + 1 - req.retries) - 1

\* Whatever fails, and whatever other requests, evictions and restarts come between, each
\* step of a request brings it closer to its answer (getTokenSchema, retryableCall).
AnswerNears ==
    [][\A r \in Requests :
          requests[r].phase \in Working /\ requests'[r] # requests[r] =>
              \/ requests'[r].phase \notin Working
              \/ /\ 0 < StepsLeft(requests'[r])
                 /\ StepsLeft(requests'[r]) < StepsLeft(requests[r])]_vars

\* Every request is answered, unless the process exits (retryableCall).
AllAnswered ==
    \A r \in Requests : requests[r].phase \in Working ~> requests[r].phase \notin Working
=============================================================================
