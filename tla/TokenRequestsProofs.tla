------------------------- MODULE TokenRequestsProofs -------------------------
(***************************************************************************)
(* What the answers of the connector tell of a transaction, what it        *)
(* believes of a contract, and what its transactions do, for any requests, *)
(* contracts and number of retries.                                        *)
(***************************************************************************)
EXTENDS TokenRequests, TokenMethodsProofs, TLAPS

Phases == {"new", "lost"} \cup Working \cup Answered

\* A request has all its fields.
Shaped(q) ==
    q = [phase |-> q.phase, dto |-> q.dto, schema |-> q.schema, asked |-> q.asked,
         call |-> q.call, retries |-> q.retries]

\* What a request has done, by the phase it is in: its transaction is sent only from
\* "sending", once for each count of its retries, and again only if it has no id.
RequestInv(q, n) ==
    /\ Shaped(q)
    /\ q.phase \in Phases
    /\ q.asked \in 0..3
    /\ q.retries \in 0..RetriesMax
    /\ n \in 0..RetriesMax + 1
    /\ q.phase \in {"new", "asking", "reading", "refused", "created"} => n = 0
    /\ q.phase # "lost" =>
          /\ n <= q.retries + 1
          /\ n > 1 => ~q.dto.hasId
    /\ q.phase = "sending" => n <= q.retries
    /\ q.phase \in {"submitted", "accepted", "duplicate", "conflict"} => n > 0
    /\ q.phase \in {"duplicate", "conflict"} => q.dto.hasId
    /\ q.phase = "asking" => q.asked \in DOMAIN Asks(q)
    /\ q.phase = "reading" => q.schema \in Schemas

AnswerInv ==
    /\ contract \in Contracts
    /\ legacy \in BOOLEAN
    /\ supportCache \in [Interfaces -> {"unknown", "true", "false"}]
    /\ schemas \subseteq Schemas
    /\ DOMAIN requests = Requests
    /\ taken \in [Requests -> 0..RetriesMax + 1]
    /\ failures \subseteq Interfaces
    /\ \A r \in Requests : RequestInv(requests[r], taken[r])

\* What a request that creates a pool was told so far is true.
Believes(q) ==
    /\ q.phase = "asking" /\ q.dto.operation = "pool" =>
          \A k \in 1..q.asked - 1 : Asks(q)[k] \notin contract.supports
    /\ q.phase = "reading" => q.schema = SchemaFor(TrueInterface)

\* A request that is being worked on again, from phase to phase.
Advances(q, p) ==
    /\ Shaped(p)
    /\ p.phase \in {"asking", "reading", "refused", "sending"}
    /\ p.asked \in 0..3
    /\ p.dto = q.dto /\ p.retries = q.retries

\* The call of a request, given the interface it found.
CallOf(q, found) ==
    IF q.dto.operation = "create" THEN CreateCall(found) ELSE InvokeCall(q, found)

\* Changing the phase of a request changes none of its other fields.
LEMMA ExceptPhase ==
  ASSUME NEW q, Shaped(q), NEW x
  PROVE  LET p == [q EXCEPT !.phase = x]
         IN  /\ Shaped(p) /\ p.phase = x /\ p.dto = q.dto /\ p.schema = q.schema
             /\ p.asked = q.asked /\ p.call = q.call /\ p.retries = q.retries
  BY DEF Shaped

\* The same, when what it asks for changes.
LEMMA ExceptDto ==
  ASSUME NEW q, Shaped(q), NEW x
  PROVE  LET p == [q EXCEPT !.dto = x]
         IN  /\ Shaped(p) /\ p.dto = x /\ p.phase = q.phase /\ p.schema = q.schema
             /\ p.asked = q.asked /\ p.call = q.call /\ p.retries = q.retries
  BY DEF Shaped

\* The same, when its schema changes.
LEMMA ExceptSchema ==
  ASSUME NEW q, Shaped(q), NEW x
  PROVE  LET p == [q EXCEPT !.schema = x]
         IN  /\ Shaped(p) /\ p.schema = x /\ p.phase = q.phase /\ p.dto = q.dto
             /\ p.asked = q.asked /\ p.call = q.call /\ p.retries = q.retries
  BY DEF Shaped

\* The same, when the interface it asks about changes.
LEMMA ExceptAsked ==
  ASSUME NEW q, Shaped(q), NEW x
  PROVE  LET p == [q EXCEPT !.asked = x]
         IN  /\ Shaped(p) /\ p.asked = x /\ p.phase = q.phase /\ p.dto = q.dto
             /\ p.schema = q.schema /\ p.call = q.call /\ p.retries = q.retries
  BY DEF Shaped

\* The same, when its call changes.
LEMMA ExceptCall ==
  ASSUME NEW q, Shaped(q), NEW x
  PROVE  LET p == [q EXCEPT !.call = x]
         IN  /\ Shaped(p) /\ p.call = x /\ p.phase = q.phase /\ p.dto = q.dto
             /\ p.schema = q.schema /\ p.asked = q.asked /\ p.retries = q.retries
  BY DEF Shaped

\* The same, when its retries are counted.
LEMMA ExceptRetries ==
  ASSUME NEW q, Shaped(q), NEW x
  PROVE  LET p == [q EXCEPT !.retries = x]
         IN  /\ Shaped(p) /\ p.retries = x /\ p.phase = q.phase /\ p.dto = q.dto
             /\ p.schema = q.schema /\ p.asked = q.asked /\ p.call = q.call
  BY DEF Shaped

\* The fields of a request that has not arrived.
LEMMA NoRequestShape ==
  /\ Shaped(NoRequest)
  /\ NoRequest.phase = "new" /\ NoRequest.asked = 0 /\ NoRequest.retries = 0
  /\ NoRequest.call = NoMethod
  BY DEF NoRequest, Shaped

\* A request that has just arrived, and its fields.
Arriving(d, x) == [NoRequest EXCEPT !.dto = d, !.schema = x]

LEMMA NewShape ==
  ASSUME NEW d, NEW x
  PROVE  /\ Shaped(Arriving(d, x)) /\ Arriving(d, x).phase = "new"
         /\ Arriving(d, x).dto = d /\ Arriving(d, x).schema = x
         /\ Arriving(d, x).call = NoMethod /\ Arriving(d, x).retries = 0
<1> DEFINE brought == [NoRequest EXCEPT !.dto = d]
           q == Arriving(d, x)
<1>1. q = [brought EXCEPT !.schema = x]
  BY DEF Arriving
<1>2. /\ Shaped(brought) /\ brought.phase = "new" /\ brought.dto = d
      /\ brought.call = NoMethod /\ brought.retries = 0
  BY NoRequestShape, ExceptDto
<1> HIDE DEF brought, q
<1>3. /\ Shaped(q) /\ q.phase = "new" /\ q.dto = d /\ q.schema = x
      /\ q.call = NoMethod /\ q.retries = 0
  BY <1>1, <1>2, ExceptSchema
<1> QED
  BY <1>3 DEF q

\* What a request may ask.
Fits(d) ==
    /\ d.operation \in Invocations \cup {"pool", "create"}
    /\ (d.operation = "create") <=> (d.type = "factory")
    /\ d.hasInterface \in BOOLEAN
    /\ d.hasInterface => d.operation \in Invocations

\* So the assumption says.
LEMMA DtosFit ==
  ASSUME NEW r \in Requests, NEW d \in Dtos(r)
  PROVE  Fits(d)
  BY RequestsAssumption DEF Fits

\* A request that arrives, with all that it brings.
Arrives(r, q) ==
    /\ Shaped(q)
    /\ q.phase = "new" /\ q.call = NoMethod /\ q.retries = 0
    /\ Fits(q.dto) /\ q.dto.type = contract.type
    /\ q.schema \in schemas \cup {""}
    /\ (q.schema = "") <=> q.dto.operation \notin Invocations
    /\ requests' = [requests EXCEPT ![r] = Resume(q, 1, supportCache)]

\* So it does.
LEMMA BeginRequest ==
  ASSUME NEW r \in Requests, Begin(r)
  PROVE  \E q : Arrives(r, q)
<1>1. \E d, x : /\ Fits(d) /\ d.type = contract.type /\ x \in schemas \cup {""}
                /\ (x = "") <=> d.operation \notin Invocations
                /\ requests' = [requests EXCEPT ![r] = Resume(Arriving(d, x), 1, supportCache)]
  BY DtosFit DEF Begin, Arriving
<1>2. PICK d, x : /\ Fits(d) /\ d.type = contract.type /\ x \in schemas \cup {""}
                  /\ (x = "") <=> d.operation \notin Invocations
                  /\ requests' = [requests EXCEPT ![r] = Resume(Arriving(d, x), 1, supportCache)]
  BY <1>1
<1>3. /\ Shaped(Arriving(d, x)) /\ Arriving(d, x).phase = "new" /\ Arriving(d, x).dto = d
      /\ Arriving(d, x).schema = x /\ Arriving(d, x).call = NoMethod /\ Arriving(d, x).retries = 0
  BY NewShape
<1>4. Arrives(r, Arriving(d, x))
  BY <1>2, <1>3 DEF Arrives
<1> QED
  BY <1>4

\* What Resolved makes of a request.
LEMMA ResolvedAdvances ==
  ASSUME NEW q, Shaped(q), NEW found
  PROVE  /\ Advances(q, Resolved(q, found))
         /\ Resolved(q, found).phase # "asking"
         /\ Resolved(q, found).phase = "reading" =>
               /\ q.dto.operation = "pool"
               /\ Resolved(q, found).schema = SchemaFor(found)
         /\ q.dto.operation = "pool" => Resolved(q, found).phase = "reading"
         /\ q.dto.operation # "pool" =>
               /\ Resolved(q, found).schema = q.schema
               /\ Resolved(q, found).call = CallOf(q, found)
               /\ Resolved(q, found).phase =
                     IF CallOf(q, found) = BadRequest THEN "refused" ELSE "sending"
<1> DEFINE call == CallOf(q, found)
<1>1. CASE q.dto.operation = "pool"
  <2> DEFINE reading == [q EXCEPT !.phase = "reading"]
             unasked == [reading EXCEPT !.asked = 0]
  <2>1. Resolved(q, found) = [unasked EXCEPT !.schema = SchemaFor(found)]
    BY <1>1 DEF Resolved
  <2>2. /\ Shaped(reading) /\ reading.phase = "reading"
        /\ reading.dto = q.dto /\ reading.retries = q.retries
    BY ExceptPhase
  <2> HIDE DEF reading
  <2>3. /\ Shaped(unasked) /\ unasked.phase = "reading" /\ unasked.asked = 0
        /\ unasked.dto = q.dto /\ unasked.retries = q.retries
    BY <2>2, ExceptAsked
  <2> HIDE DEF unasked
  <2> QED
    BY <1>1, <2>1, <2>3, ExceptSchema DEF Advances
<1>2. CASE q.dto.operation # "pool"
  <2> DEFINE x == IF call = BadRequest THEN "refused" ELSE "sending"
  <2>1. Resolved(q, found) = [q EXCEPT !.phase = x, !.asked = 0, !.call = call]
    BY <1>2 DEF Resolved, CallOf
  <2>2. x = (IF CallOf(q, found) = BadRequest THEN "refused" ELSE "sending")
        /\ x \in {"refused", "sending"}
    OBVIOUS
  <2> HIDE DEF call, x
  <2> DEFINE moved == [q EXCEPT !.phase = x]
             unasked == [moved EXCEPT !.asked = 0]
  <2>3. Resolved(q, found) = [unasked EXCEPT !.call = call]
    BY <2>1
  <2>4. /\ Shaped(moved) /\ moved.phase = x /\ moved.schema = q.schema
        /\ moved.dto = q.dto /\ moved.retries = q.retries
    BY ExceptPhase
  <2> HIDE DEF moved
  <2>5. /\ Shaped(unasked) /\ unasked.phase = x /\ unasked.asked = 0
        /\ unasked.schema = q.schema
        /\ unasked.dto = q.dto /\ unasked.retries = q.retries
    BY <2>4, ExceptAsked
  <2> HIDE DEF unasked
  <2>6. /\ Advances(q, Resolved(q, found)) /\ Resolved(q, found).phase = x
        /\ Resolved(q, found).schema = q.schema /\ Resolved(q, found).call = call
    BY <2>2, <2>3, <2>5, ExceptCall DEF Advances
  <2> QED
    BY <1>2, <2>2, <2>6 DEF call
<1> QED
  BY <1>1, <1>2

\* The interfaces that a request may ask for.
LEMMA AsksShape ==
  ASSUME NEW q
  PROVE  Asks(q) \in {<<>>, <<"ERC20WithDataIID">>, <<"TokenFactoryIID">>,
                      <<"ERC721WithDataV1bIID">>,
                      <<"ERC721WithDataV2IID", "ERC721WithDataV1bIID", "ERC721WithDataV1aIID">>}
<1>1. CASE q.dto.operation = "pool"
  BY <1>1 DEF Asks, TokenInterfaces
<1>2. CASE q.dto.operation = "create"
  BY <1>2 DEF Asks
<1>3. CASE q.dto.operation \notin {"pool", "create"}
  <2>1. Asks(q) = IF q.schema = "ERC721WithData" /\ ~q.dto.hasInterface
                  THEN <<"ERC721WithDataV1bIID">> ELSE <<>>
    BY <1>3 DEF Asks
  <2> QED
    BY <2>1
<1> QED
  BY <1>1, <1>2, <1>3

\* They are at most three, and interfaces.
LEMMA AsksLength ==
  ASSUME NEW q
  PROVE  /\ Len(Asks(q)) \in 0..3 /\ DOMAIN Asks(q) = 1..Len(Asks(q))
         /\ \A k \in DOMAIN Asks(q) : Asks(q)[k] \in Interfaces
<1> DEFINE asks == Asks(q)
<1>1. asks \in {<<>>, <<"ERC20WithDataIID">>, <<"TokenFactoryIID">>,
                <<"ERC721WithDataV1bIID">>,
                <<"ERC721WithDataV2IID", "ERC721WithDataV1bIID", "ERC721WithDataV1aIID">>}
  BY AsksShape
<1> HIDE DEF asks
<1>2. /\ Len(asks) \in 0..3 /\ DOMAIN asks = 1..Len(asks)
      /\ \A k \in DOMAIN asks : asks[k] \in Interfaces
  <2>1. CASE asks = <<>>
    BY <2>1
  <2>2. CASE asks = <<"ERC20WithDataIID">>
    BY <2>2 DEF Interfaces
  <2>3. CASE asks = <<"TokenFactoryIID">>
    BY <2>3 DEF Interfaces
  <2>4. CASE asks = <<"ERC721WithDataV1bIID">>
    BY <2>4 DEF Interfaces
  <2>5. CASE asks = <<"ERC721WithDataV2IID", "ERC721WithDataV1bIID", "ERC721WithDataV1aIID">>
    BY <2>5 DEF Interfaces
  <2> QED
    BY <1>1, <2>1, <2>2, <2>3, <2>4, <2>5
<1> QED
  BY <1>2 DEF asks

\* What Resume makes of a request.
LEMMA ResumeAdvances ==
  ASSUME NEW q, Shaped(q), NEW i \in 1..4, NEW cache
  PROVE  /\ Advances(q, Resume(q, i, cache))
         /\ \/ Open(q, i, cache) = {} /\ Resume(q, i, cache) = Resolved(q, "none")
            \/ \E next \in Open(q, i, cache) :
                  /\ \A k \in i..next - 1 : k \notin Open(q, i, cache)
                  /\ \/ /\ cache[Asks(q)[next]] = "true"
                        /\ Resume(q, i, cache) = Resolved(q, Asks(q)[next])
                     \/ /\ cache[Asks(q)[next]] # "true"
                        /\ Resume(q, i, cache).phase = "asking"
                        /\ Resume(q, i, cache).asked = next
                        /\ Resume(q, i, cache).schema = q.schema
<1> DEFINE open == Open(q, i, cache)
           next == Min(open)
<1>1. Len(Asks(q)) \in 0..3 /\ open \subseteq 1..3
  BY AsksLength DEF Open
<1>2. CASE open = {}
  BY <1>2, ResolvedAdvances DEF Resume
<1>3. CASE open # {}
  <2>1. next \in open /\ \A k \in open : next <= k
    BY <1>1, <1>3, MinOf
  <2>2. \A k \in i..next - 1 : k \notin open
    BY <1>1, <2>1
  <2>3. CASE cache[Asks(q)[next]] = "true"
    <3>1. Resume(q, i, cache) = Resolved(q, Asks(q)[next])
      BY <1>3, <2>3 DEF Resume
    <3>2. Advances(q, Resolved(q, Asks(q)[next]))
      BY ResolvedAdvances
    <3> QED
      BY <2>1, <2>2, <2>3, <3>1, <3>2
  <2>4. CASE cache[Asks(q)[next]] # "true"
    <3>1. Resume(q, i, cache) = [q EXCEPT !.phase = "asking", !.asked = next]
      BY <1>3, <2>4 DEF Resume
    <3>2. next \in 1..3
      BY <1>1, <2>1
    <3> HIDE DEF next
    <3> DEFINE asking == [q EXCEPT !.phase = "asking"]
               p == [asking EXCEPT !.asked = next]
    <3>3. /\ Shaped(asking) /\ asking.phase = "asking" /\ asking.schema = q.schema
          /\ asking.dto = q.dto /\ asking.retries = q.retries
      BY ExceptPhase
    <3>4. Resume(q, i, cache) = p
      BY <3>1
    <3> HIDE DEF asking
    <3>5. Advances(q, p) /\ p.phase = "asking" /\ p.asked = next /\ p.schema = q.schema
      BY <3>2, <3>3, ExceptAsked DEF Advances
    <3> HIDE DEF p
    <3> QED
      BY <2>1, <2>2, <2>4, <3>4, <3>5
  <2> QED
    BY <2>3, <2>4
<1> QED
  BY <1>2, <1>3

\* A request whose schema is looked up gets one of the schemas.
LEMMA SchemaKnown ==
  ASSUME NEW found
  PROVE  SchemaFor(found) \in Schemas
  BY DEF SchemaFor, Schemas

\* A request that goes on from a query, or has just begun, has sent nothing.
LEMMA ResumeKeeps ==
  ASSUME NEW q, Shaped(q), q.retries \in 0..RetriesMax,
         NEW i \in 1..4, NEW cache
  PROVE  RequestInv(Resume(q, i, cache), 0)
<1> DEFINE p == Resume(q, i, cache)
<1>1. /\ Advances(q, p)
      /\ \/ \E found : p = Resolved(q, found)
         \/ /\ p.phase = "asking" /\ p.asked \in Open(q, i, cache)
            /\ p.schema = q.schema
  BY ResumeAdvances
<1>2. Open(q, i, cache) \subseteq DOMAIN Asks(q)
  BY AsksLength DEF Open
<1>3. p.phase = "asking" => p.asked \in DOMAIN Asks(p)
  <2>1. SUFFICES ASSUME p.phase = "asking"
                 PROVE  p.asked \in DOMAIN Asks(p)
    OBVIOUS
  <2>2. p.asked \in DOMAIN Asks(q) /\ p.schema = q.schema
    BY <1>1, <1>2, <2>1, ResolvedAdvances
  <2>3. Asks(p) = Asks(q)
    BY <1>1, <2>2 DEF Advances, Asks
  <2> QED
    BY <2>2, <2>3
<1>4. p.phase = "reading" => p.schema \in Schemas
  BY <1>1, ResolvedAdvances, SchemaKnown
<1> HIDE DEF p
<1>5. 0 \in 0..RetriesMax + 1
  BY RequestsAssumption
<1>6. p.retries + 1 >= 0
  BY <1>1, RequestsAssumption DEF Advances
<1> QED
  BY <1>1, <1>3, <1>4, <1>5, <1>6
  DEF RequestInv, Advances, Phases, Working, Answered, p

\* The same, when the query found the interface.
LEMMA ResolvedKeeps ==
  ASSUME NEW q, Shaped(q), q.retries \in 0..RetriesMax, NEW found
  PROVE  RequestInv(Resolved(q, found), 0)
<1> DEFINE p == Resolved(q, found)
<1>1. Advances(q, p) /\ p.phase # "asking" /\ (p.phase = "reading" => p.schema \in Schemas)
  BY ResolvedAdvances, SchemaKnown
<1> HIDE DEF p
<1>2. 0 \in 0..RetriesMax + 1
  BY RequestsAssumption
<1>3. p.retries + 1 >= 0
  BY <1>1, RequestsAssumption DEF Advances
<1> QED
  BY <1>1, <1>2, <1>3
  DEF RequestInv, Advances, Phases, Working, Answered, p

\* A step that changes one request, and perhaps what was taken for it.
LEMMA OneRequest ==
  ASSUME AnswerInv, contract' = contract, NEW r \in Requests, NEW p, NEW n,
         RequestInv(p, n), requests' = [requests EXCEPT ![r] = p],
         \/ taken' = taken /\ n = taken[r]
         \/ taken' = [taken EXCEPT ![r] = n]
  PROVE  /\ DOMAIN requests' = Requests
         /\ taken' \in [Requests -> 0..RetriesMax + 1]
         /\ \A s \in Requests : RequestInv(requests[s], taken[s])'
<1>1. n \in 0..RetriesMax + 1
  BY DEF RequestInv
<1>2. /\ DOMAIN requests' = Requests /\ taken' \in [Requests -> 0..RetriesMax + 1]
      /\ requests'[r] = p /\ taken'[r] = n
  BY <1>1 DEF AnswerInv
<1>3. ASSUME NEW s \in Requests
      PROVE  RequestInv(requests[s], taken[s])'
  <2>1. CASE s = r
    BY <1>2, <2>1 DEF RequestInv, Shaped, Asks, TokenInterfaces, Fungible
  <2>2. CASE s # r
    <3>1. requests'[s] = requests[s] /\ taken'[s] = taken[s]
      BY <2>2 DEF AnswerInv
    <3>2. RequestInv(requests[s], taken[s])
      BY DEF AnswerInv
    <3> QED
      BY <3>1, <3>2 DEF RequestInv, Shaped, Asks, TokenInterfaces, Fungible
  <2> QED
    BY <2>1, <2>2
<1> QED
  BY <1>2, <1>3

\* A request arrives.
LEMMA BeginKeeps ==
  ASSUME AnswerInv, NEW r \in Requests, Begin(r)
  PROVE  AnswerInv'
<1>1. PICK q : /\ Shaped(q) /\ q.retries = 0
               /\ requests' = [requests EXCEPT ![r] = Resume(q, 1, supportCache)]
  BY BeginRequest DEF Arrives
<1> DEFINE p == Resume(q, 1, supportCache)
<1>2. \A i \in 1..4 : RequestInv(Resume(q, i, supportCache), 0)
  BY <1>1, ResumeKeeps, RequestsAssumption
<1>3. RequestInv(p, 0)
  BY <1>2
<1>4. requests' = [requests EXCEPT ![r] = p]
  BY <1>1
<1> HIDE DEF p
<1>5. requests[r].phase = "new" /\ UNCHANGED <<contract, legacy, supportCache, schemas, taken, failures>>
  BY DEF Begin
<1>6. taken[r] = 0
  BY <1>5 DEF AnswerInv, RequestInv
<1> QED
  BY <1>3, <1>4, <1>5, <1>6, OneRequest DEF AnswerInv

\* Its query is answered or fails.
LEMMA InterfaceKeeps ==
  ASSUME AnswerInv, NEW r \in Requests, NEW support, requests[r].phase = "asking",
         InterfaceKnown(r, support),
         \/ failures' = failures
         \/ failures' = failures \cup {Asks(requests[r])[requests[r].asked]}
  PROVE  AnswerInv'
<1> DEFINE req == requests[r]
           iid == Asks(req)[req.asked]
           p == IF support THEN Resolved(req, iid)
                ELSE Resume(req, req.asked + 1, supportCache')
<1>1. RequestInv(req, taken[r])
  BY DEF AnswerInv
<1>2. Shaped(req) /\ req.retries \in 0..RetriesMax /\ taken[r] = 0
      /\ req.asked \in 0..3 /\ req.asked \in DOMAIN Asks(req)
  BY <1>1 DEF RequestInv
<1>3. iid \in Interfaces
  BY <1>2, AsksLength
<1>4. req.asked + 1 \in 1..4
  BY <1>2
<1>5. /\ requests' = [requests EXCEPT ![r] = p]
      /\ supportCache' = Cache(iid, support)
      /\ UNCHANGED <<contract, legacy, schemas, taken>>
  BY DEF InterfaceKnown
<1>6. RequestInv(Resolved(req, iid), 0)
  BY <1>2, ResolvedKeeps
<1>7. RequestInv(Resume(req, req.asked + 1, supportCache'), 0)
  BY <1>2, <1>4, ResumeKeeps
<1>8. RequestInv(p, 0)
  BY <1>6, <1>7
<1>9. supportCache' \in [Interfaces -> {"unknown", "true", "false"}]
  BY <1>5 DEF AnswerInv, Cache
<1>10. failures' \subseteq Interfaces
  BY <1>3 DEF AnswerInv
<1> HIDE DEF p
<1> QED
  BY <1>2, <1>5, <1>8, <1>9, <1>10, OneRequest DEF AnswerInv

\* A request that only moves to another phase.
LEMMA PhaseKeeps ==
  ASSUME AnswerInv, NEW r \in Requests, NEW x, NEW n, schemas' \subseteq Schemas,
         RequestInv([requests[r] EXCEPT !.phase = x], n),
         requests' = [requests EXCEPT ![r].phase = x],
         \/ taken' = taken /\ n = taken[r]
         \/ taken' = [taken EXCEPT ![r] = n],
         UNCHANGED <<contract, legacy, supportCache, failures>>
  PROVE  AnswerInv'
<1>1. requests' = [requests EXCEPT ![r] = [requests[r] EXCEPT !.phase = x]]
  OBVIOUS
<1> QED
  BY <1>1, OneRequest DEF AnswerInv

\* The pool's name, symbol and decimals are read, or not.
LEMMA ReadingKeeps ==
  ASSUME AnswerInv, NEW r \in Requests, PoolRead(r) \/ PoolUnread(r)
  PROVE  AnswerInv'
<1> DEFINE req == requests[r]
<1>1. RequestInv(req, taken[r]) /\ req.phase = "reading"
  BY DEF AnswerInv, PoolRead, PoolUnread
<1>2. PICK x \in {"created", "refused", "failed"} :
        /\ requests' = [requests EXCEPT ![r].phase = x]
        /\ schemas' \subseteq schemas \cup {req.schema}
        /\ UNCHANGED <<contract, legacy, supportCache, taken, failures>>
  BY DEF PoolRead, PoolUnread
<1>3. schemas' \subseteq Schemas
  BY <1>1, <1>2 DEF AnswerInv, RequestInv
<1> DEFINE p == [req EXCEPT !.phase = x]
<1>4. /\ Shaped(p) /\ p.phase = x /\ p.dto = req.dto /\ p.asked = req.asked
      /\ p.retries = req.retries
  BY <1>1, ExceptPhase DEF RequestInv
<1> HIDE DEF p
<1>5. RequestInv(p, taken[r])
  BY <1>1, <1>4 DEF RequestInv, Phases, Answered
<1> QED
  BY <1>2, <1>3, <1>5, PhaseKeeps DEF p

\* What a request that is sent has, by its phase.
LEMMA Sending ==
  ASSUME NEW q, NEW n, RequestInv(q, n), NEW x,
         NEW k, k \in {n, n + 1},
         \/ x \in {"submitted"} /\ q.phase = "sending" /\ k = n + 1 /\ (n > 0 => ~q.dto.hasId)
         \/ x = "duplicate" /\ q.phase = "sending" /\ k = n /\ n > 0 /\ q.dto.hasId
         \/ x = "accepted" /\ q.phase = "submitted" /\ k = n
         \/ x = "conflict" /\ q.phase = "duplicate" /\ k = n
         \/ x = "failed" /\ q.phase = "sending" /\ k = n
  PROVE  RequestInv([q EXCEPT !.phase = x], k)
<1> DEFINE p == [q EXCEPT !.phase = x]
<1>1. /\ Shaped(p) /\ p.phase = x /\ p.dto = q.dto /\ p.asked = q.asked
      /\ p.retries = q.retries
  BY ExceptPhase DEF RequestInv
<1> HIDE DEF p
<1>2. /\ q.retries \in 0..RetriesMax /\ n \in 0..RetriesMax + 1 /\ n <= q.retries + 1
      /\ n > 1 => ~q.dto.hasId
      /\ q.phase = "sending" => n <= q.retries
      /\ q.phase \in {"submitted", "duplicate"} => n > 0
      /\ q.phase = "duplicate" => q.dto.hasId
      /\ q.asked \in 0..3
  BY DEF RequestInv
<1>3. /\ x \in {"submitted", "duplicate", "accepted", "conflict", "failed"}
      /\ k \in 0..RetriesMax + 1 /\ k <= q.retries + 1
      /\ k > 1 => ~q.dto.hasId
      /\ x \in {"submitted", "accepted", "duplicate", "conflict"} => k > 0
      /\ x \in {"duplicate", "conflict"} => q.dto.hasId
  BY <1>2, RequestsAssumption
<1>4. RequestInv(p, k)
  BY <1>1, <1>2, <1>3 DEF RequestInv, Phases, Working, Answered
<1> QED
  BY <1>4 DEF p

\* Its transaction is taken, or known by its id.
LEMMA TakenKeeps ==
  ASSUME AnswerInv, NEW r \in Requests, Taken(r)
  PROVE  AnswerInv'
<1> DEFINE req == requests[r]
<1>1. RequestInv(req, taken[r]) /\ req.phase = "sending" /\ taken[r] \in Nat
  BY DEF AnswerInv, Taken, RequestInv
<1>2. UNCHANGED <<contract, legacy, supportCache, schemas, failures>>
  BY DEF Taken
<1>3. CASE HasId(r) /\ taken[r] > 0
  <2>1. requests' = [requests EXCEPT ![r].phase = "duplicate"] /\ taken' = taken
    BY <1>3 DEF Taken
  <2>2. RequestInv([req EXCEPT !.phase = "duplicate"], taken[r])
    BY <1>1, <1>3, Sending DEF HasId
  <2> QED
    BY <1>2, <2>1, <2>2, PhaseKeeps DEF AnswerInv
<1>4. CASE ~(HasId(r) /\ taken[r] > 0)
  <2>1. /\ requests' = [requests EXCEPT ![r].phase = "submitted"]
        /\ taken' = [taken EXCEPT ![r] = taken[r] + 1]
    BY <1>4 DEF Taken
  <2>2. RequestInv([req EXCEPT !.phase = "submitted"], taken[r] + 1)
    BY <1>1, <1>4, Sending DEF HasId
  <2> QED
    BY <1>2, <2>1, <2>2, PhaseKeeps DEF AnswerInv
<1> QED
  BY <1>3, <1>4

\* It is answered.
LEMMA AnswerKeeps ==
  ASSUME AnswerInv, NEW r \in Requests, Accepted(r) \/ Conflict(r) \/ Rejected(r)
  PROVE  AnswerInv'
<1> DEFINE req == requests[r]
<1>1. RequestInv(req, taken[r])
  BY DEF AnswerInv
<1>2. PICK x \in {"accepted", "conflict", "failed"} :
        /\ \/ x = "accepted" /\ req.phase = "submitted"
           \/ x = "conflict" /\ req.phase = "duplicate"
           \/ x = "failed" /\ req.phase = "sending"
        /\ requests' = [requests EXCEPT ![r].phase = x]
        /\ UNCHANGED <<contract, legacy, supportCache, schemas, taken, failures>>
  BY DEF Accepted, Conflict, Rejected, Answer
<1>3. RequestInv([req EXCEPT !.phase = x], taken[r])
  BY <1>1, <1>2, Sending
<1> QED
  BY <1>2, <1>3, PhaseKeeps DEF AnswerInv

\* What Retry makes of a request.
LEMMA RetryMoves ==
  ASSUME NEW q, Shaped(q)
  PROVE  /\ Shaped(Retry(q)) /\ Retry(q).dto = q.dto /\ Retry(q).asked = q.asked
         /\ Retry(q).schema = q.schema /\ Retry(q).call = q.call
         /\ \/ /\ Retry(q).phase = "sending" /\ Retry(q).retries = q.retries + 1
               /\ q.retries + 1 <= RetriesMax
            \/ Retry(q).phase = "failed" /\ Retry(q).retries = q.retries
<1>1. CASE q.retries + 1 <= RetriesMax
  <2> DEFINE sending == [q EXCEPT !.phase = "sending"]
  <2>1. Retry(q) = [sending EXCEPT !.retries = q.retries + 1]
    BY <1>1 DEF Retry, MayTry
  <2>2. /\ Shaped(sending) /\ sending.phase = "sending" /\ sending.dto = q.dto
        /\ sending.asked = q.asked /\ sending.schema = q.schema /\ sending.call = q.call
    BY ExceptPhase
  <2> HIDE DEF sending
  <2> QED
    BY <1>1, <2>1, <2>2, ExceptRetries
<1>2. CASE ~(q.retries + 1 <= RetriesMax)
  BY <1>2, ExceptPhase DEF Retry, MayTry
<1> QED
  BY <1>1, <1>2

\* Its connection fails: it is sent again, or given up.
LEMMA RetryKeeps ==
  ASSUME AnswerInv, NEW r \in Requests, ConnectionFails(r)
  PROVE  AnswerInv'
<1> DEFINE req == requests[r]
           p == Retry(req)
<1>1. RequestInv(req, taken[r]) /\ req.phase \in {"sending", "submitted", "duplicate"}
  BY DEF AnswerInv, ConnectionFails
<1>2. requests' = [requests EXCEPT ![r] = p]
      /\ UNCHANGED <<contract, legacy, supportCache, schemas, taken, failures>>
  BY DEF ConnectionFails
<1>3. /\ Shaped(p) /\ p.dto = req.dto /\ p.asked = req.asked
      /\ \/ /\ p.phase = "sending" /\ p.retries = req.retries + 1
            /\ req.retries + 1 <= RetriesMax
         \/ p.phase = "failed" /\ p.retries = req.retries
  BY <1>1, RetryMoves DEF RequestInv
<1> HIDE DEF p
<1>4. RequestInv(p, taken[r])
  <2>1. /\ req.retries \in 0..RetriesMax /\ taken[r] \in 0..RetriesMax + 1
        /\ taken[r] <= req.retries + 1 /\ (taken[r] > 1 => ~req.dto.hasId)
        /\ req.asked \in 0..3
    BY <1>1 DEF RequestInv
  <2>2. /\ p.retries \in 0..RetriesMax /\ taken[r] <= p.retries + 1
        /\ p.phase = "sending" => taken[r] <= p.retries
    BY <1>3, <2>1, RequestsAssumption
  <2>3. p.phase \in {"sending", "failed"}
    BY <1>3
  <2> QED
    BY <1>3, <2>1, <2>2, <2>3 DEF RequestInv, Phases, Working, Answered
<1> QED
  BY <1>2, <1>4, OneRequest DEF AnswerInv

\* The process exits: what is left of a request at work is what was taken for it.
LEMMA RestartKeeps ==
  ASSUME AnswerInv, Restart
  PROVE  AnswerInv'
<1> DEFINE lost == [NoRequest EXCEPT !.phase = "lost"]
<1>1. /\ supportCache' = [i \in Interfaces |-> "unknown"]
      /\ requests' = [r \in Requests |->
                        IF requests[r].phase \in Working THEN lost ELSE requests[r]]
      /\ UNCHANGED <<contract, legacy, schemas, taken, failures>>
  BY DEF Restart
<1>2. Shaped(lost) /\ lost.phase = "lost" /\ lost.asked = 0 /\ lost.retries = 0
  BY NoRequestShape, ExceptPhase
<1> HIDE DEF lost
<1>3. ASSUME NEW r \in Requests
      PROVE  RequestInv(requests[r], taken[r])'
  <2>1. RequestInv(requests[r], taken[r])
    BY DEF AnswerInv
  <2>2. taken[r] \in 0..RetriesMax + 1
    BY <2>1 DEF RequestInv
  <2>3. RequestInv(lost, taken[r])
    BY <1>2, <2>2, RequestsAssumption DEF RequestInv, Phases
  <2>4. RequestInv(requests'[r], taken'[r])
    BY <1>1, <2>1, <2>3
  <2> QED
    BY <1>1, <2>4 DEF RequestInv, Shaped, Asks, TokenInterfaces, Fungible
<1> QED
  BY <1>1, <1>3 DEF AnswerInv

\* An answer leaves the cache.
LEMMA EvictKeeps ==
  ASSUME AnswerInv, Evict
  PROVE  AnswerInv'
<1>1. /\ supportCache' \in [Interfaces -> {"unknown", "true", "false"}]
      /\ UNCHANGED <<contract, legacy, schemas, requests, taken, failures>>
  BY DEF Evict, AnswerInv
<1>2. ASSUME NEW r \in Requests
      PROVE  RequestInv(requests[r], taken[r])'
  BY <1>1 DEF AnswerInv, RequestInv, Shaped, Asks, TokenInterfaces, Fungible
<1> QED
  BY <1>1, <1>2 DEF AnswerInv

\* AnswerInv holds at first.
LEMMA AnswerInit ==
  ASSUME Init
  PROVE  AnswerInv
<1>1. RequestInv(NoRequest, 0)
  BY NoRequestShape, RequestsAssumption DEF RequestInv, Phases
<1>2. legacy \in BOOLEAN
  BY DEF Init
<1>3. schemas \subseteq Schemas
  BY SchemaKnown DEF Init
<1>4. 0 \in 0..RetriesMax + 1
  BY RequestsAssumption
<1> QED
  BY <1>1, <1>2, <1>3, <1>4 DEF Init, AnswerInv

\* Every step keeps AnswerInv.
LEMMA AnswerStep ==
  ASSUME AnswerInv, [Next]_vars
  PROVE  AnswerInv'
<1>1. CASE \E r \in Requests : Begin(r)
  BY <1>1, BeginKeeps
<1>2. ASSUME NEW r \in Requests, Step(r)
      PROVE  AnswerInv'
  <2>1. CASE QueryAnswered(r)
    <3>1. PICK support : InterfaceKnown(r, support)
      BY <2>1 DEF QueryAnswered
    <3> QED
      BY <2>1, <3>1, InterfaceKeeps DEF QueryAnswered
  <2>2. CASE QueryFailed(r)
    BY <2>2, InterfaceKeeps DEF QueryFailed
  <2>3. CASE PoolRead(r) \/ PoolUnread(r)
    BY <2>3, ReadingKeeps
  <2>4. CASE Taken(r)
    BY <2>4, TakenKeeps
  <2>5. CASE Accepted(r) \/ Conflict(r) \/ Rejected(r)
    BY <2>5, AnswerKeeps
  <2>6. CASE ConnectionFails(r)
    BY <2>6, RetryKeeps
  <2> QED
    BY <1>2, <2>1, <2>2, <2>3, <2>4, <2>5, <2>6 DEF Step
<1>3. CASE Evict
  BY <1>3, EvictKeeps
<1>4. CASE Restart
  BY <1>4, RestartKeeps
<1>5. CASE UNCHANGED vars
  <2>1. ASSUME NEW r \in Requests
        PROVE  RequestInv(requests[r], taken[r])'
    BY <1>5 DEF vars, AnswerInv, RequestInv, Shaped, Asks, TokenInterfaces, Fungible
  <2> QED
    BY <1>5, <2>1 DEF vars, AnswerInv
<1> QED
  BY <1>1, <1>2, <1>3, <1>4, <1>5 DEF Next

\* The types of the state.
THEOREM RequestsTypeCorrect == Spec => []TypeOK
<1>1. Init => AnswerInv
  BY AnswerInit
<1>2. AnswerInv /\ [Next]_vars => AnswerInv'
  BY AnswerStep
<1>3. AnswerInv => TypeOK
  BY DEF AnswerInv, TypeOK, RequestInv, Phases
<1> QED
  BY <1>1, <1>2, <1>3, PTL DEF Spec

\* The answer to a transaction tells what became of it (sendTransaction,
\* retryableCall, wrapError).
THEOREM AnswersTellTheTruth == Spec => []AnswersTruthful
<1>1. Init => AnswerInv
  BY AnswerInit
<1>2. AnswerInv /\ [Next]_vars => AnswerInv'
  BY AnswerStep
<1>3. AnswerInv => AnswersTruthful
  <2>1. SUFFICES ASSUME AnswerInv, NEW r \in Requests, requests[r].phase # "lost"
                 PROVE  /\ requests[r].phase = "accepted" => taken[r] > 0
                        /\ requests[r].phase = "refused" => taken[r] = 0
                        /\ requests[r].phase = "conflict" => taken[r] = 1
                        /\ taken[r] > 1 => ~requests[r].dto.hasId
                        /\ taken[r] <= requests[r].retries + 1
    BY DEF AnswersTruthful
  <2>2. RequestInv(requests[r], taken[r])
    BY <2>1 DEF AnswerInv
  <2> QED
    BY <2>1, <2>2, RequestsAssumption DEF RequestInv
<1> QED
  BY <1>1, <1>2, <1>3, PTL DEF Spec
-----------------------------------------------------------------------------
(* What the connector believes of the contract *)

\* The cache is right, but for queries that failed.
CacheInv ==
    \A i \in Interfaces :
        \/ supportCache[i] = "unknown"
        \/ (supportCache[i] = "true") <=> i \in contract.supports
        \/ i \in failures

\* Without failures, so is every pool.
PoolsInv ==
    failures = {} =>
        /\ schemas \subseteq {SchemaFor(TrueInterface)}
        /\ \A r \in Requests : Believes(requests[r])

\* A contract that supports an interface has its schema.
LEMMA SchemaOfSupported ==
  ASSUME contract \in Contracts, NEW i \in contract.supports
  PROVE  SchemaFor(i) = SchemaFor(TrueInterface)
<1>1. TrueInterface \in contract.supports
  BY DEF TrueInterface
<1>2. TrueInterface = i
  BY <1>1, RequestsAssumption
<1> QED
  BY <1>2

\* A contract that supports none of those its type may have gets the schema of contracts
\* without interfaces.
LEMMA SchemaOfNone ==
  ASSUME contract \in Contracts, NEW q, q.dto.operation = "pool",
         \A k \in DOMAIN Asks(q) : Asks(q)[k] \notin contract.supports
  PROVE  SchemaFor("none") = SchemaFor(TrueInterface)
<1>1. CASE contract.supports = {}
  BY <1>1 DEF TrueInterface
<1>2. CASE contract.supports # {}
  <2>1. TrueInterface \in contract.supports
    BY <1>2 DEF TrueInterface
  <2>2. TrueInterface \in Interfaces /\ OfType(TrueInterface) = contract.type
    BY <2>1, RequestsAssumption
  <2>3. CASE contract.type = "fungible"
    <3>1. Asks(q) = <<"ERC20WithDataIID">>
      BY <2>3 DEF Asks, TokenInterfaces, Fungible
    <3>2. "ERC20WithDataIID" \notin contract.supports
      BY <3>1
    <3>3. TrueInterface = "ERC20WithDataIID"
      BY <2>2, <2>3 DEF Interfaces, OfType
    <3> QED
      BY <2>1, <3>2, <3>3
  <2>4. CASE contract.type # "fungible"
    <3>1. Asks(q) = <<"ERC721WithDataV2IID", "ERC721WithDataV1bIID", "ERC721WithDataV1aIID">>
      BY <2>4 DEF Asks, TokenInterfaces, Fungible
    <3>2. /\ "ERC721WithDataV2IID" \notin contract.supports
          /\ "ERC721WithDataV1bIID" \notin contract.supports
          /\ "ERC721WithDataV1aIID" \notin contract.supports
      BY <3>1
    <3>3. TrueInterface = "TokenFactoryIID"
      BY <2>1, <2>2, <2>4, <3>2 DEF Interfaces, OfType
    <3> QED
      BY <3>3 DEF SchemaFor
  <2> QED
    BY <2>3, <2>4
<1> QED
  BY <1>1, <1>2

\* Going on from a query, a request believes only what the cache says.
LEMMA ResumeBelieves ==
  ASSUME contract \in Contracts, NEW q, Shaped(q), NEW i \in 1..4,
         NEW cache \in [Interfaces -> {"unknown", "true", "false"}],
         \A j \in Interfaces : \/ cache[j] = "unknown"
                               \/ (cache[j] = "true") <=> j \in contract.supports,
         q.dto.operation = "pool" =>
            \A k \in DOMAIN Asks(q) : k < i => Asks(q)[k] \notin contract.supports
  PROVE  Believes(Resume(q, i, cache))
<1> DEFINE p == Resume(q, i, cache)
<1>1. /\ Len(Asks(q)) \in 0..3 /\ DOMAIN Asks(q) = 1..Len(Asks(q))
      /\ \A k \in DOMAIN Asks(q) : Asks(q)[k] \in Interfaces
  BY AsksLength
<1>2. ASSUME NEW k \in DOMAIN Asks(q), k >= i, k \notin Open(q, i, cache)
      PROVE  Asks(q)[k] \notin contract.supports
  BY <1>1, <1>2 DEF Open
<1>3. CASE Open(q, i, cache) = {} /\ p = Resolved(q, "none")
  <2>1. ASSUME q.dto.operation = "pool", NEW k \in DOMAIN Asks(q)
        PROVE  Asks(q)[k] \notin contract.supports
    BY <1>1, <1>2, <1>3, <2>1
  <2>2. q.dto.operation = "pool" => SchemaFor("none") = SchemaFor(TrueInterface)
    BY <2>1, SchemaOfNone
  <2> QED
    BY <1>3, <2>2, ResolvedAdvances DEF Believes
<1>4. ASSUME NEW next \in Open(q, i, cache), cache[Asks(q)[next]] = "true",
             p = Resolved(q, Asks(q)[next])
      PROVE  Believes(p)
  <2>1. Asks(q)[next] \in contract.supports
    BY <1>1, <1>4 DEF Open
  <2>2. SchemaFor(Asks(q)[next]) = SchemaFor(TrueInterface)
    BY <2>1, SchemaOfSupported
  <2> QED
    BY <1>4, <2>2, ResolvedAdvances DEF Believes
<1>5. ASSUME NEW next \in Open(q, i, cache), \A k \in i..next - 1 : k \notin Open(q, i, cache),
             Advances(q, p), p.phase = "asking", p.asked = next, p.schema = q.schema
      PROVE  Believes(p)
  <2>1. Asks(p) = Asks(q) /\ p.dto = q.dto
    BY <1>5 DEF Advances, Asks
  <2>2. next \in 1..Len(Asks(q))
    BY <1>1 DEF Open
  <2>3. ASSUME q.dto.operation = "pool", NEW k \in 1..next - 1
        PROVE  Asks(q)[k] \notin contract.supports
    <3>1. k \in DOMAIN Asks(q)
      BY <1>1, <2>2
    <3>2. CASE k < i
      BY <2>3, <3>1, <3>2
    <3>3. CASE k >= i
      BY <1>2, <1>5, <2>2, <3>1, <3>3
    <3> QED
      BY <1>1, <2>2, <3>2, <3>3
  <2> QED
    BY <1>5, <2>1, <2>3 DEF Believes
<1> QED
  BY <1>3, <1>4, <1>5, ResumeAdvances

\* What is true of a contract stays true.
LEMMA BeliefStays ==
  ASSUME contract' = contract
  PROVE  /\ SchemaFor(TrueInterface)' = SchemaFor(TrueInterface)
         /\ \A q : Believes(q)' = Believes(q)
  BY DEF Believes, Asks, TokenInterfaces, Fungible, SchemaFor, TrueInterface

\* A step that changes one request, to one that believes nothing false.
LEMMA BelievesOne ==
  ASSUME DOMAIN requests = Requests, contract' = contract, NEW r \in Requests, NEW p,
         Believes(p), requests' = [requests EXCEPT ![r] = p],
         \A s \in Requests : Believes(requests[s])
  PROVE  \A s \in Requests : Believes(requests[s])'
<1>1. ASSUME NEW s \in Requests
      PROVE  Believes(requests'[s])
  OBVIOUS
<1> QED
  BY <1>1, BeliefStays DEF Believes

\* A cache that only forgets stays right.
LEMMA CacheUnchanged ==
  ASSUME CacheInv, contract' = contract, failures' = failures,
         \A i \in Interfaces : supportCache'[i] \in {"unknown", supportCache[i]}
  PROVE  CacheInv'
  BY DEF CacheInv

\* Every step keeps CacheInv.
LEMMA CacheStep ==
  ASSUME AnswerInv, CacheInv, [Next]_vars
  PROVE  CacheInv'
<1> DEFINE Quiet == UNCHANGED <<contract, supportCache, failures>>
<1>1. ASSUME Quiet
      PROVE  CacheInv'
  BY <1>1, CacheUnchanged
<1>2. ASSUME NEW r \in Requests, Step(r) \/ Begin(r)
      PROVE  CacheInv'
  <2> DEFINE asked == Asks(requests[r])[requests[r].asked]
  <2>1. CASE QueryAnswered(r)
    <3>1. /\ supportCache' = Cache(asked, asked \in contract.supports)
          /\ UNCHANGED <<contract, failures>>
      BY <2>1 DEF QueryAnswered, InterfaceKnown
    <3> HIDE DEF asked
    <3> QED
      BY <3>1 DEF AnswerInv, CacheInv, Cache
  <2>2. CASE QueryFailed(r)
    <3>1. /\ supportCache' = Cache(asked, FALSE)
          /\ contract' = contract /\ failures' = failures \cup {asked}
      BY <2>2 DEF QueryFailed, InterfaceKnown
    <3> HIDE DEF asked
    <3> QED
      BY <3>1 DEF AnswerInv, CacheInv, Cache
  <2>3. CASE Begin(r) \/ PoolRead(r) \/ PoolUnread(r) \/ Taken(r) \/ ConnectionFails(r)
    BY <1>1, <2>3 DEF Begin, PoolRead, PoolUnread, Taken, ConnectionFails
  <2>4. CASE Accepted(r) \/ Conflict(r) \/ Rejected(r)
    BY <1>1, <2>4 DEF Accepted, Conflict, Rejected, Answer
  <2> QED
    BY <1>2, <2>1, <2>2, <2>3, <2>4 DEF Step
<1>3. CASE Evict
  BY <1>3, CacheUnchanged DEF Evict, AnswerInv
<1>4. CASE Restart
  BY <1>4, CacheUnchanged DEF Restart
<1>5. CASE UNCHANGED vars
  BY <1>1, <1>5 DEF vars
<1> QED
  BY <1>2, <1>3, <1>4, <1>5 DEF Next

\* A request that believes nothing false, as long as no query failed.
LEMMA PoolsOne ==
  ASSUME AnswerInv, PoolsInv, contract' = contract, failures \subseteq failures',
         NEW r \in Requests, NEW p, requests' = [requests EXCEPT ![r] = p],
         failures' = {} => Believes(p),
         failures' = {} => schemas' \subseteq schemas \cup {SchemaFor(TrueInterface)}
  PROVE  PoolsInv'
<1>1. SUFFICES ASSUME failures' = {}
               PROVE  /\ schemas' \subseteq {SchemaFor(TrueInterface)'}
                      /\ \A s \in Requests : Believes(requests[s])'
  BY DEF PoolsInv
<1>2. failures = {} /\ Believes(p)
  BY <1>1
<1>3. \A s \in Requests : Believes(requests[s])'
  BY <1>2, BelievesOne DEF AnswerInv, PoolsInv
<1>4. schemas' \subseteq {SchemaFor(TrueInterface)}
  BY <1>1, <1>2 DEF PoolsInv
<1> QED
  BY <1>3, <1>4, BeliefStays

\* A request that is neither asking nor reading believes nothing.
LEMMA BelievesNothing ==
  ASSUME NEW q, q.phase \notin {"asking", "reading"}
  PROVE  Believes(q)
  BY DEF Believes

\* A request arrives: it believes what the cache says.
LEMMA PoolsBegin ==
  ASSUME AnswerInv, CacheInv, PoolsInv, NEW r \in Requests, Begin(r)
  PROVE  PoolsInv'
<1>1. PICK q : /\ Shaped(q)
               /\ requests' = [requests EXCEPT ![r] = Resume(q, 1, supportCache)]
  BY BeginRequest DEF Arrives
<1>2. UNCHANGED <<contract, schemas, failures>>
  BY DEF Begin
<1>3. ASSUME failures = {}
      PROVE  Believes(Resume(q, 1, supportCache))
  <2>1. \A k \in DOMAIN Asks(q) : ~(k < 1)
    BY AsksLength
  <2>2. \A j \in Interfaces : \/ supportCache[j] = "unknown"
                              \/ (supportCache[j] = "true") <=> j \in contract.supports
    BY <1>3 DEF CacheInv
  <2>3. /\ contract \in Contracts
        /\ supportCache \in [Interfaces -> {"unknown", "true", "false"}]
    BY DEF AnswerInv
  <2>4. 1 \in 1..4
    BY SMT
  <2> QED
    BY <1>1, <2>1, <2>2, <2>3, <2>4, ResumeBelieves
<1> QED
  BY <1>1, <1>2, <1>3, PoolsOne

\* Its query is answered or fails.
LEMMA PoolsInterface ==
  ASSUME AnswerInv, AnswerInv', CacheInv', PoolsInv, NEW r \in Requests,
         NEW support, requests[r].phase = "asking", InterfaceKnown(r, support),
         failures \subseteq failures',
         failures' = {} =>
            (support <=> Asks(requests[r])[requests[r].asked] \in contract.supports)
  PROVE  PoolsInv'
<1> DEFINE req == requests[r]
           iid == Asks(req)[req.asked]
           p == IF support THEN Resolved(req, iid)
                ELSE Resume(req, req.asked + 1, supportCache')
<1>1. /\ requests' = [requests EXCEPT ![r] = p]
      /\ UNCHANGED <<contract, schemas>>
  BY DEF InterfaceKnown
<1>2. RequestInv(req, taken[r])
  BY DEF AnswerInv
<1>3. Shaped(req) /\ req.asked \in 0..3 /\ req.asked \in DOMAIN Asks(req)
  BY <1>2 DEF RequestInv
<1>4. req.asked + 1 \in 1..4 /\ DOMAIN Asks(req) = 1..Len(Asks(req)) /\ Len(Asks(req)) \in 0..3
  BY <1>3, AsksLength
<1>5. ASSUME failures' = {}
      PROVE  Believes(p)
  <2>1. failures = {} /\ Believes(req) /\ contract \in Contracts
    BY <1>5 DEF PoolsInv, AnswerInv
  <2>2. CASE support
    <3>1. SchemaFor(iid) = SchemaFor(TrueInterface)
      BY <1>5, <2>1, <2>2, SchemaOfSupported
    <3> QED
      BY <1>3, <2>2, <3>1, ResolvedAdvances DEF Believes
  <2>3. CASE ~support
    <3>1. iid \notin contract.supports
      BY <1>5, <2>3
    <3>2. ASSUME req.dto.operation = "pool", NEW k \in DOMAIN Asks(req), k < req.asked + 1
          PROVE  Asks(req)[k] \notin contract.supports
      <4>1. CASE k = req.asked
        BY <3>1, <4>1
      <4>2. CASE k # req.asked
        <5>1. k \in 1..req.asked - 1
          BY <1>3, <1>4, <3>2, <4>2
        <5> QED
          BY <2>1, <3>2, <5>1 DEF Believes
      <4> QED
        BY <4>1, <4>2
    <3>3. supportCache' \in [Interfaces -> {"unknown", "true", "false"}]
      BY DEF AnswerInv
    <3>4. \A j \in Interfaces : \/ supportCache'[j] = "unknown"
                                \/ (supportCache'[j] = "true") <=> j \in contract.supports
      BY <1>1, <1>5 DEF CacheInv
    <3>5. Believes(Resume(req, req.asked + 1, supportCache'))
      BY <1>3, <1>4, <2>1, <3>2, <3>3, <3>4, ResumeBelieves
    <3> QED
      BY <2>3, <3>5
  <2> QED
    BY <2>2, <2>3
<1> HIDE DEF p
<1> QED
  BY <1>1, <1>5, PoolsOne

\* Every step keeps PoolsInv.
LEMMA PoolsStep ==
  ASSUME AnswerInv, AnswerInv', CacheInv, CacheInv', PoolsInv, [Next]_vars
  PROVE  PoolsInv'
<1>1. CASE \E r \in Requests : Begin(r)
  BY <1>1, PoolsBegin
<1>2. ASSUME NEW r \in Requests, Step(r)
      PROVE  PoolsInv'
  <2> DEFINE req == requests[r]
  <2>1. CASE QueryAnswered(r)
    BY <2>1, PoolsInterface DEF QueryAnswered
  <2>2. CASE QueryFailed(r)
    <3>1. failures' # {} /\ failures \subseteq failures'
      BY <2>2 DEF QueryFailed
    <3> QED
      BY <2>2, <3>1, PoolsInterface DEF QueryFailed
  <2> DEFINE Moves(x) == [req EXCEPT !.phase = x]
  <2>3. Shaped(req)
    BY DEF AnswerInv, RequestInv
  <2>4. \A x : x \notin {"asking", "reading"} => Believes(Moves(x))
    BY <2>3, ExceptPhase, BelievesNothing
  <2>5. CASE PoolRead(r)
    <3>1. /\ requests' = [requests EXCEPT ![r] = Moves("created")]
          /\ schemas' = schemas \cup {req.schema} /\ req.phase = "reading"
          /\ UNCHANGED <<contract, failures>>
      BY <2>5 DEF PoolRead
    <3>2. failures = {} => req.schema = SchemaFor(TrueInterface)
      BY <3>1 DEF PoolsInv, Believes
    <3>3. Believes(Moves("created"))
      BY <2>4
    <3> HIDE DEF Moves
    <3> QED
      BY <3>1, <3>2, <3>3, PoolsOne
  <2>6. CASE PoolUnread(r) \/ Taken(r) \/ Accepted(r) \/ Conflict(r) \/ Rejected(r)
    <3>1. PICK x \in {"refused", "failed", "duplicate", "submitted", "accepted", "conflict"} :
            /\ requests' = [requests EXCEPT ![r] = Moves(x)]
            /\ UNCHANGED <<contract, schemas, failures>>
      BY <2>6 DEF PoolUnread, Taken, Accepted, Conflict, Rejected, Answer
    <3>2. Believes(Moves(x))
      BY <2>4
    <3> HIDE DEF Moves
    <3> QED
      BY <3>1, <3>2, PoolsOne
  <2>7. CASE ConnectionFails(r)
    <3> DEFINE p == Retry(req)
    <3>1. /\ requests' = [requests EXCEPT ![r] = p]
          /\ UNCHANGED <<contract, schemas, failures>>
      BY <2>7 DEF ConnectionFails
    <3>2. Believes(p)
      BY <2>3, RetryMoves, BelievesNothing
    <3> HIDE DEF p
    <3> QED
      BY <3>1, <3>2, PoolsOne
  <2> QED
    BY <1>2, <2>1, <2>2, <2>5, <2>6, <2>7 DEF Step
<1>3. CASE Evict \/ UNCHANGED vars
  <2>1. UNCHANGED <<contract, schemas, requests, failures>>
    BY <1>3 DEF Evict, vars
  <2> QED
    BY <2>1, BeliefStays DEF PoolsInv, Believes
<1>4. CASE Restart
  <2> DEFINE lost == [NoRequest EXCEPT !.phase = "lost"]
  <2>1. /\ UNCHANGED <<contract, schemas, failures>>
        /\ \A r \in Requests : requests'[r] = requests[r] \/ requests'[r] = lost
    BY <1>4 DEF Restart
  <2>2. Believes(lost)
    <3>1. lost.phase = "lost"
      BY NoRequestShape, ExceptPhase
    <3> HIDE DEF lost
    <3> QED
      BY <3>1, BelievesNothing
  <2>3. failures = {} => \A r \in Requests : Believes(requests'[r])
    BY <2>1, <2>2 DEF PoolsInv
  <2> QED
    BY <2>1, <2>3, BeliefStays DEF PoolsInv, Believes
<1> QED
  BY <1>1, <1>2, <1>3, <1>4 DEF Next
-----------------------------------------------------------------------------
(* The call of each request *)

Founds == Interfaces \cup {"none"}

\* What a request found of the interfaces it asks for is so.
Found(q, found) ==
    \A k \in DOMAIN Asks(q) : (found = Asks(q)[k]) <=> Asks(q)[k] \in contract.supports

\* A request that arrived for this contract has its true schema, if it has one and no
\* query failed.
Begun(q, failed) ==
    /\ Fits(q.dto) /\ q.dto.type = contract.type
    /\ q.dto.operation \in Invocations /\ failed = {} => q.schema = SchemaFor(TrueInterface)

\* A request that knows its interface has the call that it makes for it; it knows the
\* true one, if no query failed.
Called(q, failed) ==
    /\ q.phase \notin {"reading", "created"}
    /\ q.call = BadRequest => q.phase = "refused"
    /\ \E found \in Founds :
          q.call = CallOf(q, found) /\ (failed = {} => Found(q, found))

\* So does every request at work, or answered, but those that create a pool: they send
\* nothing.
CallInv(q, n, failed) ==
    /\ q.phase \in {"new", "lost"} => q.call = NoMethod
    /\ q.phase \notin {"new", "lost"} =>
          /\ Begun(q, failed)
          /\ q.dto.operation = "pool" =>
                n = 0 /\ q.phase \in {"asking", "reading", "created", "refused", "failed"}
          /\ q.dto.operation # "pool" /\ q.phase # "asking" => Called(q, failed)

CallsInv == \A r \in Requests : CallInv(requests[r], taken[r], failures)

\* What a request calls depends on what it asks and on its schema only.
LEMMA SameCall ==
  ASSUME NEW q, NEW p, p.dto = q.dto, p.schema = q.schema
  PROVE  /\ Asks(p) = Asks(q)
         /\ \A found : CallOf(p, found) = CallOf(q, found) /\ (Found(p, found) <=> Found(q, found))
         /\ \A failed : Begun(p, failed) <=> Begun(q, failed)
<1>1. Asks(p) = Asks(q)
  BY DEF Asks
<1>2. \A found : CallOf(p, found) = CallOf(q, found)
  BY DEF CallOf, InvokeCall
<1> QED
  BY <1>1, <1>2 DEF Found, Begun

\* A request that does not create a pool asks for one interface, or none.
LEMMA OneInterface ==
  ASSUME NEW q, q.dto.operation # "pool", NEW k \in DOMAIN Asks(q)
  PROVE  k = 1
<1>1. Asks(q) \in {<<>>, <<"TokenFactoryIID">>, <<"ERC721WithDataV1bIID">>}
  BY DEF Asks
<1> QED
  BY <1>1

\* A request that learns its interface.
LEMMA ResolvedCalls ==
  ASSUME NEW q, Shaped(q), NEW failed, Begun(q, failed), NEW found \in Founds,
         q.dto.operation # "pool" /\ failed = {} => Found(q, found)
  PROVE  CallInv(Resolved(q, found), 0, failed)
<1> DEFINE p == Resolved(q, found)
<1>1. p.dto = q.dto
  BY ResolvedAdvances DEF Advances
<1>2. CASE q.dto.operation = "pool"
  <2>1. p.phase = "reading"
    BY <1>2, ResolvedAdvances
  <2>2. "pool" \notin Invocations
    BY DEF Invocations
  <2> HIDE DEF p
  <2>3. CallInv(p, 0, failed)
    BY <1>1, <1>2, <2>1, <2>2 DEF CallInv, Begun
  <2> QED
    BY <2>3 DEF p
<1>3. CASE q.dto.operation # "pool"
  <2>1. /\ p.schema = q.schema /\ p.call = CallOf(q, found)
        /\ p.phase = IF CallOf(q, found) = BadRequest THEN "refused" ELSE "sending"
    BY <1>3, ResolvedAdvances
  <2> HIDE DEF p
  <2>2. /\ CallOf(p, found) = CallOf(q, found)
        /\ Found(p, found) <=> Found(q, found)
        /\ Begun(p, failed)
    BY <1>1, <2>1, SameCall
  <2>3. Called(p, failed)
    BY <1>3, <2>1, <2>2 DEF Called
  <2>4. CallInv(p, 0, failed)
    BY <1>1, <1>3, <2>1, <2>2, <2>3 DEF CallInv
  <2> QED
    BY <2>4 DEF p
<1> QED
  BY <1>2, <1>3

\* A request that goes on with its queries, as far as the cache answers.
LEMMA ResumeCalls ==
  ASSUME contract \in Contracts, NEW q, Shaped(q), NEW i \in 1..4,
         NEW cache \in [Interfaces -> {"unknown", "true", "false"}],
         NEW failed, Begun(q, failed),
         failed = {} =>
            \A j \in Interfaces : \/ cache[j] = "unknown"
                                  \/ (cache[j] = "true") <=> j \in contract.supports,
         failed = {} /\ q.dto.operation # "pool" =>
            \A k \in DOMAIN Asks(q) : k < i => Asks(q)[k] \notin contract.supports
  PROVE  CallInv(Resume(q, i, cache), 0, failed)
<1> DEFINE p == Resume(q, i, cache)
<1>1. /\ Len(Asks(q)) \in 0..3 /\ DOMAIN Asks(q) = 1..Len(Asks(q))
      /\ \A k \in DOMAIN Asks(q) : Asks(q)[k] \in Interfaces
  BY AsksLength
<1>2. CASE Open(q, i, cache) = {} /\ p = Resolved(q, "none")
  <2>1. ASSUME q.dto.operation # "pool", failed = {}, NEW k \in DOMAIN Asks(q)
        PROVE  Asks(q)[k] \notin contract.supports
    <3>1. CASE k < i
      BY <2>1, <3>1
    <3>2. CASE k >= i
      <4>1. cache[Asks(q)[k]] = "false"
        BY <1>1, <1>2, <3>2 DEF Open
      <4> QED
        BY <1>1, <2>1, <4>1
    <3> QED
      BY <1>1, <3>1, <3>2
  <2>2. "none" \in Founds /\ "none" \notin Interfaces
    BY DEF Founds, Interfaces
  <2>3. q.dto.operation # "pool" /\ failed = {} => Found(q, "none")
    BY <1>1, <2>1, <2>2 DEF Found
  <2> QED
    BY <1>2, <2>2, <2>3, ResolvedCalls
<1>3. ASSUME NEW next \in Open(q, i, cache), cache[Asks(q)[next]] = "true",
             p = Resolved(q, Asks(q)[next])
      PROVE  CallInv(p, 0, failed)
  <2>1. next \in DOMAIN Asks(q) /\ Asks(q)[next] \in Interfaces
    BY <1>1 DEF Open
  <2>2. failed = {} => Asks(q)[next] \in contract.supports
    BY <1>3, <2>1
  <2>3. q.dto.operation # "pool" /\ failed = {} => Found(q, Asks(q)[next])
    BY <2>1, <2>2, OneInterface DEF Found
  <2>4. Asks(q)[next] \in Founds
    BY <2>1 DEF Founds
  <2> QED
    BY <1>3, <2>3, <2>4, ResolvedCalls
<1>4. ASSUME Advances(q, p), p.phase = "asking", p.schema = q.schema
      PROVE  CallInv(p, 0, failed)
  <2>1. p.dto = q.dto
    BY <1>4 DEF Advances
  <2> HIDE DEF p
  <2>2. Begun(p, failed)
    BY <1>4, <2>1, SameCall
  <2> QED
    BY <1>4, <2>2 DEF CallInv
<1> QED
  BY <1>2, <1>3, <1>4, ResumeAdvances

\* The contract and its ABIs do not change, so neither does what is true of a call.
LEMMA CallStays ==
  ASSUME contract' = contract, legacy' = legacy
  PROVE  \A q, n, failed : CallInv(q, n, failed)' <=> CallInv(q, n, failed)
<1>1. \A q : Asks(q)' = Asks(q)
  BY DEF Asks, TokenInterfaces, Fungible
<1>2. \A q, found : InvokeCall(q, found)' = InvokeCall(q, found)
  BY DEF InvokeCall, AbiFor, Fungible
<1>3. \A q, found : CallOf(q, found)' = CallOf(q, found)
  BY <1>2 DEF CallOf, CreateCall
<1>4. \A q, found : Found(q, found)' <=> Found(q, found)
  BY <1>1 DEF Found
<1>5. \A q, failed : Begun(q, failed)' <=> Begun(q, failed)
  BY BeliefStays DEF Begun
<1>6. \A q, failed : Called(q, failed)' <=> Called(q, failed)
  BY <1>3, <1>4 DEF Called
<1> QED
  BY <1>5, <1>6 DEF CallInv

\* After another failure, less is known to be so.
LEMMA MoreFailed ==
  ASSUME NEW q, NEW n, NEW few, NEW more, few \subseteq more, CallInv(q, n, few)
  PROVE  CallInv(q, n, more)
<1>1. Begun(q, few) => Begun(q, more)
  BY DEF Begun
<1>2. Called(q, few) => Called(q, more)
  BY DEF Called
<1> QED
  BY <1>1, <1>2 DEF CallInv

\* A step that changes one request, and perhaps what was taken for it.
LEMMA CallsOne ==
  ASSUME AnswerInv, CallsInv, contract' = contract, legacy' = legacy,
         failures \subseteq failures', NEW r \in Requests, NEW p, NEW n,
         CallInv(p, n, failures'), requests' = [requests EXCEPT ![r] = p],
         \/ taken' = taken /\ n = taken[r]
         \/ taken' = [taken EXCEPT ![r] = n]
  PROVE  CallsInv'
<1>1. ASSUME NEW s \in Requests
      PROVE  CallInv(requests'[s], taken'[s], failures')
  <2>1. CASE s = r
    <3>1. requests'[s] = p /\ taken'[s] = n
      BY <2>1 DEF AnswerInv
    <3> QED
      BY <3>1
  <2>2. CASE s # r
    <3>1. requests'[s] = requests[s] /\ taken'[s] = taken[s]
      BY <2>2 DEF AnswerInv
    <3>2. CallInv(requests[s], taken[s], failures)
      BY DEF CallsInv
    <3> QED
      BY <3>1, <3>2, MoreFailed
  <2> QED
    BY <2>1, <2>2
<1>2. \A s \in Requests : CallInv(requests[s], taken[s], failures)'
  BY <1>1, CallStays DEF CallInv
<1> QED
  BY <1>2 DEF CallsInv

\* A request arrives.
LEMMA CallsBegin ==
  ASSUME AnswerInv, CacheInv, PoolsInv, CallsInv, NEW r \in Requests, Begin(r)
  PROVE  CallsInv'
<1>1. PICK q : Arrives(r, q)
  BY BeginRequest
<1>2. /\ requests[r].phase = "new"
      /\ UNCHANGED <<contract, legacy, supportCache, schemas, taken, failures>>
  BY DEF Begin
<1>3. Begun(q, failures)
  BY <1>1 DEF Arrives, Begun, PoolsInv
<1>4. \A k \in DOMAIN Asks(q) : ~(k < 1)
  BY AsksLength
<1>5. taken[r] = 0
  BY <1>2 DEF AnswerInv, RequestInv
<1>6. CallInv(Resume(q, 1, supportCache), 0, failures)
  <2>1. 1 \in 1..4
    BY SMT
  <2>2. /\ contract \in Contracts
        /\ supportCache \in [Interfaces -> {"unknown", "true", "false"}]
    BY DEF AnswerInv
  <2>3. failures = {} =>
           \A j \in Interfaces : \/ supportCache[j] = "unknown"
                                 \/ (supportCache[j] = "true") <=> j \in contract.supports
    BY DEF CacheInv
  <2> QED
    BY <1>1, <1>3, <1>4, <2>1, <2>2, <2>3, ResumeCalls DEF Arrives
<1> QED
  BY <1>1, <1>2, <1>5, <1>6, CallsOne DEF Arrives

\* Its query is answered or fails.
LEMMA CallsInterface ==
  ASSUME AnswerInv, AnswerInv', CacheInv', CallsInv, NEW r \in Requests,
         NEW support, requests[r].phase = "asking", InterfaceKnown(r, support),
         failures \subseteq failures',
         failures' = {} =>
            (support <=> Asks(requests[r])[requests[r].asked] \in contract.supports)
  PROVE  CallsInv'
<1> DEFINE req == requests[r]
           iid == Asks(req)[req.asked]
           p == IF support THEN Resolved(req, iid)
                ELSE Resume(req, req.asked + 1, supportCache')
<1>1. /\ requests' = [requests EXCEPT ![r] = p]
      /\ UNCHANGED <<contract, legacy, schemas, taken>>
  BY DEF InterfaceKnown
<1>2. RequestInv(req, taken[r]) /\ CallInv(req, taken[r], failures)
  BY DEF AnswerInv, CallsInv
<1>3. Shaped(req) /\ req.asked \in 0..3 /\ req.asked \in DOMAIN Asks(req) /\ taken[r] = 0
  BY <1>2 DEF RequestInv
<1>4. /\ req.asked + 1 \in 1..4
      /\ DOMAIN Asks(req) = 1..Len(Asks(req)) /\ Len(Asks(req)) \in 0..3
      /\ iid \in Interfaces
  BY <1>3, AsksLength
<1>5. Begun(req, failures')
  BY <1>2, MoreFailed DEF CallInv
<1>6. CASE support
  <2>1. req.dto.operation # "pool" /\ failures' = {} => Found(req, iid)
    BY <1>3, <1>6, OneInterface DEF Found
  <2>2. CallInv(Resolved(req, iid), 0, failures')
    BY <1>3, <1>4, <1>5, <2>1, ResolvedCalls DEF Founds
  <2>3. CallInv(p, 0, failures')
    BY <1>6, <2>2
  <2> HIDE DEF p
  <2> QED
    BY <1>1, <1>3, <2>3, CallsOne
<1>7. CASE ~support
  <2>1. ASSUME failures' = {}, req.dto.operation # "pool",
               NEW k \in DOMAIN Asks(req), k < req.asked + 1
        PROVE  Asks(req)[k] \notin contract.supports
    BY <1>3, <1>7, <2>1, OneInterface
  <2>2. /\ contract \in Contracts
        /\ supportCache' \in [Interfaces -> {"unknown", "true", "false"}]
    BY DEF AnswerInv
  <2>3. failures' = {} =>
           \A j \in Interfaces : \/ supportCache'[j] = "unknown"
                                 \/ (supportCache'[j] = "true") <=> j \in contract.supports
    BY <1>1 DEF CacheInv
  <2>4. CallInv(Resume(req, req.asked + 1, supportCache'), 0, failures')
    BY <1>3, <1>4, <1>5, <2>1, <2>2, <2>3, ResumeCalls
  <2>5. CallInv(p, 0, failures')
    BY <1>7, <2>4
  <2> HIDE DEF p
  <2> QED
    BY <1>1, <1>3, <2>5, CallsOne
<1> QED
  BY <1>6, <1>7

\* A request that is sent, answered or sent again makes the same call.
LEMMA CallMoves ==
  ASSUME NEW q, NEW n, NEW failed, CallInv(q, n, failed),
         q.phase \in {"sending", "submitted", "duplicate"},
         NEW p, p.dto = q.dto, p.schema = q.schema, p.call = q.call,
         p.phase \in {"sending", "submitted", "duplicate", "accepted", "conflict", "failed"},
         NEW k
  PROVE  CallInv(p, k, failed)
<1>1. Begun(q, failed) /\ q.dto.operation # "pool" /\ Called(q, failed)
  BY DEF CallInv
<1>2. Begun(p, failed)
  BY <1>1, SameCall
<1>3. \A found : CallOf(p, found) = CallOf(q, found) /\ (Found(p, found) <=> Found(q, found))
  BY SameCall
<1>4. Called(p, failed)
  BY <1>1, <1>3 DEF Called
<1> QED
  BY <1>1, <1>2, <1>4 DEF CallInv

\* A pool that is read, or not, has sent nothing.
LEMMA CallReads ==
  ASSUME NEW q, NEW failed, CallInv(q, 0, failed), q.phase = "reading",
         NEW p, p.dto = q.dto, p.schema = q.schema,
         p.phase \in {"created", "refused", "failed"}
  PROVE  CallInv(p, 0, failed)
<1>1. Begun(q, failed) /\ q.dto.operation = "pool"
  BY DEF CallInv, Called
<1>2. Begun(p, failed)
  BY <1>1, SameCall
<1> QED
  BY <1>1, <1>2 DEF CallInv

\* Every step keeps CallsInv.
LEMMA CallsStep ==
  ASSUME AnswerInv, AnswerInv', CacheInv, CacheInv', PoolsInv, CallsInv, [Next]_vars
  PROVE  CallsInv'
<1>1. CASE \E r \in Requests : Begin(r)
  BY <1>1, CallsBegin
<1>2. ASSUME NEW r \in Requests, Step(r)
      PROVE  CallsInv'
  <2> DEFINE req == requests[r]
             Moves(x) == [req EXCEPT !.phase = x]
  <2>1. RequestInv(req, taken[r]) /\ CallInv(req, taken[r], failures) /\ Shaped(req)
    BY DEF AnswerInv, CallsInv, RequestInv
  <2>2. \A x : /\ Moves(x).phase = x /\ Moves(x).dto = req.dto
               /\ Moves(x).schema = req.schema /\ Moves(x).call = req.call
    BY <2>1, ExceptPhase
  <2>3. CASE QueryAnswered(r)
    BY <2>3, CallsInterface DEF QueryAnswered
  <2>4. CASE QueryFailed(r)
    <3>1. failures' # {} /\ failures \subseteq failures'
      BY <2>4 DEF QueryFailed
    <3> QED
      BY <2>4, <3>1, CallsInterface DEF QueryFailed
  <2>5. CASE PoolRead(r) \/ PoolUnread(r)
    <3>1. PICK x \in {"created", "refused", "failed"} :
            /\ requests' = [requests EXCEPT ![r] = Moves(x)] /\ req.phase = "reading"
            /\ UNCHANGED <<contract, legacy, taken, failures>>
      BY <2>5 DEF PoolRead, PoolUnread
    <3>2. taken[r] = 0
      BY <2>1, <3>1 DEF RequestInv
    <3> DEFINE p == Moves(x)
    <3>3. /\ p.phase = x /\ p.dto = req.dto /\ p.schema = req.schema
          /\ requests' = [requests EXCEPT ![r] = p]
      BY <2>2, <3>1
    <3> HIDE DEF Moves, p
    <3>4. CallInv(p, 0, failures)
      BY <2>1, <3>1, <3>2, <3>3, CallReads
    <3> QED
      BY <3>1, <3>2, <3>3, <3>4, CallsOne
  <2>6. CASE Taken(r) \/ Accepted(r) \/ Conflict(r) \/ Rejected(r)
    <3>1. PICK x \in {"submitted", "duplicate", "accepted", "conflict", "failed"},
               k \in {taken[r], taken[r] + 1} :
            /\ requests' = [requests EXCEPT ![r] = Moves(x)]
            /\ req.phase \in {"sending", "submitted", "duplicate"}
            /\ \/ taken' = taken /\ k = taken[r]
               \/ taken' = [taken EXCEPT ![r] = k]
            /\ UNCHANGED <<contract, legacy, failures>>
      BY <2>6 DEF Taken, Accepted, Conflict, Rejected, Answer
    <3> DEFINE p == Moves(x)
    <3>2. /\ p.phase = x /\ p.dto = req.dto /\ p.schema = req.schema /\ p.call = req.call
          /\ requests' = [requests EXCEPT ![r] = p]
      BY <2>2, <3>1
    <3> HIDE DEF Moves, p
    <3>3. CallInv(p, k, failures)
      BY <2>1, <3>1, <3>2, CallMoves
    <3> QED
      BY <3>1, <3>2, <3>3, CallsOne
  <2>7. CASE ConnectionFails(r)
    <3> DEFINE p == Retry(req)
    <3>1. /\ requests' = [requests EXCEPT ![r] = p]
          /\ req.phase \in {"sending", "submitted", "duplicate"}
          /\ UNCHANGED <<contract, legacy, taken, failures>>
      BY <2>7 DEF ConnectionFails
    <3>2. /\ p.phase \in {"sending", "failed"}
          /\ p.dto = req.dto /\ p.schema = req.schema /\ p.call = req.call
      BY <2>1, RetryMoves
    <3> HIDE DEF p
    <3>3. CallInv(p, taken[r], failures)
      BY <2>1, <3>1, <3>2, CallMoves
    <3> QED
      BY <3>1, <3>3, CallsOne
  <2> QED
    BY <1>2, <2>3, <2>4, <2>5, <2>6, <2>7 DEF Step
<1>3. CASE Evict \/ UNCHANGED vars
  <2>1. UNCHANGED <<contract, legacy, requests, taken, failures>>
    BY <1>3 DEF Evict, vars
  <2>2. \A r \in Requests : CallInv(requests'[r], taken'[r], failures')
    BY <2>1 DEF CallsInv
  <2>3. \A r \in Requests : CallInv(requests[r], taken[r], failures)'
    BY <2>1, <2>2, CallStays DEF CallInv
  <2> QED
    BY <2>3 DEF CallsInv
<1>4. CASE Restart
  <2> DEFINE lost == [NoRequest EXCEPT !.phase = "lost"]
  <2>1. /\ UNCHANGED <<contract, legacy, taken, failures>>
        /\ \A r \in Requests : requests'[r] = requests[r] \/ requests'[r] = lost
    BY <1>4 DEF Restart
  <2>2. lost.phase = "lost" /\ lost.call = NoMethod
    BY NoRequestShape, ExceptPhase
  <2> HIDE DEF lost
  <2>3. \A r \in Requests : CallInv(lost, taken[r], failures)
    BY <2>2 DEF CallInv
  <2>4. \A r \in Requests : CallInv(requests'[r], taken'[r], failures')
    BY <2>1, <2>3 DEF CallsInv
  <2>5. \A r \in Requests : CallInv(requests[r], taken[r], failures)'
    BY <2>1, <2>4, CallStays DEF CallInv
  <2> QED
    BY <2>5 DEF CallsInv
<1> QED
  BY <1>1, <1>2, <1>3, <1>4 DEF Next

\* CallsInv holds at first.
LEMMA CallsInit ==
  ASSUME Init
  PROVE  CallsInv
<1>1. CallInv(NoRequest, 0, {})
  BY NoRequestShape DEF CallInv
<1> QED
  BY <1>1 DEF Init, CallsInv

RequestsInv == AnswerInv /\ CacheInv /\ PoolsInv /\ CallsInv

\* The inductive invariant of all requests.
LEMMA RequestsInvariant == Spec => []RequestsInv
<1>1. Init => RequestsInv
  <2>1. SUFFICES ASSUME Init
                 PROVE  CacheInv /\ PoolsInv
    BY AnswerInit, CallsInit DEF RequestsInv
  <2>2. CacheInv
    BY <2>1 DEF Init, CacheInv
  <2>3. schemas \subseteq {SchemaFor(TrueInterface)}
    BY <2>1 DEF Init
  <2>4. Believes(NoRequest)
    BY NoRequestShape, BelievesNothing
  <2> QED
    BY <2>1, <2>2, <2>3, <2>4 DEF Init, PoolsInv
<1>2. RequestsInv /\ [Next]_vars => RequestsInv'
  BY AnswerStep, CacheStep, PoolsStep, CallsStep DEF RequestsInv
<1> QED
  BY <1>1, <1>2, PTL DEF Spec

\* Only a failed query makes the connector believe what is not so, of an interface or
\* of the schema of a pool (supportsInterface, getTokenSchema).
THEOREM OnlyFailuresEverMislead == Spec => []OnlyFailuresMislead
<1>1. RequestsInv => OnlyFailuresMislead
  BY DEF RequestsInv, CacheInv, PoolsInv, OnlyFailuresMislead
<1> QED
  BY <1>1, RequestsInvariant, PTL

\* A call that an operation sent, or was refused, is the one for an interface that was
\* found; no call that was sent is refused.
LEMMA InvocationCall ==
  ASSUME RequestsInv, NEW r \in Requests, requests[r].dto.operation \in Invocations,
         requests[r].phase \in Answered \cup {"sending", "submitted", "duplicate"}
  PROVE  /\ requests[r].phase # "refused" => requests[r].call # BadRequest
         /\ \E found \in Founds :
               /\ requests[r].call = InvokeCall(requests[r], found)
               /\ failures = {} => Found(requests[r], found)
<1>1. CallInv(requests[r], taken[r], failures)
  BY DEF RequestsInv, CallsInv
<1>2. requests[r].dto.operation \notin {"pool", "create"}
  BY DEF Invocations
<1>3. Called(requests[r], failures)
  BY <1>1, <1>2 DEF CallInv, Answered
<1> QED
  BY <1>2, <1>3 DEF Called, CallOf

\* What a transaction does to the contract is what the request asked for, for any of
\* the contract's methods (the map() of each signature of erc20.ts and erc721.ts).
THEOREM TransactionsDoWhatWasAsked == Spec => []DoesWhatWasAsked
<1>1. RequestsInv => DoesWhatWasAsked
  <2>1. SUFFICES ASSUME RequestsInv, NEW r \in Requests, Sent(r),
                        requests[r].dto.operation \in Invocations
                 PROVE  Meaning(requests[r].call, requests[r].dto.signer, Fungible)
                            = Asked(requests[r].dto, Fungible)
    BY DEF DoesWhatWasAsked
  <2> DEFINE req == requests[r]
  <2>2. RequestInv(req, taken[r]) /\ CallInv(req, taken[r], failures)
    BY <2>1 DEF RequestsInv, AnswerInv, CallsInv
  <2>3. req.phase \in Answered \cup {"sending", "submitted", "duplicate"}
    BY <2>1, <2>2 DEF Sent, RequestInv, CallInv, Phases, Working
  <2>4. PICK found \in Founds : req.call = InvokeCall(req, found)
    BY <2>1, <2>3, InvocationCall
  <2>5. \E abi : req.call = GetMethodAndParams(abi, Fungible, req.dto)
    BY <2>4 DEF InvokeCall
  <2>6. Fungible \in BOOLEAN /\ req.dto.operation \in TokenOperations
    BY <2>1 DEF Fungible, Invocations, TokenOperations
  <2> QED
    BY <2>1, <2>5, <2>6, CallsDoWhatWasAsked DEF Sent
<1> QED
  BY <1>1, RequestsInvariant, PTL

\* A caller that hands back what checkInterface answered for the operation gets the
\* call that the whole interface of the contract would have given (checkInterface,
\* getAllMethods).
THEOREM InterfaceAlwaysSuffices == Spec => []InterfaceSuffices
<1>1. RequestsInv => InterfaceSuffices
  <2>1. SUFFICES ASSUME RequestsInv, NEW r \in Requests,
                        requests[r].phase \in Answered \cup {"sending"},
                        requests[r].dto.operation \in Invocations,
                        requests[r].dto.hasInterface
                 PROVE  requests[r].call
                            = GetMethodAndParams(contract.abi, Fungible, requests[r].dto)
    BY DEF InterfaceSuffices
  <2> DEFINE req == requests[r]
  <2>2. PICK found \in Founds : req.call = InvokeCall(req, found)
    BY <2>1, InvocationCall
  <2>3. req.call = GetMethodAndParams(GetAllMethods(contract.abi, Fungible, req.dto),
                                      Fungible, req.dto)
    BY <2>1, <2>2 DEF InvokeCall
  <2>4. req.dto.operation \in TokenOperations
    BY <2>1 DEF Invocations, TokenOperations
  <2> QED
    BY <2>3, <2>4, KnownMethodsSuffice
<1> QED
  BY <1>1, RequestsInvariant, PTL

\* The ABI that is chosen for the true schema of a contract is one that the contract
\* has the methods of, unless it does not conform.
LEMMA TrueAbi ==
  ASSUME contract \in Contracts, legacy \in BOOLEAN, contract.type # "factory", Conforms,
         NEW q, NEW found, q.dto.operation \in Invocations, ~q.dto.hasInterface,
         q.schema = SchemaFor(TrueInterface), Found(q, found)
  PROVE  /\ AbiFor(q.schema, found) \subseteq contract.abi
         /\ AbiFor(q.schema, found) \in IF Fungible THEN FungibleABIs ELSE NonfungibleABIs
<1>1. contract.type \in {"fungible", "nonfungible"}
  BY RequestsAssumption
<1>2. CASE TrueInterface = "none"
  <2>1. Fallback \subseteq contract.abi
    BY <1>2 DEF Conforms
  <2>2. q.schema = IF Fungible THEN "ERC20NoData" ELSE "ERC721NoData"
    BY <1>2 DEF SchemaFor
  <2>3. AbiFor(q.schema, found) = Fallback
    BY <2>2 DEF AbiFor, Fallback
  <2>4. Fallback \in IF Fungible THEN FungibleABIs ELSE NonfungibleABIs
    BY DEF Fallback, FungibleABIs, NonfungibleABIs
  <2> QED
    BY <2>1, <2>3, <2>4
<1>3. CASE TrueInterface # "none"
  <2>1. TrueInterface \in contract.supports
    BY <1>3 DEF TrueInterface
  <2>2. /\ TrueInterface \in Interfaces /\ OfType(TrueInterface) = contract.type
        /\ \A j \in contract.supports : j = TrueInterface
    BY <2>1, RequestsAssumption
  <2>3. Promised[TrueInterface] \subseteq contract.abi
    BY <1>3 DEF Conforms
  <2>4. CASE TrueInterface = "ERC20WithDataIID"
    <3>1. Fungible /\ q.schema = "ERC20WithData"
      BY <2>2, <2>4 DEF Fungible, OfType, SchemaFor
    <3> QED
      BY <2>3, <2>4, <3>1 DEF AbiFor, Promised, FungibleABIs
  <2>5. CASE TrueInterface = "ERC721WithDataV2IID"
    <3>1. ~Fungible /\ q.schema = "ERC721WithDataV2"
      BY <2>2, <2>5 DEF Fungible, OfType, SchemaFor
    <3> QED
      BY <2>3, <2>5, <3>1 DEF AbiFor, Promised, NonfungibleABIs
  <2>6. CASE TrueInterface \in {"ERC721WithDataV1bIID", "ERC721WithDataV1aIID"}
    <3>1. ~Fungible /\ q.schema = "ERC721WithData"
      BY <2>2, <2>6 DEF Fungible, OfType, SchemaFor
    <3>2. Asks(q) = <<"ERC721WithDataV1bIID">>
      BY <3>1 DEF Asks, Invocations
    <3>3. (found = "ERC721WithDataV1bIID") <=> (TrueInterface = "ERC721WithDataV1bIID")
      BY <2>1, <2>2, <3>2 DEF Found
    <3> QED
      BY <2>3, <2>6, <3>1, <3>3 DEF AbiFor, Promised, NonfungibleABIs
  <2>7. TrueInterface # "TokenFactoryIID"
    BY <2>2 DEF OfType
  <2> QED
    BY <2>2, <2>4, <2>5, <2>6, <2>7 DEF Interfaces
<1> QED
  BY <1>2, <1>3

\* The factory's method takes the five arguments that it is given once its interface
\* was found.
LEMMA CreateFits ==
  /\ CreateCall("TokenFactoryIID").method \in TokenFactoryABI
  /\ Len(CreateCall("TokenFactoryIID").params)
        = Len(CreateCall("TokenFactoryIID").method.inputs)
<1> DEFINE create == Method("create", <<"string", "string", "bool", "bytes", "string">>)
<1>1. TokenFactoryABI = {create} /\ create.name = "create"
  BY DEF TokenFactoryABI, Method
<1>2. CreateCall("TokenFactoryIID").method = create
  BY <1>1 DEF CreateCall
<1>3. Len(create.inputs) = 5
  BY DEF Method
<1>4. Len(CreateCall("TokenFactoryIID").params) = 5
  BY DEF CreateCall
<1> QED
  BY <1>1, <1>2, <1>3, <1>4

\* A transaction calls a method that the contract has, with all its arguments, unless
\* the contract does not conform to the README or a query had failed
\* (getMethodAndParams, getCreateMethodAndParams).
THEOREM MethodsAreOnTheContract == Spec => []MethodOnContract
<1>1. RequestsInv => MethodOnContract
  <2>1. SUFFICES ASSUME RequestsInv, NEW r \in Requests, taken[r] > 0,
                        requests[r].phase # "lost"
                 PROVE  IF requests[r].dto.hasInterface
                        THEN requests[r].call = NoMethod
                                \/ requests[r].call.method \in contract.abi
                        ELSE Conforms /\ failures = {} =>
                                /\ requests[r].call.method \in contract.abi
                                /\ Len(requests[r].call.params)
                                      = Len(requests[r].call.method.inputs)
    BY DEF MethodOnContract
  <2> DEFINE req == requests[r]
             call == req.call
  <2>2. /\ RequestInv(req, taken[r]) /\ CallInv(req, taken[r], failures)
        /\ contract \in Contracts /\ legacy \in BOOLEAN
    BY <2>1 DEF RequestsInv, AnswerInv, CallsInv
  <2>3. req.phase \in {"sending", "submitted", "duplicate", "accepted", "conflict", "failed"}
    BY <2>1, <2>2 DEF RequestInv, Phases, Working, Answered
  <2>4. /\ Begun(req, failures) /\ req.dto.operation # "pool"
        /\ Called(req, failures) /\ call # BadRequest
    BY <2>1, <2>2, <2>3 DEF CallInv, Called
  <2>5. req.dto.operation \in Invocations \/ req.dto.operation = "create"
    BY <2>4 DEF Begun, Fits
  <2>6. CASE req.dto.operation = "create"
    <3>1. contract.type = "factory" /\ ~req.dto.hasInterface
      BY <2>4, <2>6 DEF Begun, Fits, Invocations
    <3>2. SUFFICES ASSUME Conforms, failures = {}
                   PROVE  /\ call.method \in contract.abi
                          /\ Len(call.params) = Len(call.method.inputs)
      BY <3>1
    <3>3. PICK found \in Founds : call = CreateCall(found) /\ Found(req, found)
      BY <2>4, <2>6, <3>2 DEF Called, CallOf
    <3>4. TrueInterface # "none"
      BY <3>1, <3>2 DEF Conforms
    <3>5. TrueInterface \in contract.supports
      BY <3>4 DEF TrueInterface
    <3>6. TrueInterface \in Interfaces /\ OfType(TrueInterface) = "factory"
      BY <2>2, <3>1, <3>5, RequestsAssumption
    <3>7. TrueInterface = "TokenFactoryIID"
      BY <3>6 DEF Interfaces, OfType
    <3>8. Asks(req) = <<"TokenFactoryIID">>
      BY <2>6 DEF Asks
    <3>9. found = "TokenFactoryIID"
      BY <3>3, <3>5, <3>7, <3>8 DEF Found
    <3>10. TokenFactoryABI \subseteq contract.abi
      BY <3>2, <3>7 DEF Conforms, Promised
    <3> QED
      BY <3>3, <3>9, <3>10, CreateFits
  <2>7. CASE req.dto.operation \in Invocations
    <3>1. PICK found \in Founds : /\ call = InvokeCall(req, found)
                                  /\ failures = {} => Found(req, found)
      BY <2>1, <2>3, <2>7, InvocationCall DEF Answered
    <3>2. Fungible \in BOOLEAN /\ req.dto.operation \in TokenOperations
      BY <2>7 DEF Fungible, Invocations, TokenOperations
    <3>3. CASE req.dto.hasInterface
      <4>1. call = GetMethodAndParams(GetAllMethods(contract.abi, Fungible, req.dto),
                                      Fungible, req.dto)
        BY <3>1, <3>3 DEF InvokeCall
      <4>2. call = NoMethod \/ call.method \in GetAllMethods(contract.abi, Fungible, req.dto)
        BY <2>4, <3>2, <4>1, CallsAreOfTheAbi
      <4> QED
        BY <3>3, <4>2 DEF GetAllMethods
    <3>4. CASE ~req.dto.hasInterface
      <4>1. SUFFICES ASSUME Conforms, failures = {}
                     PROVE  /\ call.method \in contract.abi
                            /\ Len(call.params) = Len(call.method.inputs)
        BY <3>4
      <4> DEFINE abi == AbiFor(req.schema, found)
      <4>2. call = GetMethodAndParams(abi, Fungible, req.dto)
        BY <3>1, <3>4 DEF InvokeCall
      <4>3. contract.type # "factory" /\ req.schema = SchemaFor(TrueInterface)
        BY <2>4, <2>7, <4>1 DEF Begun, Fits, Invocations
      <4>4. abi \subseteq contract.abi /\ abi \in IF Fungible THEN FungibleABIs ELSE NonfungibleABIs
        BY <2>2, <2>7, <3>1, <3>4, <4>1, <4>3, TrueAbi
      <4> HIDE DEF abi
      <4> QED
        BY <2>4, <3>2, <4>2, <4>4, AbisServe
    <3> QED
      BY <3>3, <3>4
  <2> QED
    BY <2>5, <2>6, <2>7
<1> QED
  BY <1>1, RequestsInvariant, PTL

\* The step of a request, and the answer that it brings closer.
Nears(q, p) ==
    \/ p.phase \notin Working
    \/ 0 < StepsLeft(p) /\ StepsLeft(p) < StepsLeft(q)

\* The steps left in each phase, as a choice of cases that do not overlap.
LEMMA StepsLeftByPhase ==
  ASSUME NEW q, q.phase \in Working
  PROVE  /\ q.phase = "asking" => StepsLeft(q) = (4 - q.asked) + 2 * (RetriesMax + 1)
         /\ q.phase = "reading" => StepsLeft(q) = 1
         /\ q.phase = "sending" => StepsLeft(q) = 2 * (RetriesMax + 1 - q.retries)
         /\ q.phase \in {"submitted", "duplicate"} =>
               StepsLeft(q) = 2 * (RetriesMax + 1 - q.retries) - 1
  BY DEF StepsLeft, Working

\* A query that is answered or fails leads to a later one, or past all of them.
LEMMA QueryNears ==
  ASSUME AnswerInv, NEW r \in Requests, NEW support, requests[r].phase = "asking",
         InterfaceKnown(r, support)
  PROVE  \E p : requests' = [requests EXCEPT ![r] = p] /\ Nears(requests[r], p)
<1> DEFINE req == requests[r]
           iid == Asks(req)[req.asked]
           p == IF support THEN Resolved(req, iid)
                ELSE Resume(req, req.asked + 1, supportCache')
<1>1. /\ Shaped(req) /\ req.retries \in 0..RetriesMax /\ req.asked \in 0..3
      /\ req.asked \in DOMAIN Asks(req) /\ RetriesMax \in Nat
  BY RequestsAssumption DEF AnswerInv, RequestInv
<1>2. requests' = [requests EXCEPT ![r] = p]
  BY DEF InterfaceKnown
<1>3. /\ Advances(req, p)
      /\ p.phase = "asking" => p.asked > req.asked
  <2>1. CASE support
    BY <1>1, <2>1, ResolvedAdvances
  <2>2. CASE ~support
    <3> DEFINE i == req.asked + 1
    <3>1. i \in 1..4
      BY <1>1
    <3>2. p = Resume(req, i, supportCache')
      BY <2>2
    <3>3. Open(req, i, supportCache') \subseteq i..Len(Asks(req)) /\ Len(Asks(req)) \in Nat
      BY AsksLength DEF Open
    <3> HIDE DEF i, p
    <3>4. /\ Advances(req, p)
          /\ \/ p.phase # "asking"
             \/ p.asked \in Open(req, i, supportCache')
      BY <1>1, <3>1, <3>2, ResumeAdvances, ResolvedAdvances
    <3>5. i = req.asked + 1
      BY DEF i
    <3> QED
      BY <1>1, <3>1, <3>3, <3>4, <3>5
  <2> QED
    BY <2>1, <2>2
<1> HIDE DEF p
<1>4. StepsLeft(req) = (4 - req.asked) + 2 * (RetriesMax + 1)
  BY StepsLeftByPhase DEF Working
<1>5. /\ p.phase \in {"asking", "reading", "refused", "sending"}
      /\ p.asked \in 0..3 /\ p.retries = req.retries
  BY <1>3 DEF Advances
<1>6. Nears(req, p)
  <2>1. CASE p.phase = "asking"
    <3>1. StepsLeft(p) = (4 - p.asked) + 2 * (RetriesMax + 1)
      BY <2>1, StepsLeftByPhase DEF Working
    <3> QED
      BY <1>1, <1>3, <1>4, <1>5, <2>1, <3>1 DEF Nears
  <2>2. CASE p.phase = "reading"
    <3>1. StepsLeft(p) = 1
      BY <2>2, StepsLeftByPhase DEF Working
    <3> QED
      BY <1>1, <1>4, <3>1 DEF Nears
  <2>3. CASE p.phase = "sending"
    <3>1. StepsLeft(p) = 2 * (RetriesMax + 1 - p.retries)
      BY <2>3, StepsLeftByPhase DEF Working
    <3> QED
      BY <1>1, <1>4, <1>5, <3>1 DEF Nears
  <2>4. CASE p.phase = "refused"
    BY <2>4 DEF Nears, Working
  <2> QED
    BY <1>5, <2>1, <2>2, <2>3, <2>4
<1> QED
  BY <1>2, <1>6

\* A transaction that is taken waits for its answer only; one whose connection fails has
\* one attempt less.
LEMMA SendingNears ==
  ASSUME NEW q, NEW p, q.phase \in Working, q.retries \in 0..RetriesMax,
         \/ /\ q.phase = "sending" /\ p.phase \in {"submitted", "duplicate"}
            /\ p.retries = q.retries
         \/ /\ q.phase \in {"sending", "submitted", "duplicate"} /\ p.phase = "sending"
            /\ p.retries = q.retries + 1 /\ p.retries <= RetriesMax
  PROVE  Nears(q, p)
<1>1. RetriesMax \in Nat /\ p.phase \in Working
  BY RequestsAssumption DEF Working
<1>2. CASE q.phase = "sending" /\ p.phase \in {"submitted", "duplicate"}
  <2>1. /\ StepsLeft(q) = 2 * (RetriesMax + 1 - q.retries)
        /\ StepsLeft(p) = 2 * (RetriesMax + 1 - p.retries) - 1
    BY <1>1, <1>2, StepsLeftByPhase
  <2>2. p.retries = q.retries
    BY <1>2
  <2> QED
    BY <1>1, <2>1, <2>2 DEF Nears
<1>3. CASE /\ q.phase \in {"sending", "submitted", "duplicate"} /\ p.phase = "sending"
           /\ p.retries = q.retries + 1 /\ p.retries <= RetriesMax
  <2>1. /\ StepsLeft(q) \in {2 * (RetriesMax + 1 - q.retries),
                             2 * (RetriesMax + 1 - q.retries) - 1}
        /\ StepsLeft(p) = 2 * (RetriesMax + 1 - p.retries)
    BY <1>1, <1>3, StepsLeftByPhase
  <2> QED
    BY <1>1, <1>3, <2>1 DEF Nears
<1> QED
  BY <1>2, <1>3

\* Each step of a request nears its answer.
LEMMA StepNears ==
  ASSUME AnswerInv, NEW r \in Requests, Step(r)
  PROVE  \E p : requests' = [requests EXCEPT ![r] = p] /\ Nears(requests[r], p)
<1> DEFINE req == requests[r]
           Moves(x) == [req EXCEPT !.phase = x]
<1>1. Shaped(req) /\ req.retries \in 0..RetriesMax
  BY DEF AnswerInv, RequestInv
<1>2. \A x : /\ Moves(x).phase = x /\ Moves(x).retries = req.retries
  BY <1>1, ExceptPhase
<1>3. CASE QueryAnswered(r) \/ QueryFailed(r)
  <2>1. PICK support : InterfaceKnown(r, support)
    BY <1>3 DEF QueryAnswered, QueryFailed
  <2>2. req.phase = "asking"
    BY <1>3 DEF QueryAnswered, QueryFailed
  <2> QED
    BY <2>1, <2>2, QueryNears
<1>4. CASE PoolRead(r) \/ PoolUnread(r) \/ Accepted(r) \/ Conflict(r) \/ Rejected(r)
  <2>1. PICK x \in Answered : requests' = [requests EXCEPT ![r].phase = x]
    BY <1>4 DEF PoolRead, PoolUnread, Accepted, Conflict, Rejected, Answer, Answered
  <2>2. requests' = [requests EXCEPT ![r] = Moves(x)]
    BY <2>1
  <2>3. x \notin Working
    BY <2>1 DEF Answered, Working
  <2> HIDE DEF Moves
  <2> QED
    BY <1>2, <2>2, <2>3 DEF Nears
<1>5. CASE Taken(r)
  <2>1. PICK x \in {"submitted", "duplicate"} : /\ requests' = [requests EXCEPT ![r].phase = x]
                                                /\ req.phase = "sending"
    BY <1>5 DEF Taken
  <2>2. requests' = [requests EXCEPT ![r] = Moves(x)]
    BY <2>1
  <2> HIDE DEF Moves
  <2>3. Nears(req, Moves(x))
    BY <1>1, <1>2, <2>1, SendingNears DEF Working
  <2> QED
    BY <2>2, <2>3
<1>6. CASE ConnectionFails(r)
  <2> DEFINE p == Retry(req)
  <2>1. /\ requests' = [requests EXCEPT ![r] = p]
        /\ req.phase \in {"sending", "submitted", "duplicate"}
    BY <1>6 DEF ConnectionFails
  <2>2. \/ p.phase = "sending" /\ p.retries = req.retries + 1 /\ req.retries + 1 <= RetriesMax
        \/ p.phase = "failed"
    BY <1>1, RetryMoves
  <2> HIDE DEF p
  <2>3. CASE p.phase = "failed"
    BY <2>1, <2>3 DEF Nears, Working
  <2>4. CASE p.phase # "failed"
    <3>1. Nears(req, p)
      BY <1>1, <2>1, <2>2, <2>4, SendingNears DEF Working
    <3> QED
      BY <2>1, <3>1
  <2> QED
    BY <2>3, <2>4
<1> QED
  BY <1>3, <1>4, <1>5, <1>6 DEF Step

\* Whatever fails, and whatever other requests, evictions and restarts come between, each
\* step of a request brings it closer to its answer (getTokenSchema, retryableCall).
THEOREM AnswerAlwaysNears == Spec => AnswerNears
<1> DEFINE Nearer(r) == requests[r].phase \in Working /\ requests'[r] # requests[r] =>
                            \/ requests'[r].phase \notin Working
                            \/ /\ 0 < StepsLeft(requests'[r])
                               /\ StepsLeft(requests'[r]) < StepsLeft(requests[r])
<1>1. ASSUME AnswerInv, [Next]_vars, NEW r \in Requests
      PROVE  Nearer(r)
  <2>1. DOMAIN requests = Requests
    BY <1>1 DEF AnswerInv
  <2>2. CASE \E s \in Requests : Begin(s)
    <3>1. PICK s \in Requests : Begin(s)
      BY <2>2
    <3>2. \E q : requests' = [requests EXCEPT ![s] = q]
      BY <3>1, BeginRequest DEF Arrives
    <3>3. requests[s].phase = "new"
      BY <3>1 DEF Begin
    <3>4. r # s => requests'[r] = requests[r]
      BY <2>1, <3>2
    <3> QED
      BY <3>3, <3>4 DEF Working
  <2>3. ASSUME NEW s \in Requests, Step(s)
        PROVE  Nearer(r)
    <3>1. PICK p : requests' = [requests EXCEPT ![s] = p] /\ Nears(requests[s], p)
      BY <1>1, <2>3, StepNears
    <3>2. /\ requests'[s] = p
          /\ r # s => requests'[r] = requests[r]
      BY <2>1, <3>1
    <3> QED
      BY <3>1, <3>2 DEF Nears
  <2>4. CASE Evict \/ UNCHANGED vars
    BY <2>4 DEF Evict, vars
  <2>5. CASE Restart
    <3> DEFINE lost == [NoRequest EXCEPT !.phase = "lost"]
    <3>1. requests[r].phase \in Working => requests'[r] = lost
      BY <2>5 DEF Restart
    <3>2. lost.phase = "lost"
      BY NoRequestShape, ExceptPhase
    <3> HIDE DEF lost
    <3> QED
      BY <3>1, <3>2 DEF Working
  <2> QED
    BY <1>1, <2>2, <2>3, <2>4, <2>5 DEF Next
<1>2. RequestsInv => AnswerInv
  BY DEF RequestsInv
<1>3. AnswerInv /\ [Next]_vars => [\A r \in Requests : Nearer(r)]_vars
  BY <1>1
<1>4. RequestsInv /\ [Next]_vars => [\A r \in Requests : Nearer(r)]_vars
  BY <1>2, <1>3
<1> QED
  BY <1>4, RequestsInvariant, PTL DEF Spec, AnswerNears
=============================================================================
