-------------------------- MODULE TokenMethodsProofs --------------------------
(***************************************************************************)
(* Which method a token operation calls and what the call does, for any    *)
(* ABI and any operation: it is a method of the ABI that does what was     *)
(* asked for, and every built-in ABI has one for each operation.           *)
(***************************************************************************)
EXTENDS TokenMethods, Integers, TLAPS

TokenOperations == {"mint", "transfer", "burn", "approval"}

Params == DOMAIN ParamType

\* A call by this signature does what was asked for.
Does(signature, dto, isFungible) ==
    Meaning(Call(signature, dto), dto.signer, isFungible) = Asked(dto, isFungible)
-----------------------------------------------------------------------------
(* Sets of indices *)

\* Every set of indices up to n has its smallest.
HaveMin(n) == \A S \in SUBSET (1..n) : S # {} => \E m \in S : \A k \in S : m <= k

\* One more index makes no difference.
LEMMA OneMore ==
  ASSUME NEW n \in Nat, HaveMin(n)
  PROVE  HaveMin(n + 1)
<1>1. SUFFICES ASSUME NEW S \in SUBSET (1..n + 1), S # {}
               PROVE  \E m \in S : \A k \in S : m <= k
  BY DEF HaveMin
<1>2. CASE \A k \in S : k <= n
  <2>1. S \in SUBSET (1..n)
    BY <1>2
  <2> QED
    BY <1>1, <2>1 DEF HaveMin
<1>3. CASE n + 1 \in S /\ S \cap (1..n) = {}
  <2>1. \A k \in S : k = n + 1
    BY <1>3
  <2> QED
    BY <1>3, <2>1
<1>4. CASE S \cap (1..n) # {}
  <2>1. PICK m \in S \cap (1..n) : \A k \in S \cap (1..n) : m <= k
    BY <1>4 DEF HaveMin
  <2>2. \A k \in S : m <= k
    BY <2>1
  <2> QED
    BY <2>1, <2>2
<1> QED
  BY <1>1, <1>2, <1>3, <1>4

\* A set of indices of a list has its smallest: no list has more than nine.
LEMMA MinOf ==
  ASSUME NEW S, S \subseteq 1..9, S # {}
  PROVE  Min(S) \in S /\ \A k \in S : Min(S) <= k
<1>1. HaveMin(0)
  <2>1. \A S1 \in SUBSET (1..0) : S1 = {}
    OBVIOUS
  <2> QED
    BY <2>1 DEF HaveMin
<1>2. HaveMin(1) /\ HaveMin(2) /\ HaveMin(3)
  <2>1. /\ HaveMin(0) => HaveMin(0 + 1)
        /\ HaveMin(1) => HaveMin(1 + 1)
        /\ HaveMin(2) => HaveMin(2 + 1)
    BY OneMore
  <2> QED
    BY <1>1, <2>1
<1>3. HaveMin(4) /\ HaveMin(5) /\ HaveMin(6)
  <2>1. /\ HaveMin(3) => HaveMin(3 + 1)
        /\ HaveMin(4) => HaveMin(4 + 1)
        /\ HaveMin(5) => HaveMin(5 + 1)
    BY OneMore
  <2> QED
    BY <1>2, <2>1
<1>4. HaveMin(9)
  <2>1. /\ HaveMin(6) => HaveMin(6 + 1)
        /\ HaveMin(7) => HaveMin(7 + 1)
        /\ HaveMin(8) => HaveMin(8 + 1)
    BY OneMore
  <2> QED
    BY <1>3, <2>1
<1>5. \E m \in S : \A k \in S : m <= k
  BY <1>4 DEF HaveMin
<1> QED
  BY <1>5 DEF Min

\* The largest of a set of indices is its Max.
LEMMA MaxOf ==
  ASSUME NEW S, S \subseteq 1..9, NEW m \in S, \A k \in S : k <= m
  PROVE  Max(S) = m
<1>1. \E x \in S : \A y \in S : x >= y
  OBVIOUS
<1>2. Max(S) \in S /\ \A k \in S : Max(S) >= k
  BY <1>1 DEF Max
<1>3. Max(S) \in 1..9 /\ m \in 1..9 /\ Max(S) >= m /\ Max(S) <= m
  BY <1>2
<1> QED
  BY <1>3
-----------------------------------------------------------------------------
(* The arguments of a call *)

\* The type of each parameter.
LEMMA Types ==
  /\ ParamType["operator"] = "address" /\ ParamType["operatorOrZero"] = "address"
  /\ ParamType["from"] = "address" /\ ParamType["to"] = "address"
  /\ ParamType["amount"] = "uint256" /\ ParamType["tokenIndex"] = "uint256"
  /\ ParamType["allowance"] = "uint256" /\ ParamType["approved"] = "bool"
  /\ ParamType["data"] = "bytes" /\ ParamType["uri"] = "string"
  BY DEF ParamType

\* Where the arguments of a type are in a call of a signature.
LEMMA PlacesOfCall ==
  ASSUME NEW s, NEW dto, NEW type
  PROVE  /\ Places(Call(s, dto), type) =
               {i \in DOMAIN s.params : ParamType[s.params[i]] = type}
         /\ \A i \in DOMAIN s.params : Call(s, dto).params[i] = Argument(s.params[i], dto)
         /\ Call(s, dto).method.name = s.name
  BY DEF Places, Call, MethodOf, Method

\* The first argument of a type.
LEMMA FirstArgument ==
  ASSUME NEW s, NEW dto, NEW type, NEW default, DOMAIN s.params \subseteq 1..9,
         NEW k \in DOMAIN s.params, ParamType[s.params[k]] = type,
         \A j \in DOMAIN s.params : j < k => ParamType[s.params[j]] # type
  PROVE  FirstOf(Call(s, dto), type, default) = Argument(s.params[k], dto)
<1> DEFINE S == Places(Call(s, dto), type)
<1>1. S = {i \in DOMAIN s.params : ParamType[s.params[i]] = type}
  BY PlacesOfCall
<1>2. k \in S /\ S \subseteq 1..9
  BY <1>1
<1>3. Min(S) \in S /\ \A j \in S : Min(S) <= j
  BY <1>2, MinOf
<1>4. Min(S) = k
  BY <1>1, <1>2, <1>3
<1>5. FirstOf(Call(s, dto), type, default) = Call(s, dto).params[k]
  BY <1>2, <1>4 DEF FirstOf
<1> QED
  BY <1>5, PlacesOfCall

\* No argument of a type.
LEMMA NoArgument ==
  ASSUME NEW s, NEW dto, NEW type, NEW default,
         \A j \in DOMAIN s.params : ParamType[s.params[j]] # type
  PROVE  FirstOf(Call(s, dto), type, default) = default
<1>1. Places(Call(s, dto), type) = {}
  BY PlacesOfCall
<1> QED
  BY <1>1 DEF FirstOf

\* The last argument of a type.
LEMMA LastArgument ==
  ASSUME NEW s, NEW dto, NEW type, DOMAIN s.params \subseteq 1..9,
         NEW k \in DOMAIN s.params, ParamType[s.params[k]] = type,
         \A j \in DOMAIN s.params : j > k => ParamType[s.params[j]] # type
  PROVE  LastOf(Call(s, dto), type) = Argument(s.params[k], dto)
<1> DEFINE S == Places(Call(s, dto), type)
<1>1. S = {i \in DOMAIN s.params : ParamType[s.params[i]] = type}
  BY PlacesOfCall
<1>2. k \in S /\ S \subseteq 1..9 /\ \A j \in S : j <= k
  BY <1>1
<1>3. Max(S) = k
  BY <1>2, MaxOf
<1> QED
  BY <1>3, PlacesOfCall DEF LastOf

\* The parameters that hold addresses, and those that hold numbers.
Addresses == {"operator", "operatorOrZero", "from", "to"}
Numbers == {"amount", "tokenIndex", "allowance"}

\* They have these types, and no others do.
LEMMA TypesOfParams ==
  ASSUME NEW p \in Params
  PROVE  /\ ParamType[p] = "address" <=> p \in Addresses
         /\ ParamType[p] = "uint256" <=> p \in Numbers
         /\ ParamType[p] = "string" <=> p = "uri"
         /\ ParamType[p] = "bool" <=> p = "approved"
  BY Types DEF Params, ParamType, Addresses, Numbers

\* A list of parameters.
Listed(s) == DOMAIN s.params \subseteq 1..9 /\ \A j \in DOMAIN s.params : s.params[j] \in Params

\* The first address, if it comes first.
LEMMA FirstAddress ==
  ASSUME NEW s, Listed(s), NEW dto, NEW default,
         1 \in DOMAIN s.params, s.params[1] \in Addresses
  PROVE  FirstOf(Call(s, dto), "address", default) = Argument(s.params[1], dto)
<1>1. ParamType[s.params[1]] = "address"
  BY TypesOfParams DEF Listed
<1>2. \A j \in DOMAIN s.params : ~(j < 1)
  BY DEF Listed
<1>3. DOMAIN s.params \subseteq 1..9
  BY DEF Listed
<1> QED
  BY <1>1, <1>2, <1>3, FirstArgument

\* The first number.
LEMMA FirstNumber ==
  ASSUME NEW s, Listed(s), NEW dto, NEW k \in DOMAIN s.params, s.params[k] \in Numbers,
         \A j \in DOMAIN s.params : j < k => s.params[j] \notin Numbers
  PROVE  FirstOf(Call(s, dto), "uint256", Unset) = Argument(s.params[k], dto)
<1>1. ParamType[s.params[k]] = "uint256"
  BY TypesOfParams DEF Listed
<1>2. \A j \in DOMAIN s.params : j < k => ParamType[s.params[j]] # "uint256"
  BY TypesOfParams DEF Listed
<1>3. DOMAIN s.params \subseteq 1..9
  BY DEF Listed
<1> QED
  BY <1>1, <1>2, <1>3, FirstArgument

\* No address, no number, no URI.
LEMMA Without ==
  ASSUME NEW s, Listed(s), NEW dto, NEW default
  PROVE  /\ (\A j \in DOMAIN s.params : s.params[j] \notin Addresses) =>
               FirstOf(Call(s, dto), "address", default) = default
         /\ (\A j \in DOMAIN s.params : s.params[j] \notin Numbers) =>
               FirstOf(Call(s, dto), "uint256", Unset) = Unset
         /\ (\A j \in DOMAIN s.params : s.params[j] # "uri") =>
               FirstOf(Call(s, dto), "string", "") = ""
<1>1. ASSUME \A j \in DOMAIN s.params : s.params[j] \notin Addresses
      PROVE  FirstOf(Call(s, dto), "address", default) = default
  <2>1. \A j \in DOMAIN s.params : ParamType[s.params[j]] # "address"
    BY <1>1, TypesOfParams DEF Listed
  <2> QED
    BY <2>1, NoArgument
<1>2. ASSUME \A j \in DOMAIN s.params : s.params[j] \notin Numbers
      PROVE  FirstOf(Call(s, dto), "uint256", Unset) = Unset
  <2>1. \A j \in DOMAIN s.params : ParamType[s.params[j]] # "uint256"
    BY <1>2, TypesOfParams DEF Listed
  <2> QED
    BY <2>1, NoArgument
<1>3. ASSUME \A j \in DOMAIN s.params : s.params[j] # "uri"
      PROVE  FirstOf(Call(s, dto), "string", "") = ""
  <2>1. \A j \in DOMAIN s.params : ParamType[s.params[j]] # "string"
    BY <1>3, TypesOfParams DEF Listed
  <2>2. Places(Call(s, dto), "string") = {}
    BY <2>1, PlacesOfCall
  <2> QED
    BY <2>2 DEF FirstOf
<1> QED
  BY <1>1, <1>2, <1>3

\* The URI, and whether all tokens are approved.
LEMMA UriOrApproved ==
  ASSUME NEW s, Listed(s), NEW dto, NEW k \in DOMAIN s.params
  PROVE  /\ s.params[k] = "uri" /\ (\A j \in DOMAIN s.params : j < k => s.params[j] # "uri") =>
               FirstOf(Call(s, dto), "string", "") = Argument("uri", dto)
         /\ s.params[k] = "approved"
            /\ (\A j \in DOMAIN s.params : j < k => s.params[j] # "approved") =>
               FirstOf(Call(s, dto), "bool", Unset) = Argument("approved", dto)
<1>1. DOMAIN s.params \subseteq 1..9
  BY DEF Listed
<1>2. ASSUME s.params[k] = "uri", \A j \in DOMAIN s.params : j < k => s.params[j] # "uri"
      PROVE  FirstOf(Call(s, dto), "string", "") = Argument("uri", dto)
  <2>1. /\ ParamType[s.params[k]] = "string"
        /\ \A j \in DOMAIN s.params : j < k => ParamType[s.params[j]] # "string"
    BY <1>2, TypesOfParams DEF Listed
  <2>2. FirstOf(Call(s, dto), "string", "") = Argument(s.params[k], dto)
    BY <1>1, <2>1, FirstArgument
  <2> QED
    BY <1>2, <2>2
<1>3. ASSUME s.params[k] = "approved",
             \A j \in DOMAIN s.params : j < k => s.params[j] # "approved"
      PROVE  FirstOf(Call(s, dto), "bool", Unset) = Argument("approved", dto)
  <2>1. /\ ParamType[s.params[k]] = "bool"
        /\ \A j \in DOMAIN s.params : j < k => ParamType[s.params[j]] # "bool"
    BY <1>3, TypesOfParams DEF Listed
  <2>2. FirstOf(Call(s, dto), "bool", Unset) = Argument(s.params[k], dto)
    BY <1>1, <2>1, FirstArgument
  <2> QED
    BY <1>3, <2>2
<1> QED
  BY <1>2, <1>3

\* Two addresses, and they come first.
LEMMA TwoAddresses ==
  ASSUME NEW s, Listed(s), NEW dto,
         1 \in DOMAIN s.params, 2 \in DOMAIN s.params,
         s.params[1] \in Addresses, s.params[2] \in Addresses,
         \A j \in DOMAIN s.params : j > 2 => s.params[j] \notin Addresses
  PROVE  /\ LastOf(Call(s, dto), "address") = Argument(s.params[2], dto)
         /\ \E i, j \in Places(Call(s, dto), "address") : i # j
<1>1. /\ ParamType[s.params[1]] = "address" /\ ParamType[s.params[2]] = "address"
      /\ \A j \in DOMAIN s.params : j > 2 => ParamType[s.params[j]] # "address"
  BY TypesOfParams DEF Listed
<1>2. DOMAIN s.params \subseteq 1..9
  BY DEF Listed
<1>3. LastOf(Call(s, dto), "address") = Argument(s.params[2], dto)
  BY <1>1, <1>2, LastArgument
<1>4. 1 \in Places(Call(s, dto), "address") /\ 2 \in Places(Call(s, dto), "address")
  BY <1>1, PlacesOfCall
<1> QED
  BY <1>3, <1>4

\* One address, and it comes first.
LEMMA OneAddress ==
  ASSUME NEW s, Listed(s), NEW dto, 1 \in DOMAIN s.params, s.params[1] \in Addresses,
         \A j \in DOMAIN s.params : j > 1 => s.params[j] \notin Addresses
  PROVE  /\ LastOf(Call(s, dto), "address") = Argument(s.params[1], dto)
         /\ ~ \E i, j \in Places(Call(s, dto), "address") : i # j
<1>1. /\ ParamType[s.params[1]] = "address"
      /\ \A j \in DOMAIN s.params : j > 1 => ParamType[s.params[j]] # "address"
  BY TypesOfParams DEF Listed
<1>2. DOMAIN s.params \subseteq 1..9
  BY DEF Listed
<1>3. LastOf(Call(s, dto), "address") = Argument(s.params[1], dto)
  BY <1>1, <1>2, LastArgument
<1>4. \A j \in Places(Call(s, dto), "address") : j = 1
  BY <1>1, <1>2, PlacesOfCall
<1> QED
  BY <1>3, <1>4

\* What the arguments of a call are.
LEMMA Arguments ==
  ASSUME NEW dto
  PROVE  /\ \A p \in {"operator", "from", "to", "amount", "tokenIndex"} :
               Argument(p, dto) = dto[p]
         /\ Argument("operatorOrZero", dto) =
               IF dto.approved THEN dto.operator ELSE ZERO_ADDRESS
         /\ Argument("allowance", dto) =
               IF dto.approved THEN Set(dto.allowance, UINT256_MAX) ELSE "0"
         /\ Argument("approved", dto) = IF dto.approved THEN "true" ELSE "false"
         /\ Argument("uri", dto) = Set(dto.uri, "")
  BY DEF Argument
-----------------------------------------------------------------------------
(* What each signature does *)

\* A call of a method that mints.
LEMMA MintDoes ==
  ASSUME NEW f, NEW dto, dto.operation = "mint", NEW s, Listed(s),
         s.name \in {"mint", "mintWithData", "mintWithURI", "safeMint"},
         1 \in DOMAIN s.params, s.params[1] = "to",
         FirstOf(Call(s, dto), "uint256", Unset) = IF f THEN dto.amount ELSE dto.tokenIndex,
         FirstOf(Call(s, dto), "string", "") = IF f THEN "" ELSE Set(dto.uri, "")
  PROVE  Does(s, dto, f)
<1> DEFINE call == Call(s, dto)
<1>1. call.method.name \in {"mint", "mintWithData", "mintWithURI", "safeMint"}
  BY PlacesOfCall
<1>2. Meaning(call, dto.signer, f) =
            [does |-> "mint", to |-> FirstOf(call, "address", Unset),
             value |-> FirstOf(call, "uint256", Unset), uri |-> FirstOf(call, "string", "")]
  BY <1>1 DEF Meaning
<1>3. FirstOf(call, "address", Unset) = Argument("to", dto)
  BY FirstAddress DEF Addresses
<1>4. Argument("to", dto) = dto.to
  BY Arguments
<1>5. Asked(dto, f) = [does |-> "mint", to |-> dto.to,
                       value |-> IF f THEN dto.amount ELSE dto.tokenIndex,
                       uri |-> IF f THEN "" ELSE Set(dto.uri, "")]
  BY DEF Asked
<1> QED
  BY <1>2, <1>3, <1>4, <1>5 DEF Does

\* A call of a method that burns.
LEMMA BurnDoes ==
  ASSUME NEW f, NEW dto, dto.operation = "burn", NEW s, Listed(s),
         s.name \in {"burn", "burnFrom", "burnWithData"},
         FirstOf(Call(s, dto), "uint256", Unset) = IF f THEN dto.amount ELSE dto.tokenIndex,
         f => FirstOf(Call(s, dto), "address", dto.signer) = dto.from
  PROVE  Does(s, dto, f)
<1> DEFINE call == Call(s, dto)
<1>1. call.method.name \in {"burn", "burnFrom", "burnWithData"}
  BY PlacesOfCall
<1>2. Meaning(call, dto.signer, f) =
            [does |-> "burn", value |-> FirstOf(call, "uint256", Unset),
             from |-> IF f THEN FirstOf(call, "address", dto.signer) ELSE "owner"]
  BY <1>1 DEF Meaning
<1>3. Asked(dto, f) = [does |-> "burn", value |-> IF f THEN dto.amount ELSE dto.tokenIndex,
                       from |-> IF f THEN dto.from ELSE "owner"]
  BY DEF Asked
<1> QED
  BY <1>2, <1>3 DEF Does

\* A call of a method that transfers, from an account that is named or from the signer.
LEMMA TransferDoes ==
  ASSUME NEW f, NEW dto, dto.operation = "transfer", NEW s, Listed(s),
         s.name \in {"transfer", "transferFrom", "transferWithData", "safeTransferFrom"},
         1 \in DOMAIN s.params, 2 \in DOMAIN s.params,
         \A j \in DOMAIN s.params : j > 2 => s.params[j] \notin Addresses,
         \/ s.params[1] = "from" /\ s.params[2] = "to"
         \/ s.params[1] = "to" /\ s.params[2] \notin Addresses /\ dto.from = dto.signer,
         FirstOf(Call(s, dto), "uint256", Unset) = IF f THEN dto.amount ELSE dto.tokenIndex
  PROVE  Does(s, dto, f)
<1> DEFINE call == Call(s, dto)
<1>1. call.method.name \in {"transfer", "transferFrom", "transferWithData",
                            "safeTransferFrom"}
  BY PlacesOfCall
<1>2. Meaning(call, dto.signer, f) =
            [does |-> "transfer", value |-> FirstOf(call, "uint256", Unset),
             to |-> LastOf(call, "address"),
             from |-> IF \E i, j \in Places(call, "address") : i # j
                      THEN FirstOf(call, "address", dto.signer) ELSE dto.signer]
  BY <1>1 DEF Meaning
<1>3. Asked(dto, f) = [does |-> "transfer", value |-> IF f THEN dto.amount ELSE dto.tokenIndex,
                       to |-> dto.to, from |-> dto.from]
  BY DEF Asked
<1>4. Argument("from", dto) = dto.from /\ Argument("to", dto) = dto.to
  BY Arguments
<1>5. CASE s.params[1] = "from" /\ s.params[2] = "to"
  <2>1. s.params[1] \in Addresses /\ s.params[2] \in Addresses
    BY <1>5 DEF Addresses
  <2>2. /\ LastOf(call, "address") = Argument("to", dto)
        /\ \E i, j \in Places(call, "address") : i # j
    BY <1>5, <2>1, TwoAddresses
  <2>3. FirstOf(call, "address", dto.signer) = Argument("from", dto)
    BY <1>5, <2>1, FirstAddress
  <2> QED
    BY <1>2, <1>3, <1>4, <2>2, <2>3 DEF Does
<1>6. CASE s.params[1] = "to" /\ s.params[2] \notin Addresses /\ dto.from = dto.signer
  <2>1. s.params[1] \in Addresses
    BY <1>6 DEF Addresses
  <2>2. \A j \in DOMAIN s.params : j > 1 => s.params[j] \notin Addresses
    BY <1>6 DEF Listed
  <2>3. /\ LastOf(call, "address") = Argument("to", dto)
        /\ ~ \E i, j \in Places(call, "address") : i # j
    BY <1>6, <2>1, <2>2, OneAddress
  <2> QED
    BY <1>2, <1>3, <1>4, <1>6, <2>3 DEF Does
<1> QED
  BY <1>5, <1>6

\* A call of a method that approves an amount or a token.
LEMMA ApprovalDoes ==
  ASSUME NEW f, NEW dto, dto.operation = "approval", NEW s, Listed(s),
         s.name \in {"approve", "approveWithData"},
         1 \in DOMAIN s.params, 2 \in DOMAIN s.params,
         \/ f /\ s.params[1] = "operator" /\ s.params[2] = "allowance"
         \/ /\ ~f /\ dto.tokenIndex # Unset
            /\ s.params[1] = "operatorOrZero" /\ s.params[2] = "tokenIndex"
  PROVE  Does(s, dto, f)
<1> DEFINE call == Call(s, dto)
<1>1. call.method.name \in {"approve", "approveWithData"}
  BY PlacesOfCall
<1>2. Meaning(call, dto.signer, f) =
            [does |-> "approve", operator |-> FirstOf(call, "address", Unset),
             value |-> FirstOf(call, "uint256", Unset)]
  BY <1>1 DEF Meaning
<1>3. FirstOf(call, "address", Unset) = Argument(s.params[1], dto)
  BY FirstAddress DEF Addresses
<1>4. FirstOf(call, "uint256", Unset) = Argument(s.params[2], dto)
  <2>1. s.params[2] \in Numbers /\ \A j \in DOMAIN s.params : j < 2 => s.params[j] \notin Numbers
    BY DEF Numbers, Listed
  <2> QED
    BY <2>1, FirstNumber
<1>5. CASE f
  <2>1. Asked(dto, f) =
          [does |-> "approve", operator |-> dto.operator,
           value |-> IF dto.approved THEN Set(dto.allowance, UINT256_MAX) ELSE "0"]
    BY <1>5 DEF Asked
  <2> QED
    BY <1>2, <1>3, <1>4, <1>5, <2>1, Arguments DEF Does
<1>6. CASE ~f
  <2>1. Asked(dto, f) =
          [does |-> "approve", value |-> dto.tokenIndex,
           operator |-> IF dto.approved THEN dto.operator ELSE ZERO_ADDRESS]
    BY <1>6 DEF Asked
  <2> QED
    BY <1>2, <1>3, <1>4, <1>6, <2>1, Arguments DEF Does
<1> QED
  BY <1>5, <1>6

\* A call of a method that approves all tokens.
LEMMA ApprovalForAllDoes ==
  ASSUME NEW f, ~f, NEW dto, dto.operation = "approval", dto.tokenIndex = Unset,
         NEW s, Listed(s), s.name \in {"setApprovalForAll", "setApprovalForAllWithData"},
         1 \in DOMAIN s.params, 2 \in DOMAIN s.params,
         s.params[1] = "operator", s.params[2] = "approved"
  PROVE  Does(s, dto, f)
<1> DEFINE call == Call(s, dto)
<1>1. call.method.name \in {"setApprovalForAll", "setApprovalForAllWithData"}
  BY PlacesOfCall
<1>2. Meaning(call, dto.signer, f) =
            [does |-> "approve all", operator |-> FirstOf(call, "address", Unset),
             value |-> FirstOf(call, "bool", Unset)]
  BY <1>1 DEF Meaning
<1>3. FirstOf(call, "address", Unset) = Argument("operator", dto)
  BY FirstAddress DEF Addresses
<1>4. FirstOf(call, "bool", Unset) = Argument("approved", dto)
  <2>1. \A j \in DOMAIN s.params : j < 2 => s.params[j] # "approved"
    BY DEF Listed
  <2> QED
    BY <2>1, UriOrApproved
<1>5. Asked(dto, f) = [does |-> "approve all", operator |-> dto.operator,
                       value |-> IF dto.approved THEN "true" ELSE "false"]
  BY DEF Asked
<1> QED
  BY <1>2, <1>3, <1>4, <1>5, Arguments DEF Does

\* Every signature that mints fungible tokens does what was asked for.
LEMMA FungibleMint ==
  ASSUME NEW f, f, NEW dto, dto.operation = "mint", NEW i \in DOMAIN ERC20Methods.mint,
         NEW s, s = ERC20Methods.mint[i]
  PROVE  Listed(s) /\ Does(s, dto, f)
<1>1. /\ s.name \in {"mint", "mintWithData"}
      /\ s.params \in {<<"to", "amount", "data">>, <<"to", "amount">>}
  BY DEF ERC20Methods, Signature
<1>2. /\ Listed(s) /\ 1 \in DOMAIN s.params /\ 2 \in DOMAIN s.params
      /\ s.params[1] = "to" /\ s.params[2] = "amount"
      /\ \A j \in DOMAIN s.params : s.params[j] # "uri"
  BY <1>1 DEF Listed, Params, ParamType
<1>3. FirstOf(Call(s, dto), "uint256", Unset) = dto.amount
  <2>1. s.params[2] \in Numbers /\ \A j \in DOMAIN s.params : j < 2 => s.params[j] \notin Numbers
    BY <1>2 DEF Listed, Numbers
  <2>2. FirstOf(Call(s, dto), "uint256", Unset) = Argument("amount", dto)
    BY <1>2, <2>1, FirstNumber
  <2> QED
    BY <2>2, Arguments
<1>4. FirstOf(Call(s, dto), "string", "") = ""
  BY <1>2, Without
<1> QED
  BY <1>1, <1>2, <1>3, <1>4, MintDoes

\* Every signature that burns fungible tokens, from the account that is named or from the signer does what was asked for.
LEMMA FungibleBurn ==
  ASSUME NEW f, f, NEW dto, dto.operation = "burn", NEW i \in DOMAIN ERC20Methods.burn,
         NEW s, s = ERC20Methods.burn[i], ~Skipped(s, dto)
  PROVE  Listed(s) /\ Does(s, dto, f)
<1>1. /\ s.name \in {"burn", "burnFrom", "burnWithData"}
      /\ \/ s.params \in {<<"from", "amount", "data">>, <<"from", "amount">>}
         \/ s.params = <<"amount">> /\ "bySigner" \in s.conditions
  BY DEF ERC20Methods, Signature
<1>2. CASE s.params \in {<<"from", "amount", "data">>, <<"from", "amount">>}
  <2>1. /\ Listed(s) /\ 1 \in DOMAIN s.params /\ 2 \in DOMAIN s.params
        /\ s.params[1] = "from" /\ s.params[2] = "amount"
    BY <1>2 DEF Listed, Params, ParamType
  <2>2. s.params[2] \in Numbers /\ \A j \in DOMAIN s.params : j < 2 => s.params[j] \notin Numbers
    BY <2>1 DEF Listed, Numbers
  <2>3. FirstOf(Call(s, dto), "uint256", Unset) = Argument("amount", dto)
    BY <2>1, <2>2, FirstNumber
  <2>4. FirstOf(Call(s, dto), "address", dto.signer) = Argument("from", dto)
    BY <2>1, FirstAddress DEF Addresses
  <2>5. Argument("from", dto) = dto.from /\ Argument("amount", dto) = dto.amount
    BY Arguments
  <2> QED
    BY <1>1, <2>1, <2>3, <2>4, <2>5, BurnDoes
<1>3. CASE s.params = <<"amount">> /\ "bySigner" \in s.conditions
  <2>1. /\ Listed(s) /\ 1 \in DOMAIN s.params /\ s.params[1] = "amount"
        /\ \A j \in DOMAIN s.params : j = 1
    BY <1>3 DEF Listed, Params, ParamType
  <2>2. s.params[1] \in Numbers /\ \A j \in DOMAIN s.params : j < 1 => s.params[j] \notin Numbers
    BY <2>1 DEF Listed, Numbers
  <2>3. FirstOf(Call(s, dto), "uint256", Unset) = Argument("amount", dto)
    BY <2>1, <2>2, FirstNumber
  <2>4. \A j \in DOMAIN s.params : s.params[j] \notin Addresses
    BY <2>1 DEF Addresses
  <2>5. FirstOf(Call(s, dto), "address", dto.signer) = dto.signer
    BY <2>1, <2>4, Without
  <2>6. dto.from = dto.signer
    BY <1>3 DEF Skipped
  <2>7. Argument("amount", dto) = dto.amount
    BY Arguments
  <2> QED
    BY <1>1, <2>1, <2>3, <2>5, <2>6, <2>7, BurnDoes
<1> QED
  BY <1>1, <1>2, <1>3

\* Every signature that transfers fungible tokens does what was asked for.
LEMMA FungibleTransfer ==
  ASSUME NEW f, f, NEW dto, dto.operation = "transfer",
         NEW i \in DOMAIN ERC20Methods.transfer,
         NEW s, s = ERC20Methods.transfer[i], ~Skipped(s, dto)
  PROVE  Listed(s) /\ Does(s, dto, f)
<1>1. /\ s.name \in {"transfer", "transferFrom", "transferWithData"}
      /\ \/ s.params \in {<<"from", "to", "amount", "data">>, <<"from", "to", "amount">>}
         \/ s.params = <<"to", "amount">> /\ "bySigner" \in s.conditions
  BY DEF ERC20Methods, Signature
<1>2. Argument("amount", dto) = dto.amount
  BY Arguments
<1>3. CASE s.params \in {<<"from", "to", "amount", "data">>, <<"from", "to", "amount">>}
  <2>1. /\ Listed(s) /\ 1 \in DOMAIN s.params /\ 2 \in DOMAIN s.params /\ 3 \in DOMAIN s.params
        /\ s.params[1] = "from" /\ s.params[2] = "to" /\ s.params[3] = "amount"
        /\ \A j \in DOMAIN s.params : j > 2 => s.params[j] \notin Addresses
    BY <1>3 DEF Listed, Params, ParamType, Addresses
  <2>2. s.params[3] \in Numbers /\ \A j \in DOMAIN s.params : j < 3 => s.params[j] \notin Numbers
    BY <2>1 DEF Listed, Numbers
  <2>3. FirstOf(Call(s, dto), "uint256", Unset) = Argument("amount", dto)
    BY <2>1, <2>2, FirstNumber
  <2> QED
    BY <1>1, <1>2, <2>1, <2>3, TransferDoes
<1>4. CASE s.params = <<"to", "amount">> /\ "bySigner" \in s.conditions
  <2>1. /\ Listed(s) /\ 1 \in DOMAIN s.params /\ 2 \in DOMAIN s.params
        /\ s.params[1] = "to" /\ s.params[2] = "amount" /\ s.params[2] \notin Addresses
        /\ \A j \in DOMAIN s.params : j > 2 => s.params[j] \notin Addresses
    BY <1>4 DEF Listed, Params, ParamType, Addresses
  <2>2. s.params[2] \in Numbers /\ \A j \in DOMAIN s.params : j < 2 => s.params[j] \notin Numbers
    BY <2>1 DEF Listed, Numbers
  <2>3. FirstOf(Call(s, dto), "uint256", Unset) = Argument("amount", dto)
    BY <2>1, <2>2, FirstNumber
  <2>4. dto.from = dto.signer
    BY <1>4 DEF Skipped
  <2> QED
    BY <1>1, <1>2, <2>1, <2>3, <2>4, TransferDoes
<1> QED
  BY <1>1, <1>3, <1>4

\* Every signature that approves an amount does what was asked for.
LEMMA FungibleApproval ==
  ASSUME NEW f, f, NEW dto, dto.operation = "approval",
         NEW i \in DOMAIN ERC20Methods.approval, NEW s, s = ERC20Methods.approval[i]
  PROVE  Listed(s) /\ Does(s, dto, f)
<1>1. /\ s.name \in {"approve", "approveWithData"}
      /\ s.params \in {<<"operator", "allowance", "data">>, <<"operator", "allowance">>}
  BY DEF ERC20Methods, Signature
<1>2. /\ Listed(s) /\ 1 \in DOMAIN s.params /\ 2 \in DOMAIN s.params
      /\ s.params[1] = "operator" /\ s.params[2] = "allowance"
  BY <1>1 DEF Listed, Params, ParamType
<1> QED
  BY <1>1, <1>2, ApprovalDoes

\* A signature takes a URI; or it refuses one, and takes none.
TakesUri(s) ==
    \E k \in DOMAIN s.params :
       s.params[k] = "uri" /\ \A j \in DOMAIN s.params : j < k => s.params[j] # "uri"
RefusesUri(s) ==
    "noUri" \in s.conditions /\ \A j \in DOMAIN s.params : s.params[j] # "uri"

\* A signature that mints says where the token's index comes from, and its URI.
LEMMA NonfungibleMintShape ==
  ASSUME NEW i \in DOMAIN ERC721Methods.mint, NEW s, s = ERC721Methods.mint[i]
  PROVE  /\ s.name \in {"mint", "mintWithData", "mintWithURI", "safeMint"}
         /\ Listed(s) /\ 1 \in DOMAIN s.params /\ s.params[1] = "to"
         /\ \/ 2 \in DOMAIN s.params /\ s.params[2] = "tokenIndex"
            \/ /\ "noIndex" \in s.conditions
               /\ \A j \in DOMAIN s.params : s.params[j] \notin Numbers
         /\ TakesUri(s) \/ RefusesUri(s)
<1>1. i \in 1..9
  BY DEF ERC721Methods
<1>2. CASE i \in {1, 2}
  <2>1. /\ s.name = "mintWithURI"
        /\ \/ s.params = <<"to", "data", "uri">> /\ "noIndex" \in s.conditions
           \/ s.params = <<"to", "tokenIndex", "data", "uri">>
    BY <1>2 DEF ERC721Methods, Signature
  <2> QED
    BY <2>1 DEF Listed, Params, ParamType, Numbers, TakesUri, RefusesUri
<1>3. CASE i \in {3, 4}
  <2>1. /\ s.name = "mintWithData"
        /\ \/ s.params = <<"to", "data">> /\ "noIndex" \in s.conditions
           \/ s.params = <<"to", "tokenIndex", "data">>
        /\ "noUri" \in s.conditions
    BY <1>3 DEF ERC721Methods, Signature
  <2> QED
    BY <2>1 DEF Listed, Params, ParamType, Numbers, TakesUri, RefusesUri
<1>4. CASE i \in {5, 6}
  <2>1. /\ s.name = "safeMint"
        /\ \/ s.params = <<"to", "uri">> /\ "noIndex" \in s.conditions
           \/ s.params = <<"to", "tokenIndex", "uri">>
    BY <1>4 DEF ERC721Methods, Signature
  <2> QED
    BY <2>1 DEF Listed, Params, ParamType, Numbers, TakesUri, RefusesUri
<1>5. CASE i \in {7, 8, 9}
  <2>1. /\ s.name \in {"safeMint", "mint"}
        /\ \/ s.params = <<"to">> /\ "noIndex" \in s.conditions
           \/ s.params = <<"to", "tokenIndex">>
        /\ "noUri" \in s.conditions
    BY <1>5 DEF ERC721Methods, Signature
  <2> QED
    BY <2>1 DEF Listed, Params, ParamType, Numbers, TakesUri, RefusesUri
<1> QED
  BY <1>1, <1>2, <1>3, <1>4, <1>5

\* Every signature that mints a token does what was asked for.
LEMMA NonfungibleMint ==
  ASSUME NEW f, ~f, NEW dto, dto.operation = "mint",
         NEW i \in DOMAIN ERC721Methods.mint,
         NEW s, s = ERC721Methods.mint[i], ~Refused(s, dto)
  PROVE  Listed(s) /\ Does(s, dto, f)
<1>1. /\ s.name \in {"mint", "mintWithData", "mintWithURI", "safeMint"}
      /\ Listed(s) /\ 1 \in DOMAIN s.params /\ s.params[1] = "to"
  BY NonfungibleMintShape
<1>2. FirstOf(Call(s, dto), "uint256", Unset) = dto.tokenIndex
  <2>1. CASE 2 \in DOMAIN s.params /\ s.params[2] = "tokenIndex"
    <3>1. s.params[2] \in Numbers
      BY <2>1 DEF Numbers
    <3>2. \A j \in DOMAIN s.params : j < 2 => s.params[j] \notin Numbers
      BY <1>1 DEF Listed, Numbers
    <3>3. FirstOf(Call(s, dto), "uint256", Unset) = Argument("tokenIndex", dto)
      BY <1>1, <2>1, <3>1, <3>2, FirstNumber
    <3> QED
      BY <3>3, Arguments
  <2>2. CASE /\ "noIndex" \in s.conditions
             /\ \A j \in DOMAIN s.params : s.params[j] \notin Numbers
    <3>1. dto.tokenIndex = Unset
      BY <2>2 DEF Refused
    <3> QED
      BY <1>1, <2>2, <3>1, Without
  <2> QED
    BY <2>1, <2>2, NonfungibleMintShape
<1>3. FirstOf(Call(s, dto), "string", "") = Set(dto.uri, "")
  <2>1. CASE TakesUri(s)
    <3>1. FirstOf(Call(s, dto), "string", "") = Argument("uri", dto)
      BY <1>1, <2>1, UriOrApproved DEF TakesUri
    <3> QED
      BY <3>1, Arguments
  <2>2. CASE RefusesUri(s)
    <3>1. dto.uri \in {Unset, ""}
      BY <2>2 DEF Refused, RefusesUri
    <3>2. FirstOf(Call(s, dto), "string", "") = ""
      BY <1>1, <2>2, Without DEF RefusesUri
    <3> QED
      BY <3>1, <3>2 DEF Set
  <2> QED
    BY <2>1, <2>2, NonfungibleMintShape
<1> QED
  BY <1>1, <1>2, <1>3, MintDoes

\* Every signature that burns a token does what was asked for.
LEMMA NonfungibleBurn ==
  ASSUME NEW f, ~f, NEW dto, dto.operation = "burn",
         NEW i \in DOMAIN ERC721Methods.burn, NEW s, s = ERC721Methods.burn[i]
  PROVE  Listed(s) /\ Does(s, dto, f)
<1>1. /\ s.name \in {"burn", "burnWithData"}
      /\ s.params \in {<<"from", "tokenIndex", "data">>, <<"from", "tokenIndex">>,
                       <<"tokenIndex">>}
  BY DEF ERC721Methods, Signature
<1>2. Listed(s) /\ \E k \in DOMAIN s.params :
                      /\ s.params[k] = "tokenIndex"
                      /\ \A j \in DOMAIN s.params : j < k => s.params[j] \notin Numbers
  BY <1>1 DEF Listed, Params, ParamType, Numbers
<1>3. PICK k \in DOMAIN s.params : /\ s.params[k] = "tokenIndex"
                                   /\ \A j \in DOMAIN s.params : j < k => s.params[j] \notin Numbers
  BY <1>2
<1>4. s.params[k] \in Numbers
  BY <1>3 DEF Numbers
<1>5. FirstOf(Call(s, dto), "uint256", Unset) = Argument("tokenIndex", dto)
  BY <1>2, <1>3, <1>4, FirstNumber
<1>6. Argument("tokenIndex", dto) = dto.tokenIndex
  BY Arguments
<1> QED
  BY <1>1, <1>2, <1>5, <1>6, BurnDoes

\* Every signature that transfers a token does what was asked for.
LEMMA NonfungibleTransfer ==
  ASSUME NEW f, ~f, NEW dto, dto.operation = "transfer",
         NEW i \in DOMAIN ERC721Methods.transfer, NEW s, s = ERC721Methods.transfer[i]
  PROVE  Listed(s) /\ Does(s, dto, f)
<1>1. /\ s.name \in {"transferWithData", "safeTransferFrom"}
      /\ s.params \in {<<"from", "to", "tokenIndex", "data">>, <<"from", "to", "tokenIndex">>}
  BY DEF ERC721Methods, Signature
<1>2. /\ Listed(s) /\ 1 \in DOMAIN s.params /\ 2 \in DOMAIN s.params /\ 3 \in DOMAIN s.params
      /\ s.params[1] = "from" /\ s.params[2] = "to" /\ s.params[3] = "tokenIndex"
      /\ \A j \in DOMAIN s.params : j > 2 => s.params[j] \notin Addresses
  BY <1>1 DEF Listed, Params, ParamType, Addresses
<1>3. s.params[3] \in Numbers /\ \A j \in DOMAIN s.params : j < 3 => s.params[j] \notin Numbers
  BY <1>2 DEF Listed, Numbers
<1>4. FirstOf(Call(s, dto), "uint256", Unset) = Argument("tokenIndex", dto)
  BY <1>2, <1>3, FirstNumber
<1>5. Argument("tokenIndex", dto) = dto.tokenIndex
  BY Arguments
<1> QED
  BY <1>1, <1>2, <1>4, <1>5, TransferDoes

\* Every signature that approves a token, or all tokens does what was asked for.
LEMMA NonfungibleApproval ==
  ASSUME NEW f, ~f, NEW dto, dto.operation = "approval",
         NEW i \in DOMAIN ERC721Methods.approval,
         NEW s, s = ERC721Methods.approval[i], ~Skipped(s, dto)
  PROVE  Listed(s) /\ Does(s, dto, f)
<1>1. \/ /\ s.name \in {"approve", "approveWithData"} /\ "ofToken" \in s.conditions
         /\ s.params \in {<<"operatorOrZero", "tokenIndex", "data">>,
                          <<"operatorOrZero", "tokenIndex">>}
      \/ /\ s.name \in {"setApprovalForAll", "setApprovalForAllWithData"}
         /\ "ofAll" \in s.conditions
         /\ s.params \in {<<"operator", "approved", "data">>, <<"operator", "approved">>}
  BY DEF ERC721Methods, Signature
<1>2. CASE /\ s.name \in {"approve", "approveWithData"} /\ "ofToken" \in s.conditions
           /\ s.params \in {<<"operatorOrZero", "tokenIndex", "data">>,
                            <<"operatorOrZero", "tokenIndex">>}
  <2>1. /\ Listed(s) /\ 1 \in DOMAIN s.params /\ 2 \in DOMAIN s.params
        /\ s.params[1] = "operatorOrZero" /\ s.params[2] = "tokenIndex"
    BY <1>2 DEF Listed, Params, ParamType
  <2>2. dto.tokenIndex # Unset
    BY <1>2 DEF Skipped
  <2> QED
    BY <1>2, <2>1, <2>2, ApprovalDoes
<1>3. CASE /\ s.name \in {"setApprovalForAll", "setApprovalForAllWithData"}
           /\ "ofAll" \in s.conditions
           /\ s.params \in {<<"operator", "approved", "data">>, <<"operator", "approved">>}
  <2>1. /\ Listed(s) /\ 1 \in DOMAIN s.params /\ 2 \in DOMAIN s.params
        /\ s.params[1] = "operator" /\ s.params[2] = "approved"
    BY <1>3 DEF Listed, Params, ParamType
  <2>2. dto.tokenIndex = Unset
    BY <1>3 DEF Skipped
  <2> QED
    BY <1>3, <2>1, <2>2, ApprovalForAllDoes
<1> QED
  BY <1>1, <1>2, <1>3
-----------------------------------------------------------------------------
(* Selection *)

\* A list has at most nine signatures.
LEMMA SignaturesListed ==
  ASSUME NEW f, NEW dto, dto.operation \in TokenOperations
  PROVE  DOMAIN Signatures(f, dto) \subseteq 1..9
  BY DEF Signatures, ERC20Methods, ERC721Methods, TokenOperations

\* The call is the first usable signature's, unless it is refused or there is none.
LEMMA Selected ==
  ASSUME NEW abi, NEW f, NEW dto, dto.operation \in TokenOperations
  PROVE  \/ Usable(abi, f, dto) = {} /\ GetMethodAndParams(abi, f, dto) = NoMethod
         \/ \E i \in Usable(abi, f, dto) :
               \/ GetMethodAndParams(abi, f, dto) = BadRequest
               \/ /\ ~Refused(Signatures(f, dto)[i], dto)
                  /\ GetMethodAndParams(abi, f, dto) = Call(Signatures(f, dto)[i], dto)
<1> DEFINE usable == Usable(abi, f, dto)
           signatures == Signatures(f, dto)
           calls == [i \in usable |-> IF Refused(signatures[i], dto) THEN BadRequest
                                      ELSE Call(signatures[i], dto)]
<1>1. usable \subseteq 1..9
  BY SignaturesListed DEF Usable
<1>2. GetMethodAndParams(abi, f, dto) =
        IF DOMAIN calls = {} THEN NoMethod ELSE calls[Min(DOMAIN calls)]
  BY DEF GetMethodAndParams
<1>3. DOMAIN calls = usable
  OBVIOUS
<1>4. CASE usable = {}
  BY <1>2, <1>3, <1>4
<1>5. CASE usable # {}
  <2>1. Min(usable) \in usable
    BY <1>1, <1>5, MinOf
  <2>2. GetMethodAndParams(abi, f, dto) = calls[Min(usable)]
    BY <1>2, <1>3, <1>5
  <2>3. calls[Min(usable)] = IF Refused(signatures[Min(usable)], dto) THEN BadRequest
                             ELSE Call(signatures[Min(usable)], dto)
    BY <2>1
  <2> QED
    BY <2>1, <2>2, <2>3
<1> QED
  BY <1>4, <1>5

\* Every signature that serves an operation does what was asked for.
LEMMA SignaturesDo ==
  ASSUME NEW f \in BOOLEAN, NEW dto, dto.operation \in TokenOperations,
         NEW i \in DOMAIN Signatures(f, dto), NEW s, s = Signatures(f, dto)[i],
         ~Skipped(s, dto), ~Refused(s, dto)
  PROVE  Listed(s) /\ Does(s, dto, f)
<1>1. CASE f /\ dto.operation = "mint"
  BY <1>1, FungibleMint DEF Signatures
<1>2. CASE f /\ dto.operation = "burn"
  BY <1>2, FungibleBurn DEF Signatures
<1>3. CASE f /\ dto.operation = "transfer"
  BY <1>3, FungibleTransfer DEF Signatures
<1>4. CASE f /\ dto.operation = "approval"
  BY <1>4, FungibleApproval DEF Signatures
<1>5. CASE ~f /\ dto.operation = "mint"
  BY <1>5, NonfungibleMint DEF Signatures
<1>6. CASE ~f /\ dto.operation = "burn"
  BY <1>6, NonfungibleBurn DEF Signatures
<1>7. CASE ~f /\ dto.operation = "transfer"
  BY <1>7, NonfungibleTransfer DEF Signatures
<1>8. CASE ~f /\ dto.operation = "approval"
  BY <1>8, NonfungibleApproval DEF Signatures
<1> QED
  BY <1>1, <1>2, <1>3, <1>4, <1>5, <1>6, <1>7, <1>8 DEF TokenOperations

\* For any ABI, the call of an operation does what the caller asked for, if there is one
\* (getMethodAndParams, and the map() of each signature of erc20.ts and erc721.ts).
THEOREM CallsDoWhatWasAsked ==
  ASSUME NEW abi, NEW f \in BOOLEAN, NEW dto, dto.operation \in TokenOperations,
         GetMethodAndParams(abi, f, dto) \notin {NoMethod, BadRequest}
  PROVE  Meaning(GetMethodAndParams(abi, f, dto), dto.signer, f) = Asked(dto, f)
<1>1. PICK i \in Usable(abi, f, dto) :
        /\ ~Refused(Signatures(f, dto)[i], dto)
        /\ GetMethodAndParams(abi, f, dto) = Call(Signatures(f, dto)[i], dto)
  BY Selected
<1>2. i \in DOMAIN Signatures(f, dto) /\ ~Skipped(Signatures(f, dto)[i], dto)
  BY DEF Usable
<1>3. Does(Signatures(f, dto)[i], dto, f)
  BY <1>1, <1>2, SignaturesDo
<1> QED
  BY <1>1, <1>3 DEF Does

\* Every signature has a list of parameters, and a call of it an argument for each.
LEMMA AllArguments ==
  ASSUME NEW f, NEW dto, dto.operation \in TokenOperations,
         NEW i \in DOMAIN Signatures(f, dto), NEW s, s = Signatures(f, dto)[i]
  PROVE  Len(Call(s, dto).params) = Len(Call(s, dto).method.inputs)
<1>1. \E n \in 1..4 : DOMAIN s.params = 1..n
  <2>1. CASE dto.operation = "mint"
    BY <2>1 DEF Signatures, ERC20Methods, ERC721Methods, Signature
  <2>2. CASE dto.operation = "burn"
    BY <2>2 DEF Signatures, ERC20Methods, ERC721Methods, Signature
  <2>3. CASE dto.operation = "transfer"
    BY <2>3 DEF Signatures, ERC20Methods, ERC721Methods, Signature
  <2>4. CASE dto.operation = "approval"
    BY <2>4 DEF Signatures, ERC20Methods, ERC721Methods, Signature
  <2> QED
    BY <2>1, <2>2, <2>3, <2>4 DEF TokenOperations
<1>2. PICK n \in 1..4 : DOMAIN s.params = 1..n
  BY <1>1
<1>3. /\ Call(s, dto).params = [j \in 1..n |-> Argument(s.params[j], dto)]
      /\ Call(s, dto).method.inputs = [j \in 1..n |-> ParamType[s.params[j]]]
  BY <1>2 DEF Call, MethodOf, Method
<1> QED
  BY <1>3

\* A call that is not refused is of a method of the ABI, if a signature is usable.
LEMMA CallOfUsable ==
  ASSUME NEW abi, NEW f, NEW dto, dto.operation \in TokenOperations,
         Usable(abi, f, dto) # {}, GetMethodAndParams(abi, f, dto) # BadRequest
  PROVE  /\ GetMethodAndParams(abi, f, dto).method \in abi
         /\ Len(GetMethodAndParams(abi, f, dto).params)
               = Len(GetMethodAndParams(abi, f, dto).method.inputs)
<1>1. PICK i \in Usable(abi, f, dto) :
        GetMethodAndParams(abi, f, dto) = Call(Signatures(f, dto)[i], dto)
  BY Selected
<1>2. i \in DOMAIN Signatures(f, dto) /\ MethodOf(Signatures(f, dto)[i]) \in abi
  BY DEF Usable
<1>3. Call(Signatures(f, dto)[i], dto).method = MethodOf(Signatures(f, dto)[i])
  BY DEF Call
<1> QED
  BY <1>1, <1>2, <1>3, AllArguments

\* The call is of a method of the ABI, with all its arguments, unless the operation is
\* refused or the ABI has no method for it (getMethodAndParams).
THEOREM CallsAreOfTheAbi ==
  ASSUME NEW abi, NEW f, NEW dto, dto.operation \in TokenOperations,
         GetMethodAndParams(abi, f, dto) \notin {NoMethod, BadRequest}
  PROVE  /\ GetMethodAndParams(abi, f, dto).method \in abi
         /\ Len(GetMethodAndParams(abi, f, dto).params)
               = Len(GetMethodAndParams(abi, f, dto).method.inputs)
  BY Selected, CallOfUsable

\* The methods that checkInterface answers for an operation give the same call as the
\* whole ABI (checkInterface, getAllMethods).
THEOREM KnownMethodsSuffice ==
  ASSUME NEW abi, NEW f, NEW dto, dto.operation \in TokenOperations
  PROVE  GetMethodAndParams(GetAllMethods(abi, f, dto), f, dto)
            = GetMethodAndParams(abi, f, dto)
<1>1. \A i \in DOMAIN Signatures(f, dto) :
         MethodOf(Signatures(f, dto)[i]) \in GetAllMethods(abi, f, dto)
            <=> MethodOf(Signatures(f, dto)[i]) \in abi
  BY DEF GetAllMethods, ToSet
<1>2. Usable(GetAllMethods(abi, f, dto), f, dto) = Usable(abi, f, dto)
  BY <1>1 DEF Usable
<1> QED
  BY <1>2 DEF GetMethodAndParams
-----------------------------------------------------------------------------
(* The built-in ABIs *)

FungibleABIs == {ERC20NoDataABI, ERC20NoDataLegacyABI, ERC20WithDataABI}
NonfungibleABIs ==
    {ERC721NoDataABI, ERC721NoDataLegacyABI, ERC721WithDataV1aABI, ERC721WithDataV1bABI,
     ERC721WithDataV2ABI}

\* A signature without a condition on what it serves is usable if the ABI has its method.
LEMMA UsableSignature ==
  ASSUME NEW abi, NEW f, NEW dto, NEW i \in DOMAIN Signatures(f, dto),
         MethodOf(Signatures(f, dto)[i]) \in abi,
         \/ Signatures(f, dto)[i].conditions \subseteq {"oneToken", "noUri", "noIndex"}
         \/ ~Skipped(Signatures(f, dto)[i], dto)
  PROVE  Usable(abi, f, dto) # {}
<1>1. ~Skipped(Signatures(f, dto)[i], dto)
  BY DEF Skipped
<1> QED
  BY <1>1 DEF Usable

\* The methods of the signatures for fungible tokens.
LEMMA FungibleInputs ==
  ASSUME NEW s
  PROVE  /\ s.params \in {<<"to", "amount">>, <<"from", "amount">>, <<"operator", "allowance">>}
               => MethodOf(s) = Method(s.name, AU)
         /\ s.params \in {<<"to", "amount", "data">>, <<"from", "amount", "data">>,
                          <<"operator", "allowance", "data">>}
               => MethodOf(s) = Method(s.name, AUB)
         /\ s.params = <<"from", "to", "amount">> => MethodOf(s) = Method(s.name, AAU)
         /\ s.params = <<"from", "to", "amount", "data">>
               => MethodOf(s) = Method(s.name, AAUB)
<1> DEFINE inputs == [i \in DOMAIN s.params |-> ParamType[s.params[i]]]
<1>1. MethodOf(s) = Method(s.name, inputs)
  BY DEF MethodOf
<1>2. s.params \in {<<"to", "amount">>, <<"from", "amount">>, <<"operator", "allowance">>}
        => inputs = AU
  BY Types DEF AU
<1>3. s.params \in {<<"to", "amount", "data">>, <<"from", "amount", "data">>,
                    <<"operator", "allowance", "data">>} => inputs = AUB
  BY Types DEF AUB
<1>4. s.params = <<"from", "to", "amount">> => inputs = AAU
  BY Types DEF AAU
<1>5. s.params = <<"from", "to", "amount", "data">> => inputs = AAUB
  BY Types DEF AAUB
<1> QED
  BY <1>1, <1>2, <1>3, <1>4, <1>5

\* Each ABI of a fungible token has a method for each operation.
LEMMA FungibleServed ==
  ASSUME NEW f, f, NEW dto, dto.operation \in TokenOperations, NEW abi \in FungibleABIs
  PROVE  Usable(abi, f, dto) # {}
<1> DEFINE s(i) == Signatures(f, dto)[i]
<1>1. /\ abi # ERC20WithDataABI =>
            {Method("mint", AU), Method("transferFrom", AAU), Method("approve", AU)} \subseteq abi
      /\ abi # ERC20WithDataABI => Method("burn", AU) \in abi \/ Method("burnFrom", AU) \in abi
      /\ abi = ERC20WithDataABI =>
            {Method("mintWithData", AUB), Method("burnWithData", AUB),
             Method("transferWithData", AAUB), Method("approveWithData", AUB)} \subseteq abi
  BY DEF FungibleABIs, ERC20NoDataABI, ERC20NoDataLegacyABI, ERC20WithDataABI, ERC20Base
<1>2. CASE dto.operation = "mint"
  <2>1. /\ {1, 2} \subseteq DOMAIN Signatures(f, dto)
        /\ s(1).name = "mintWithData" /\ s(1).params = <<"to", "amount", "data">>
        /\ s(2).name = "mint" /\ s(2).params = <<"to", "amount">>
        /\ \A i \in {1, 2} : s(i).conditions \subseteq {"oneToken", "noUri", "noIndex"}
    BY <1>2 DEF Signatures, ERC20Methods, Signature
  <2>2. MethodOf(s(1)) = Method("mintWithData", AUB) /\ MethodOf(s(2)) = Method("mint", AU)
    BY <2>1, FungibleInputs
  <2> QED
    BY <1>1, <2>1, <2>2, UsableSignature
<1>3. CASE dto.operation = "burn"
  <2>1. /\ {1, 3, 4} \subseteq DOMAIN Signatures(f, dto)
        /\ s(1).name = "burnWithData" /\ s(1).params = <<"from", "amount", "data">>
        /\ s(3).name = "burnFrom" /\ s(3).params = <<"from", "amount">>
        /\ s(4).name = "burn" /\ s(4).params = <<"from", "amount">>
        /\ \A i \in {1, 3, 4} : s(i).conditions \subseteq {"oneToken", "noUri", "noIndex"}
    BY <1>3 DEF Signatures, ERC20Methods, Signature
  <2>2. /\ MethodOf(s(1)) = Method("burnWithData", AUB)
        /\ MethodOf(s(3)) = Method("burnFrom", AU) /\ MethodOf(s(4)) = Method("burn", AU)
    BY <2>1, FungibleInputs
  <2> QED
    BY <1>1, <2>1, <2>2, UsableSignature
<1>4. CASE dto.operation = "transfer"
  <2>1. /\ {1, 3} \subseteq DOMAIN Signatures(f, dto)
        /\ s(1).name = "transferWithData" /\ s(1).params = <<"from", "to", "amount", "data">>
        /\ s(3).name = "transferFrom" /\ s(3).params = <<"from", "to", "amount">>
        /\ \A i \in {1, 3} : s(i).conditions \subseteq {"oneToken", "noUri", "noIndex"}
    BY <1>4 DEF Signatures, ERC20Methods, Signature
  <2>2. /\ MethodOf(s(1)) = Method("transferWithData", AAUB)
        /\ MethodOf(s(3)) = Method("transferFrom", AAU)
    BY <2>1, FungibleInputs
  <2> QED
    BY <1>1, <2>1, <2>2, UsableSignature
<1>5. CASE dto.operation = "approval"
  <2>1. /\ {1, 2} \subseteq DOMAIN Signatures(f, dto)
        /\ s(1).name = "approveWithData" /\ s(1).params = <<"operator", "allowance", "data">>
        /\ s(2).name = "approve" /\ s(2).params = <<"operator", "allowance">>
        /\ \A i \in {1, 2} : s(i).conditions \subseteq {"oneToken", "noUri", "noIndex"}
    BY <1>5 DEF Signatures, ERC20Methods, Signature
  <2>2. MethodOf(s(1)) = Method("approveWithData", AUB) /\ MethodOf(s(2)) = Method("approve", AU)
    BY <2>1, FungibleInputs
  <2> QED
    BY <1>1, <2>1, <2>2, UsableSignature
<1> QED
  BY <1>2, <1>3, <1>4, <1>5 DEF TokenOperations

\* Each ABI of a nonfungible token has a method for each operation.
LEMMA NonfungibleServed ==
  ASSUME NEW f, ~f, NEW dto, dto.operation \in TokenOperations, NEW abi \in NonfungibleABIs
  PROVE  Usable(abi, f, dto) # {}
<1> DEFINE s(i) == Signatures(f, dto)[i]
<1>1. ERC721Base \subseteq abi
  BY DEF NonfungibleABIs, ERC721NoDataABI, ERC721NoDataLegacyABI, ERC721WithDataV1aABI,
         ERC721WithDataV1bABI, ERC721WithDataV2ABI, ERC721WithDataBase
<1>2. {Method("approve", AU), Method("setApprovalForAll", <<"address", "bool">>),
       Method("safeTransferFrom", AAU)} \subseteq abi
  BY <1>1 DEF ERC721Base
<1>3. \/ /\ Method("burn", <<"uint256">>) \in abi /\ Method("safeMint", <<"address">>) \in abi
      \/ Method("burn", AU) \in abi /\ Method("mint", AU) \in abi
      \/ /\ Method("burnWithData", AUB) \in abi
         /\ \/ Method("mintWithData", AUB) \in abi
            \/ Method("mintWithData", <<"address", "bytes">>) \in abi
  BY DEF NonfungibleABIs, ERC721NoDataABI, ERC721NoDataLegacyABI, ERC721WithDataV1aABI,
         ERC721WithDataV1bABI, ERC721WithDataV2ABI, ERC721WithDataBase
<1>4. CASE dto.operation = "mint"
  <2>1. /\ {3, 4, 7, 9} \subseteq DOMAIN Signatures(f, dto)
        /\ s(3) = Signature("mintWithData", <<"to", "data">>, {"oneToken", "noUri", "noIndex"})
        /\ s(4) = Signature("mintWithData", <<"to", "tokenIndex", "data">>, {"oneToken", "noUri"})
        /\ s(7) = Signature("safeMint", <<"to">>, {"oneToken", "noUri", "noIndex"})
        /\ s(9) = Signature("mint", <<"to", "tokenIndex">>, {"oneToken", "noUri"})
    BY <1>4 DEF Signatures, ERC721Methods
  <2>2. /\ MethodOf(s(3)) = Method("mintWithData", <<"address", "bytes">>)
        /\ MethodOf(s(4)) = Method("mintWithData", AUB)
        /\ MethodOf(s(7)) = Method("safeMint", <<"address">>)
        /\ MethodOf(s(9)) = Method("mint", AU)
    BY <2>1, Types DEF MethodOf, Signature, Method, AU, AUB
  <2>3. \A i \in {3, 4, 7, 9} : s(i).conditions \subseteq {"oneToken", "noUri", "noIndex"}
    BY <2>1 DEF Signature
  <2> QED
    BY <1>3, <2>1, <2>2, <2>3, UsableSignature
<1>5. CASE dto.operation = "burn"
  <2>1. /\ {1, 2, 3} \subseteq DOMAIN Signatures(f, dto)
        /\ s(1) = Signature("burnWithData", <<"from", "tokenIndex", "data">>, {"oneToken"})
        /\ s(2) = Signature("burn", <<"tokenIndex">>, {"oneToken"})
        /\ s(3) = Signature("burn", <<"from", "tokenIndex">>, {"oneToken"})
    BY <1>5 DEF Signatures, ERC721Methods
  <2>2. /\ MethodOf(s(1)) = Method("burnWithData", AUB)
        /\ MethodOf(s(2)) = Method("burn", <<"uint256">>)
        /\ MethodOf(s(3)) = Method("burn", AU)
    BY <2>1, Types DEF MethodOf, Signature, Method, AU, AUB
  <2>3. \A i \in {1, 2, 3} : s(i).conditions \subseteq {"oneToken", "noUri", "noIndex"}
    BY <2>1 DEF Signature
  <2> QED
    BY <1>3, <2>1, <2>2, <2>3, UsableSignature
<1>6. CASE dto.operation = "transfer"
  <2>1. /\ 3 \in DOMAIN Signatures(f, dto)
        /\ s(3) = Signature("safeTransferFrom", <<"from", "to", "tokenIndex">>, {"oneToken"})
    BY <1>6 DEF Signatures, ERC721Methods
  <2>2. MethodOf(s(3)) = Method("safeTransferFrom", AAU)
    BY <2>1, Types DEF MethodOf, Signature, Method, AAU
  <2>3. s(3).conditions \subseteq {"oneToken", "noUri", "noIndex"}
    BY <2>1 DEF Signature
  <2> QED
    BY <1>2, <2>1, <2>2, <2>3, UsableSignature
<1>7. CASE dto.operation = "approval"
  <2>1. /\ {3, 4} \subseteq DOMAIN Signatures(f, dto)
        /\ s(3) = Signature("approve", <<"operatorOrZero", "tokenIndex">>, {"ofToken"})
        /\ s(4) = Signature("setApprovalForAll", <<"operator", "approved">>, {"ofAll"})
    BY <1>7 DEF Signatures, ERC721Methods
  <2>2. /\ MethodOf(s(3)) = Method("approve", AU)
        /\ MethodOf(s(4)) = Method("setApprovalForAll", <<"address", "bool">>)
    BY <2>1, Types DEF MethodOf, Signature, Method, AU
  <2>3. ~Skipped(s(3), dto) \/ ~Skipped(s(4), dto)
    <3>1. s(3).conditions = {"ofToken"} /\ s(4).conditions = {"ofAll"}
      BY <2>1 DEF Signature
    <3> QED
      BY <3>1 DEF Skipped
  <2> QED
    BY <1>2, <2>1, <2>2, <2>3, UsableSignature
<1> QED
  BY <1>4, <1>5, <1>6, <1>7 DEF TokenOperations

\* With each built-in ABI, every operation calls one of its methods, with all its
\* arguments, unless it is refused (getMethodAndParams, the ABIs of src/abi).
THEOREM AbisServe ==
  ASSUME NEW f \in BOOLEAN, NEW dto, dto.operation \in TokenOperations,
         NEW abi, abi \in IF f THEN FungibleABIs ELSE NonfungibleABIs,
         GetMethodAndParams(abi, f, dto) # BadRequest
  PROVE  /\ GetMethodAndParams(abi, f, dto).method \in abi
         /\ Len(GetMethodAndParams(abi, f, dto).params)
               = Len(GetMethodAndParams(abi, f, dto).method.inputs)
<1>1. Usable(abi, f, dto) # {}
  BY FungibleServed, NonfungibleServed
<1> QED
  BY <1>1, CallOfUsable
=============================================================================
