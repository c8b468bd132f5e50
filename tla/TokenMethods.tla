----------------------------- MODULE TokenMethods -----------------------------
(***************************************************************************)
(* How a token operation becomes a call of a contract's method: the        *)
(* prioritized lists of methods of erc20.ts and erc721.ts, and their       *)
(* selection in abimapper.service.ts.  An operation is a record of what    *)
(* the caller asks for (TokenMint, TokenTransfer, TokenBurn,               *)
(* TokenApproval; a field that is not given is Unset).  Data is only       *)
(* copied, so its content is left out.                                     *)
(*                                                                         *)
(* The last part says what a call does to a contract, and what an          *)
(* operation asks for, as ERC-20 and ERC-721 define them.                  *)
(***************************************************************************)
EXTENDS Sequences, SequencesExt

CONSTANTS ZERO_ADDRESS

Unset == "unset"
UINT256_MAX == "unlimited"
Set(value, default) == IF value = Unset THEN default ELSE value
-----------------------------------------------------------------------------
(* The lists of methods *)

\* A method with the parameters it is given, and the conditions of its map():
\*   bySigner, ofToken, ofAll     it only serves some operations
\*   oneToken, noUri, noIndex     it makes the request fail for some operations
Signature(name, params, conditions) ==
    [name |-> name, params |-> params, conditions |-> conditions]

ParamType ==
    [operator |-> "address", operatorOrZero |-> "address", from |-> "address",
     to |-> "address", amount |-> "uint256", tokenIndex |-> "uint256",
     allowance |-> "uint256", approved |-> "bool", data |-> "bytes", uri |-> "string"]

ERC20Methods ==
    [approval |-> <<
        Signature("approveWithData", <<"operator", "allowance", "data">>, {}),
        Signature("approve", <<"operator", "allowance">>, {}) >>,
     burn |-> <<
        Signature("burnWithData", <<"from", "amount", "data">>, {}),
        Signature("burn", <<"amount">>, {"bySigner"}),
        Signature("burnFrom", <<"from", "amount">>, {}),
        Signature("burn", <<"from", "amount">>, {}) >>,
     mint |-> <<
        Signature("mintWithData", <<"to", "amount", "data">>, {}),
        Signature("mint", <<"to", "amount">>, {}) >>,
     transfer |-> <<
        Signature("transferWithData", <<"from", "to", "amount", "data">>, {}),
        Signature("transfer", <<"to", "amount">>, {"bySigner"}),
        Signature("transferFrom", <<"from", "to", "amount">>, {}) >>]

ERC721Methods ==
    [approval |-> <<
        Signature("approveWithData", <<"operatorOrZero", "tokenIndex", "data">>,
                  {"ofToken"}),
        Signature("setApprovalForAllWithData", <<"operator", "approved", "data">>,
                  {"ofAll"}),
        Signature("approve", <<"operatorOrZero", "tokenIndex">>, {"ofToken"}),
        Signature("setApprovalForAll", <<"operator", "approved">>, {"ofAll"}) >>,
     burn |-> <<
        Signature("burnWithData", <<"from", "tokenIndex", "data">>, {"oneToken"}),
        Signature("burn", <<"tokenIndex">>, {"oneToken"}),
        Signature("burn", <<"from", "tokenIndex">>, {"oneToken"}) >>,
     mint |-> <<
        Signature("mintWithURI", <<"to", "data", "uri">>, {"oneToken", "noIndex"}),
        Signature("mintWithURI", <<"to", "tokenIndex", "data", "uri">>, {"oneToken"}),
        Signature("mintWithData", <<"to", "data">>, {"oneToken", "noUri", "noIndex"}),
        Signature("mintWithData", <<"to", "tokenIndex", "data">>, {"oneToken", "noUri"}),
        Signature("safeMint", <<"to", "uri">>, {"oneToken", "noIndex"}),
        Signature("safeMint", <<"to", "tokenIndex", "uri">>, {"oneToken"}),
        Signature("safeMint", <<"to">>, {"oneToken", "noUri", "noIndex"}),
        Signature("safeMint", <<"to", "tokenIndex">>, {"oneToken", "noUri"}),
        Signature("mint", <<"to", "tokenIndex">>, {"oneToken", "noUri"}) >>,
     transfer |-> <<
        Signature("transferWithData", <<"from", "to", "tokenIndex", "data">>,
                  {"oneToken"}),
        Signature("safeTransferFrom", <<"from", "to", "tokenIndex", "data">>,
                  {"oneToken"}),
        Signature("safeTransferFrom", <<"from", "to", "tokenIndex">>, {"oneToken"}) >>]

Signatures(isFungible, dto) ==
    (IF isFungible THEN ERC20Methods ELSE ERC721Methods)[dto.operation]
-----------------------------------------------------------------------------
(* Selection *)

\* A method of an ABI is its name and the types of its inputs.
Method(name, inputs) == [name |-> name, inputs |-> inputs]
MethodOf(signature) ==
    Method(signature.name,
           [i \in DOMAIN signature.params |-> ParamType[signature.params[i]]])

\* map() returns undefined; without the check of the signer (a mutation of Skipped).
SkippedForAnySigner(signature, dto) ==
    \/ "ofToken" \in signature.conditions /\ dto.tokenIndex = Unset
    \/ "ofAll" \in signature.conditions /\ dto.tokenIndex # Unset
Skipped(signature, dto) ==
    \/ "bySigner" \in signature.conditions /\ dto.from # dto.signer
    \/ "ofToken" \in signature.conditions /\ dto.tokenIndex = Unset
    \/ "ofAll" \in signature.conditions /\ dto.tokenIndex # Unset

\* map() throws: checkAmount, verifyNoUri, verifyNoIndex.
Refused(signature, dto) ==
    \/ "oneToken" \in signature.conditions /\ dto.amount \notin {Unset, "1"}
    \/ "noUri" \in signature.conditions /\ dto.uri \notin {Unset, ""}
    \/ "noIndex" \in signature.conditions /\ dto.tokenIndex # Unset

Argument(param, dto) ==
    CASE param = "operatorOrZero" -> IF dto.approved THEN dto.operator ELSE ZERO_ADDRESS
      [] param = "allowance" ->
            IF dto.approved THEN Set(dto.allowance, UINT256_MAX) ELSE "0"
      [] param = "approved" -> IF dto.approved THEN "true" ELSE "false"
      [] param = "uri" -> Set(dto.uri, "")
      [] param = "data" -> "data"
      [] OTHER -> dto[param]

NoMethod == [method |-> Method("none", <<>>), params |-> <<>>]
BadRequest == [method |-> Method("refused", <<>>), params |-> <<>>]

Call(signature, dto) ==
    [method |-> MethodOf(signature),
     params |-> [i \in DOMAIN signature.params |-> Argument(signature.params[i], dto)]]

\* The signatures that the ABI has and that serve the operation, of which the first in
\* the list is called.
Usable(abi, isFungible, dto) ==
    LET signatures == Signatures(isFungible, dto)
    IN  {i \in DOMAIN signatures :
            MethodOf(signatures[i]) \in abi /\ ~Skipped(signatures[i], dto)}
GetMethodAndParams(abi, isFungible, dto) ==
    LET signatures == Signatures(isFungible, dto)
        calls == [i \in Usable(abi, isFungible, dto) |->
                     IF Refused(signatures[i], dto) THEN BadRequest
                     ELSE Call(signatures[i], dto)]
    IN  IF DOMAIN calls = {} THEN NoMethod ELSE calls[Min(DOMAIN calls)]

\* The answer of checkInterface for an operation; and one that offers one method only
\* (a mutation of GetAllMethods).
FirstMethodOnly(abi, isFungible, dto) ==
    LET known == SelectSeq(Signatures(isFungible, dto), LAMBDA s : MethodOf(s) \in abi)
    IN  IF known = <<>> THEN {} ELSE {MethodOf(Head(known))}
GetAllMethods(abi, isFungible, dto) ==
    abi \cap {MethodOf(s) : s \in ToSet(Signatures(isFungible, dto))}
-----------------------------------------------------------------------------
(* The ABIs of src/abi, without views and the methods of owners *)

AU == <<"address", "uint256">>
AUB == <<"address", "uint256", "bytes">>
AAU == <<"address", "address", "uint256">>
AAUB == <<"address", "address", "uint256", "bytes">>

ERC721Base ==
    {Method("approve", AU), Method("setApprovalForAll", <<"address", "bool">>),
     Method("safeTransferFrom", AAU), Method("safeTransferFrom", AAUB),
     Method("transferFrom", AAU)}
ERC721WithDataBase ==
    ERC721Base \cup
    {Method("approveWithData", AUB), Method("burnWithData", AUB),
     Method("setApprovalForAllWithData", <<"address", "bool", "bytes">>),
     Method("transferWithData", AAUB)}
ERC20Base ==
    {Method("approve", AU), Method("transfer", AU), Method("transferFrom", AAU)}

ERC20NoDataABI ==
    ERC20Base \cup {Method("burn", <<"uint256">>), Method("burnFrom", AU),
                    Method("mint", AU)}
ERC20NoDataLegacyABI == ERC20Base \cup {Method("burn", AU), Method("mint", AU)}
ERC20WithDataABI ==
    ERC20Base \cup {Method("approveWithData", AUB), Method("burnWithData", AUB),
                    Method("mintWithData", AUB), Method("transferWithData", AAUB)}
ERC721NoDataABI ==
    ERC721Base \cup {Method("burn", <<"uint256">>), Method("safeMint", <<"address">>)}
ERC721NoDataLegacyABI == ERC721Base \cup {Method("burn", AU), Method("mint", AU)}
ERC721WithDataV1aABI == ERC721WithDataBase \cup {Method("mintWithData", AUB)}
ERC721WithDataV1bABI ==
    ERC721WithDataV1aABI \cup
    {Method("mintWithURI", <<"address", "uint256", "bytes", "string">>)}
ERC721WithDataV2ABI ==
    ERC721WithDataBase \cup
    {Method("mintWithData", <<"address", "bytes">>),
     Method("mintWithURI", <<"address", "bytes", "string">>)}
TokenFactoryABI ==
    {Method("create", <<"string", "string", "bool", "bytes", "string">>)}
-----------------------------------------------------------------------------
(* Meaning *)

\* Where the arguments of one type are, and the first and the last of them.
Places(call, type) == {i \in DOMAIN call.params : call.method.inputs[i] = type}
FirstOf(call, type, default) ==
    IF Places(call, type) = {} THEN default ELSE call.params[Min(Places(call, type))]
LastOf(call, type) == call.params[Max(Places(call, type))]

\* What a call by this signer does.  A token has one owner, who is not named.
Meaning(call, signer, isFungible) ==
    LET value == FirstOf(call, "uint256", Unset)
        name == call.method.name
    IN  CASE name \in {"mint", "mintWithData", "mintWithURI", "safeMint"} ->
                [does |-> "mint", to |-> FirstOf(call, "address", Unset), value |-> value,
                 uri |-> FirstOf(call, "string", "")]
          [] name \in {"burn", "burnFrom", "burnWithData"} ->
                [does |-> "burn", value |-> value,
                 from |-> IF isFungible THEN FirstOf(call, "address", signer) ELSE "owner"]
          [] name \in {"transfer", "transferFrom", "transferWithData",
                       "safeTransferFrom"} ->
                [does |-> "transfer", value |-> value, to |-> LastOf(call, "address"),
                 from |-> IF \E i, j \in Places(call, "address") : i # j
                          THEN FirstOf(call, "address", signer) ELSE signer]
          [] name \in {"approve", "approveWithData"} ->
                [does |-> "approve", operator |-> FirstOf(call, "address", Unset),
                 value |-> value]
          [] OTHER ->
                [does |-> "approve all", operator |-> FirstOf(call, "address", Unset),
                 value |-> FirstOf(call, "bool", Unset)]

Asked(dto, isFungible) ==
    LET value == IF isFungible THEN dto.amount ELSE dto.tokenIndex
    IN  CASE dto.operation = "mint" ->
                [does |-> "mint", to |-> dto.to, value |-> value,
                 uri |-> IF isFungible THEN "" ELSE Set(dto.uri, "")]
          [] dto.operation = "burn" ->
                [does |-> "burn", value |-> value,
                 from |-> IF isFungible THEN dto.from ELSE "owner"]
          [] dto.operation = "transfer" ->
                [does |-> "transfer", value |-> value, to |-> dto.to, from |-> dto.from]
          [] dto.operation = "approval" /\ isFungible ->
                [does |-> "approve", operator |-> dto.operator,
                 value |-> IF dto.approved THEN Set(dto.allowance, UINT256_MAX) ELSE "0"]
          [] dto.operation = "approval" /\ ~isFungible /\ dto.tokenIndex # Unset ->
                [does |-> "approve", value |-> dto.tokenIndex,
                 operator |-> IF dto.approved THEN dto.operator ELSE ZERO_ADDRESS]
          [] OTHER ->
                [does |-> "approve all", operator |-> dto.operator,
                 value |-> IF dto.approved THEN "true" ELSE "false"]
=============================================================================
