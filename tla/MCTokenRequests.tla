---------------------------- MODULE MCTokenRequests ----------------------------
(* Constants of TokenRequests for TLC: the contracts of the built-in ABIs, two
   contracts with other methods, and a factory. *)
EXTENDS TokenRequests

CONSTANTS first, second

MCRequests == {first, second}

Token(type, supports, abi) == [type |-> type, supports |-> supports, abi |-> abi]

\* Contracts that only an interface describes: no burn, and indices with URIs.
OtherERC20ABI == ERC20Base \cup {Method("mint", AU)}
OtherERC721ABI ==
    ERC721Base \cup {Method("burn", <<"uint256">>),
                     Method("safeMint", <<"address", "uint256", "string">>)}

MCContracts ==
    {Token("fungible", {}, ERC20NoDataABI), Token("fungible", {}, ERC20NoDataLegacyABI),
     Token("fungible", {"ERC20WithDataIID"}, ERC20WithDataABI),
     Token("fungible", {}, OtherERC20ABI),
     Token("nonfungible", {}, ERC721NoDataABI),
     Token("nonfungible", {}, ERC721NoDataLegacyABI),
     Token("nonfungible", {"ERC721WithDataV1aIID"}, ERC721WithDataV1aABI),
     Token("nonfungible", {"ERC721WithDataV1bIID"}, ERC721WithDataV1bABI),
     Token("nonfungible", {"ERC721WithDataV2IID"}, ERC721WithDataV2ABI),
     Token("nonfungible", {}, OtherERC721ABI),
     Token("factory", {"TokenFactoryIID"}, TokenFactoryABI)}

\* A caller gives both an id and the interface, if the operation takes one, or neither.
With(d, type, given) ==
    [type |-> type, operation |-> d.operation, signer |-> "alice", from |-> d.from,
     to |-> "carol", operator |-> "carol", amount |-> d.amount,
     tokenIndex |-> d.tokenIndex, uri |-> d.uri, approved |-> d.approved,
     allowance |-> d.allowance, hasInterface |-> given /\ d.operation \in Invocations,
     hasId |-> given]

Op(operation) ==
    [operation |-> operation, from |-> "bob", amount |-> Unset, tokenIndex |-> Unset,
     uri |-> Unset, approved |-> TRUE, allowance |-> Unset]

FungibleOps ==
    {[Op("mint") EXCEPT !.amount = "5", !.uri = "uri"],
     [Op("approval") EXCEPT !.approved = FALSE],
     [Op("approval") EXCEPT !.allowance = "5"], Op("approval")}
        \cup {[Op(o) EXCEPT !.amount = "5", !.from = f] :
                 o \in {"transfer", "burn"}, f \in {"alice", "bob"}}
NonfungibleOps ==
    {[Op("mint") EXCEPT !.tokenIndex = t, !.uri = u] :
        t \in {Unset, "7"}, u \in {Unset, "uri"}}
        \cup {[Op(o) EXCEPT !.amount = "1", !.tokenIndex = "7"] :
                 o \in {"transfer", "burn"}}
        \cup {[Op("transfer") EXCEPT !.amount = "5", !.tokenIndex = "7"],
              [Op("approval") EXCEPT !.approved = FALSE, !.tokenIndex = "7"],
              Op("approval")}

AllDtos ==
    {With(d, "fungible", g) : d \in FungibleOps, g \in BOOLEAN}
        \cup {With(d, "nonfungible", g) : d \in NonfungibleOps, g \in BOOLEAN}
        \cup {With(Op("pool"), type, FALSE) : type \in {"fungible", "nonfungible"}}
        \cup {With(Op("create"), "factory", g) : g \in BOOLEAN}

\* The second request creates a pool, or mints an ERC-721 token with a URI.
MCDtos(r) ==
    IF r # second THEN AllDtos
    ELSE {d \in AllDtos :
             \/ d.operation \in {"pool", "create"}
             \/ /\ d.operation = "mint" /\ d.type = "nonfungible" /\ ~d.hasInterface
                /\ d.uri # Unset /\ d.tokenIndex = "7"}
=============================================================================
