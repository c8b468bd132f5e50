---------------------------- MODULE MCEventBatches ----------------------------
(* Constants of EventBatches for TLC: an ERC-20 pool without data and with a
   deprecated locator, an ERC-721 pool with one token, a factory, and a subscription
   of somebody else. *)
EXTENDS EventBatches

CONSTANTS a, b, coin, nft, factory, stray, data

MCAccounts == {a, b}
MCTokens == {1}
MCCoin ==
    [poolLocator |-> [address |-> coin, standard |-> "ERC20NoData", type |-> "fungible"],
     poolData |-> Undefined]
MCNft ==
    [poolLocator |-> PackPoolLocator([address |-> nft, schema |-> "ERC721NoData",
                                      type |-> "nonfungible"]),
     poolData |-> data]
MCPools == {MCCoin, MCNft}
MCFactory == [plain |-> factory]
MCFactories == {MCFactory}
MCStrays == {stray}

MCEvent(s, of, from, to, v) ==
    [signature |-> s,
     subscription |-> [of |-> of, event |-> s],
     blockNumber |-> 0, transactionIndex |-> 0, logIndex |-> 0,
     from |-> from, to |-> to, value |-> v]

MCEvents ==
    {MCEvent("Transfer", MCNft, x, y, 1) : x, y \in {a, ZERO_ADDRESS}}
        \cup {MCEvent("Transfer", MCNft, a, b, 1)}
        \cup {MCEvent("Transfer", MCCoin, x, y, 1) : x \in {a, ZERO_ADDRESS}, y \in {a, b}}
        \cup {MCEvent("Transfer", MCCoin, b, ZERO_ADDRESS, 1)}
        \cup {MCEvent("Approval", MCCoin, a, b, v) : v \in {0, 1}}
        \cup {MCEvent("Approval", MCNft, a, y, 1) : y \in {b, ZERO_ADDRESS}}
        \cup {MCEvent("ApprovalForAll", MCNft, a, b, v) : v \in {0, 1}}
        \cup {MCEvent("TokenPoolCreation", MCFactory, a, a, v) : v \in {0, 1}}
        \cup {MCEvent("Transfer", stray, a, b, 1), MCEvent("other", stray, a, b, 1)}
=============================================================================
