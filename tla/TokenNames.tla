------------------------------ MODULE TokenNames ------------------------------
(***************************************************************************)
(* The names of subscriptions and the locators of pools (tokens.util.ts).  *)
(* Both are all that the connector knows of a pool: it keeps no other      *)
(* record of it, and reads them back from each event and each request.     *)
(*                                                                         *)
(* A name is a text, which is the sequence of its parts between colons.  A *)
(* part that is a query string, as locators are, is the function from its  *)
(* keys to their values; one that is not has no key that a locator has.    *)
(***************************************************************************)
EXTENDS Integers, Sequences

CONSTANT Undefined   \* undefined, and null

Types == {"fungible", "nonfungible"}

\* encodeURIComponent leaves one part, whatever the text.
EncodeURIComponent(text) == [encoded |-> text]
DecodeURIComponent(part) == part.encoded

\* A version that keeps the data of a pool to itself (a mutation of
\* PackSubscriptionName).
PackWithoutData(poolLocator, event, poolData) == <<"fft", poolLocator, event>>

PackSubscriptionName(poolLocator, event, poolData) ==
    IF poolData = Undefined THEN <<"fft", poolLocator, event>>
    ELSE <<"fft", poolLocator, event, EncodeURIComponent(poolData)>>

UnpackSubscriptionName(name) ==
    LET hasData == Len(name) = 4 /\ name[1] = "fft"
    IN  [poolLocator |-> IF hasData \/ Len(name) \in {2, 3} THEN name[2] ELSE Undefined,
         event |-> IF hasData \/ Len(name) = 3 THEN name[3] ELSE Undefined,
         poolData |-> IF hasData THEN DecodeURIComponent(name[4]) ELSE Undefined]

PackPoolLocator(locator) ==
    [key \in {"address", "schema", "type"} |-> locator[key]]

Get(text, key) == IF key \in DOMAIN text THEN text[key] ELSE Undefined

\* "standard" is the deprecated name of the key "schema".
UnpackPoolLocator(text) ==
    [address |-> Get(text, "address"),
     schema |-> IF Get(text, "schema") # Undefined THEN Get(text, "schema")
                ELSE Get(text, "standard"),
     type |-> Get(text, "type")]

ValidatePoolLocator(locator) ==
    /\ locator.address # Undefined
    /\ locator.schema # Undefined
    /\ locator.type # Undefined
=============================================================================
