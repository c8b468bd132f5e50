----------------------------- MODULE AtLeastOnce -----------------------------
(***************************************************************************)
(* What the event stream proxy promises, seen from outside: EVMConnect     *)
(* moves past a batch of a namespace only after a client of the proxy has  *)
(* acknowledged that batch, and a client only ever acknowledges a batch    *)
(* EVMConnect has reached.  So no batch is lost, batches of a namespace    *)
(* are completed in order, and a batch may be delivered more than once.    *)
(***************************************************************************)
EXTENDS Naturals

CONSTANTS Namespaces, MaxBatch

VARIABLES
    acked,    \* the <<namespace, batch number>> pairs acknowledged by clients
    current   \* the batch EVMConnect is waiting to complete, per namespace

Init ==
    /\ acked = {}
    /\ current = [n \in Namespaces |-> 1]

ClientAcks(n, b) ==
    /\ b <= current[n]
    /\ acked' = acked \cup {<<n, b>>}
    /\ UNCHANGED current

Advance(n) ==
    /\ <<n, current[n]>> \in acked
    /\ current' = [current EXCEPT ![n] = @ + 1]
    /\ UNCHANGED acked

Next == \E n \in Namespaces :
            Advance(n) \/ \E b \in 1..MaxBatch : ClientAcks(n, b)

Spec == Init /\ [][Next]_<<acked, current>>
=============================================================================
