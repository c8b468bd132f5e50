-------------------------- MODULE MCEventStreamProxy --------------------------
(* Constants of EventStreamProxy for TLC. *)
EXTENDS EventStreamProxy, TLC

CONSTANTS c1, c2, n1, n2

MCClients == {c1, c2}
MCNamespaces == {n1, n2}
MCOneNamespace == {n1}

\* Clients, and namespaces, are interchangeable.
MCSymmetry == Permutations(MCClients) \cup Permutations(MCNamespaces)
=============================================================================
