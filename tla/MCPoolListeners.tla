--------------------------- MODULE MCPoolListeners ---------------------------
(* Constants of PoolListeners for TLC. *)
EXTENDS PoolListeners, TLC

CONSTANTS a1, a2, k1, d1, w1, Transfer, Approval, TokenPoolCreation

MCActivations == {a1, a2}
MCOneActivation == {a1}
MCCreations == {k1}
MCDeactivations == {d1}
MCConnections == {w1}
MCNone == {}
MCPoolEvents == {Transfer, Approval}
MCFactoryEvents == {TokenPoolCreation}

\* Activations, and the events of the pool, are interchangeable.
MCSymmetry == Permutations(MCActivations) \cup Permutations(MCPoolEvents)
=============================================================================
