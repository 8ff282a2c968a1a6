------------------------ MODULE MCRequestLifecycle ------------------------
(* Two providers, so that a decline, an expiry and a reassignment each have *)
(* somebody to go to next, and enough rows to meet a stale one.            *)
EXTENDS RequestLifecycle, TLC

CONSTANTS p1, p2

ProvidersOfMarket == {p1, p2}

Interchangeable == Permutations(ProvidersOfMarket)
=============================================================================
