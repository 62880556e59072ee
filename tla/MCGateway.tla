----------------------------- MODULE MCGateway -----------------------------
(* Values for Gateway's constants, and the symmetry its runs use. *)
EXTENDS Gateway, TLC

MCZeroChain == << >>

Interchangeable == Permutations(Handlers) \cup Permutations(OfferIds)
=============================================================================
