--------------------------- MODULE MCDomainCache ---------------------------
(* DomainCache for TLC: interchangeable callers and domains.               *)
EXTENDS DomainCache, TLC

Symmetry == Permutations(Clients) \cup Permutations(Domains)
=============================================================================
