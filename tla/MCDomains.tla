----------------------------- MODULE MCDomains -----------------------------
(* Domains for TLC: requests are interchangeable.                          *)
EXTENDS Domains, TLC

Symmetry == Permutations(Requests)
=============================================================================
