------------------------------ MODULE MCZipVFS ------------------------------
(* ZipVFS for TLC: requests and keys are interchangeable.                  *)
EXTENDS ZipVFS, TLC

Symmetry == Permutations(Requests) \cup Permutations(Keys)
=============================================================================
