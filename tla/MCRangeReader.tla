--------------------------- MODULE MCRangeReader ---------------------------
(* RangeReader for TLC: requests, and deflateReader objects, are           *)
(* interchangeable.                                                        *)
EXTENDS RangeReader, TLC

Symmetry == Permutations(Requests) \cup Permutations(Deflaters)
=============================================================================
