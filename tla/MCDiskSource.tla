---------------------------- MODULE MCDiskSource ---------------------------
(* DiskSource for TLC: one group with two projects, one with a single one. *)
EXTENDS DiskSource

CONSTANTS g1, g2, s1, s2, s3

MCGroups == {g1, g2}

MCSites == {s1, s2, s3}

MCGroupOf == [s \in MCSites |-> IF s = s3 THEN g2 ELSE g1]
=============================================================================
