---------------------------- MODULE MCFileLocks ----------------------------
(***************************************************************************)
(* Instances of FileLocks for TLC.                                         *)
(***************************************************************************)
EXTENDS FileLocks, TLC

CONSTANTS r1, r2, r3, s1, s2, s3, f1, f2

\* Every run has a session of its own, or the last two share one.
Apart  == [r \in Runs |-> CASE r = r1 -> s1 [] r = r2 -> s2 [] OTHER -> s3]
Shared == [r \in Runs |-> IF r = r1 THEN s1 ELSE s2]
=============================================================================
