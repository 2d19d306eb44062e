--------------------------- MODULE MCRemediation ---------------------------
(* Instances of Remediation for TLC. *)
EXTENDS Remediation, TLC

\* Runs differ in nothing but their names (for runs of safety only).
RunSymmetry == Permutations(Runs)

=============================================================================
