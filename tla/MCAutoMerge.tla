---------------------------- MODULE MCAutoMerge ----------------------------
(* Instances of AutoMerge for TLC. *)
EXTENDS AutoMerge, TLC

CONSTANTS o1, s1, s2

\* Two levels in place of three, of the same shape: more fixes, a higher
\* rate for the higher one.
MCLadder == << [fixes |-> 1, rate |-> 50, age |-> 1], [fixes |-> 3, rate |-> 65, age |-> 1] >>

Symmetry == Permutations({s1, s2})
=============================================================================
