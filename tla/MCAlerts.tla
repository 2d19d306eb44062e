------------------------------ MODULE MCAlerts ------------------------------
(***************************************************************************)
(* Instances of Alerts for TLC.                                            *)
(***************************************************************************)
EXTENDS Alerts, TLC

CONSTANTS i1, i2, i3, e, revert, n1, n2, m

\* 3, 7 and 10 minutes with polls of 30, 60 and 120 seconds, shortened to one
\* poll each, of which the last comes after the watch should have ended.
MCPhases == << <<1, 1>>, <<2, 1>>, <<3, 2>> >>

CallSymmetry == Permutations(Ingests)
=============================================================================
