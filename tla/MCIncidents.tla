---------------------------- MODULE MCIncidents ----------------------------
(* An instance of Incidents for TLC. *)
EXTENDS Incidents, TLC

CONSTANTS l, s1, s2, s3

=============================================================================
