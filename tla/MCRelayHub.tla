----------------------------- MODULE MCRelayHub -----------------------------
(***************************************************************************)
(* An instance of RelayHub for TLC.                                         *)
(***************************************************************************)
EXTENDS RelayHub, TLC

CONSTANTS u1, c1, c2, r1

MCUserOf == [c \in Conns |-> u1]
MCTarget == [r \in Reqs |-> u1]
=============================================================================
