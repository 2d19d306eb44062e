------------------------- MODULE MCRemediationSlots -------------------------
(* Instances of RemediationSlots for TLC. *)
EXTENDS RemediationSlots, TLC

CONSTANTS s1, s2, s3, r1, r2, r3, r4, p1, p2

MCSessionOf == r1 :> s1 @@ r2 :> s2 @@ r3 :> s3 @@ r4 :> s1
MCProjectOf == s1 :> p1 @@ s2 :> p1 @@ s3 :> p2
=============================================================================
