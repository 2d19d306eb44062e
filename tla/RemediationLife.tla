-------------------------- MODULE RemediationLife --------------------------
(***************************************************************************)
(* What a remediation session promises whoever reads its row: it works     *)
(* through a bounded number of attempts that are never counted back, then  *)
(* proposes a pull request at most once, and is closed for good only when  *)
(* that pull request was merged.  One that was closed because the leader   *)
(* of its incident fixed the problem may be taken up again by a run that   *)
(* was under way.  The engine that keeps this promise is in Remediation.   *)
(***************************************************************************)
EXTENDS Naturals

CONSTANT MaxAttempts

VARIABLES stage, tries, merged

vars == <<stage, tries, merged>>

Init == stage = "working" /\ tries = 1 /\ merged = FALSE

Retry ==
  /\ stage = "working" /\ tries < MaxAttempts
  /\ tries' = tries + 1
  /\ UNCHANGED <<stage, merged>>

GiveUp ==
  /\ stage \in {"working", "followed"}
  /\ stage' = "failed"
  /\ UNCHANGED <<tries, merged>>

Follow ==
  /\ stage = "working"
  /\ stage' = "followed"
  /\ UNCHANGED <<tries, merged>>

GoOn ==
  /\ stage = "followed"
  /\ stage' = "working"
  /\ UNCHANGED <<tries, merged>>

Propose ==
  /\ stage = "working"
  /\ stage' = "proposed"
  /\ UNCHANGED <<tries, merged>>

\* The pull request could not be opened, or its merge was reverted.
Withdraw ==
  /\ stage = "proposed"
  /\ stage' = "failed"
  /\ UNCHANGED <<tries, merged>>

Ship ==
  /\ stage = "proposed" /\ ~merged
  /\ merged' = TRUE
  /\ UNCHANGED <<stage, tries>>

Close ==
  /\ stage = "proposed" /\ merged
  /\ stage' = "done"
  /\ UNCHANGED <<tries, merged>>

Next == Retry \/ GiveUp \/ Follow \/ GoOn \/ Propose \/ Withdraw \/ Ship \/ Close

Spec == Init /\ [][Next]_vars
=============================================================================
