-------------------------- MODULE MCNotifications --------------------------
(***************************************************************************)
(* Instances of Notifications for TLC.                                     *)
(***************************************************************************)
EXTENDS Notifications, TLC

CONSTANTS a1, a2, chat, mail, i1, i2, i3, q1, q2, d1, d2

\* The escalation rule names one channel, for an alert that is not critical.
MailTarget == {<<a1, mail>>}
=============================================================================
