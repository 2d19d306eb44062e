------------------------------- MODULE Alerts -------------------------------
(***************************************************************************)
(* Alerts of one project: ingestion (createAlertIfNew in                   *)
(* web/lib/webhooks/shared.ts), those who resolve and reopen alerts, and   *)
(* the monitor that watches a merged fix through them                      *)
(* (web/lib/ai/post-merge-monitor.ts).                                     *)
(*                                                                         *)
(* An error is named by its fingerprint.  A second occurrence is refused   *)
(* in two places that know nothing of each other: a key in Redis that      *)
(* lives for a day, and the partial unique index over open alerts.  Every  *)
(* statement of ingestion is an action, and several ingestions run at a    *)
(* time.  Maintenance windows, in which an occurrence leaves no trace, and *)
(* alerts without a fingerprint are left out.                              *)
(***************************************************************************)
EXTENDS Naturals, FiniteSets

CONSTANTS
  Rows,        \* room in the table of alerts; bounds how many there are
  Errors,      \* fingerprints
  RevertError, \* the one of the alert that the monitor raises
  Ingests,     \* calls of createAlertIfNew at a time, but for the monitor's
  Monitor,     \* the monitor's own
  Threshold,   \* alerts within five minutes that make the next a storm
  Phases,      \* <<end, poll>> of each phase, in ticks
  None

ASSUME AlertsAssumption ==
  /\ IsFiniteSet(Rows) /\ Threshold \in Nat \ {0}
  /\ RevertError \in Errors /\ Monitor \notin Ingests
  /\ None \notin Errors \cup Rows
  /\ Phases \in [1..3 -> Nat \X (Nat \ {0})]
  /\ Phases[1][1] < Phases[2][1] /\ Phases[2][1] < Phases[3][1]
  /\ Phases[1][2] <= Phases[2][2] /\ Phases[2][2] <= Phases[3][2]
  /\ Phases[1][1] + Phases[1][2] <= Phases[2][1]

VARIABLES
  err,        \* the error of each alert; None if there is no row
  open,       \* alerts that are not resolved
  told,       \* a notification about a storm was enqueued
  fresh,      \* alerts not older than five minutes
  key,        \* errors with a dedup key in Redis
  deleting,   \* errors whose key somebody is about to delete
  storm,      \* a row of incident_storms is active; nothing ends one
  pc, what,   \* an ingestion: where it is and its error
  grouped,    \* it has found or made a storm
  triggers,   \* it has made one
  mon,        \* the monitor; "passed" and "reverted" are the session's too
  fixed,      \* the alert whose fix was merged
  elapsed,    \* of the watch, in ticks
  since,      \* alerts inserted after the merge
  heard,      \* history: the fixed error has arrived again during the watch
  checked,    \* history: what the last poll before canary_slow saw of it
  closed,     \* history: alerts that were resolved at some time
  orphaned,   \* history: errors whose key outlived what it stood for
  mute        \* history: the alert that made a storm was refused or lost

table   == <<err, open, told, fresh>>
ingest  == <<pc, what, grouped, triggers>>
watch   == <<mon, fixed, elapsed, since, heard, checked>>
vars    == <<table, key, deleting, storm, ingest, watch, closed, orphaned, mute>>

Callers  == Ingests \cup {Monitor}
Duration == Phases[3][1]

TypeOK ==
  /\ err \in [Rows -> Errors \cup {None}]
  /\ open \subseteq {i \in Rows : err[i] # None}
  /\ \A i, j \in open : err[i] = err[j] => i = j          \* idx_alerts_dedup
  /\ told \in BOOLEAN /\ fresh \subseteq Rows
  /\ key \subseteq Errors /\ deleting \subseteq Errors
  /\ storm \in BOOLEAN
  /\ pc \in [Callers -> {"idle", "dedup", "storm", "trigger", "insert", "notify"}]
  /\ what \in [Callers -> Errors \cup {None}]
  /\ \A n \in Callers : pc[n] # "idle" => what[n] \in Errors
  /\ grouped \subseteq Callers /\ triggers \subseteq grouped
  /\ mon \in {"none", "watching", "reverting", "reverted", "passed", "crashed"}
  /\ fixed \in Rows \cup {None}
  /\ elapsed \in 0..(Duration + Phases[3][2])
  /\ since \subseteq Rows /\ checked \subseteq since /\ heard \in BOOLEAN
  /\ closed \subseteq Rows /\ orphaned \subseteq key /\ mute \in BOOLEAN

Init ==
  /\ err = [i \in Rows |-> None]
  /\ open = {} /\ told = FALSE /\ fresh = {}
  /\ key = {} /\ deleting = {} /\ storm = FALSE
  /\ pc = [n \in Callers |-> "idle"] /\ what = [n \in Callers |-> None]
  /\ grouped = {} /\ triggers = {}
  /\ mon = "none" /\ fixed = None /\ elapsed = 0 /\ since = {}
  /\ heard = FALSE /\ checked = {}
  /\ closed = {} /\ orphaned = {} /\ mute = FALSE

-----------------------------------------------------------------------------
Goto(n, from, to) == pc[n] = from /\ pc' = [pc EXCEPT ![n] = to]
OpenOf(e)         == {i \in open : err[i] = e}

\* The call returns, with or without an alert, or it throws.
Leave(n) ==
  /\ pc' = [pc EXCEPT ![n] = "idle"]
  /\ what' = [what EXCEPT ![n] = None]
  /\ grouped' = grouped \ {n} /\ triggers' = triggers \ {n}

Arrive(n, e) ==
  /\ n \in Ingests /\ e # RevertError
  /\ Goto(n, "idle", "dedup")
  /\ what' = [what EXCEPT ![n] = e]
  /\ heard' = (heard \/ (mon = "watching" /\ e = err[fixed]))
  /\ UNCHANGED <<table, key, deleting, storm, grouped, triggers, mon, fixed, elapsed,
                 since, checked, closed, orphaned, mute>>

\* SET NX: the first within a day goes on.
Claim(n) ==
  /\ Goto(n, "dedup", "storm")
  /\ what[n] \notin key
  /\ key' = key \cup {what[n]}
  /\ UNCHANGED <<table, deleting, storm, what, grouped, triggers, watch,
                 closed, orphaned, mute>>

Duplicate(n) ==
  /\ pc[n] = "dedup" /\ what[n] \in key
  /\ Leave(n)
  /\ UNCHANGED <<table, key, deleting, storm, watch, closed, orphaned, mute>>

\* Without Redis the index decides alone.  The key may have been set, and only
\* the answer lost.
ClaimUnavailable(n) ==
  /\ Goto(n, "dedup", "storm")
  /\ key' \in {key, key \cup {what[n]}}
  /\ UNCHANGED <<table, deleting, storm, what, grouped, triggers, watch,
                 closed, orphaned, mute>>

\* An active storm takes the alert in.
JoinStorm(n) ==
  /\ Goto(n, "storm", "insert")
  /\ storm
  /\ grouped' = grouped \cup {n}
  /\ UNCHANGED <<table, key, deleting, storm, what, triggers, watch,
                 closed, orphaned, mute>>

CountRecent(n) ==
  /\ ~storm
  /\ Goto(n, "storm", IF Cardinality(fresh) >= Threshold THEN "trigger" ELSE "insert")
  /\ UNCHANGED <<table, key, deleting, storm, what, grouped, triggers, watch,
                 closed, orphaned, mute>>

\* Another storm may have begun since the count.
TriggerStorm(n) ==
  /\ Goto(n, "trigger", "insert")
  /\ storm' = TRUE
  /\ grouped' = grouped \cup {n} /\ triggers' = triggers \cup {n}
  /\ UNCHANGED <<table, key, deleting, what, watch, closed, orphaned, mute>>

\* The next row; which one it is makes no difference.
Vacant ==
  LET rows == {i \in Rows : err[i] = None}
  IN IF rows = {} THEN {} ELSE {CHOOSE i \in rows : TRUE}

\* A defect: alerts of a storm are not given to the index.
InsertStormy(n) ==
  /\ Goto(n, "insert", "notify")
  /\ n \in grouped \/ OpenOf(what[n]) = {}
  /\ \E i \in Vacant :
       /\ err' = [err EXCEPT ![i] = what[n]]
       /\ open' = open \cup {i} /\ fresh' = fresh \cup {i}
       /\ since' = IF mon = "none" THEN since ELSE since \cup {i}
  /\ orphaned' = orphaned \ {what[n]}
  /\ UNCHANGED <<told, key, deleting, storm, what, grouped, triggers, mon, fixed,
                 elapsed, heard, checked, closed, mute>>

Insert(n) ==
  /\ Goto(n, "insert", "notify")
  /\ OpenOf(what[n]) = {}
  /\ \E i \in Vacant :
       /\ err' = [err EXCEPT ![i] = what[n]]
       /\ open' = open \cup {i} /\ fresh' = fresh \cup {i}
       /\ since' = IF mon = "none" THEN since ELSE since \cup {i}
  /\ orphaned' = orphaned \ {what[n]}
  /\ UNCHANGED <<told, key, deleting, storm, what, grouped, triggers, mon, fixed,
                 elapsed, heard, checked, closed, mute>>

\* ON CONFLICT DO NOTHING.  A storm that was made for this alert stays.
Conflict(n) ==
  /\ pc[n] = "insert"
  /\ OpenOf(what[n]) # {}
  /\ Leave(n)
  /\ mute' = (mute \/ n \in triggers)
  /\ UNCHANGED <<table, key, deleting, storm, watch, closed, orphaned>>

\* A defect: the alert that makes a storm is held back with the others.
NotifyUngrouped(n) ==
  /\ pc[n] = "notify"
  /\ UNCHANGED told
  /\ Leave(n)
  /\ UNCHANGED <<err, open, fresh, key, deleting, storm, watch, closed, orphaned, mute>>

\* Alerts of a storm are saved in silence, but for the one that made it.  A
\* failure to enqueue is swallowed.
Notify(n) ==
  /\ pc[n] = "notify"
  /\ \/ told' = (told \/ n \in triggers) /\ UNCHANGED mute
     \/ mute' = (mute \/ n \in triggers) /\ UNCHANGED told
  /\ Leave(n)
  /\ UNCHANGED <<err, open, fresh, key, deleting, storm, watch, closed, orphaned>>

\* The process ends or a statement throws.  The key is not taken back.
Crash(n) ==
  /\ pc[n] # "idle"
  /\ Leave(n)
  /\ mute' = (mute \/ n \in triggers)
  /\ orphaned' = IF pc[n] # "dedup" /\ OpenOf(what[n]) = {} /\ what[n] \in key
                   THEN orphaned \cup {what[n]} ELSE orphaned
  /\ UNCHANGED <<table, key, deleting, storm, watch, closed>>

-----------------------------------------------------------------------------
Close(i) ==
  /\ i \in open
  /\ open' = open \ {i}
  /\ closed' = closed \cup {i}

\* A defect: the key is forgotten.
ResolveQuietly(i) ==
  /\ Close(i)
  /\ UNCHANGED <<err, told, fresh, key, deleting, storm, ingest, watch, orphaned, mute>>

\* The dashboard and the alert service: the key goes too, but later, and
\* nobody waits for it.
Resolve(i) ==
  /\ Close(i)
  /\ deleting' = deleting \cup {err[i]}
  /\ UNCHANGED <<err, told, fresh, key, storm, ingest, watch, orphaned, mute>>

\* Links in notifications, the extension, webhooks, approvals, rollbacks and
\* the uptime poll resolve the row and leave the key.
ResolveElsewhere(i) ==
  /\ Close(i)
  /\ orphaned' = IF err[i] \in key THEN orphaned \cup {err[i]} ELSE orphaned
  /\ UNCHANGED <<err, told, fresh, key, deleting, storm, ingest, watch, mute>>

\* Refused by the index if the error has another open alert.
Reopen(i) ==
  /\ i \in closed \ open
  /\ OpenOf(err[i]) = {}
  /\ open' = open \cup {i}
  /\ deleting' = deleting \cup {err[i]}
  /\ UNCHANGED <<err, told, fresh, key, storm, ingest, watch, closed, orphaned, mute>>

DeleteKey(e) ==
  /\ e \in deleting
  /\ deleting' = deleting \ {e}
  /\ key' = key \ {e} /\ orphaned' = orphaned \ {e}
  /\ UNCHANGED <<table, storm, ingest, watch, closed, mute>>

\* Its failure is ignored.
DeleteKeyLost(e) ==
  /\ e \in deleting
  /\ deleting' = deleting \ {e}
  /\ orphaned' = IF e \in key THEN orphaned \cup {e} ELSE orphaned
  /\ UNCHANGED <<table, key, storm, ingest, watch, closed, mute>>

KeyExpires(e) ==
  /\ e \in key
  /\ key' = key \ {e} /\ orphaned' = orphaned \ {e}
  /\ UNCHANGED <<table, deleting, storm, ingest, watch, closed, mute>>

FiveMinutesPass ==
  /\ fresh' = {}
  /\ UNCHANGED <<err, open, told, key, deleting, storm, ingest, watch, closed, orphaned, mute>>

-----------------------------------------------------------------------------
(* startPostMergeMonitoring *)

Phase == CHOOSE p \in 1..3 : /\ elapsed < Phases[p][1]
                             /\ \A q \in 1..(p - 1) : elapsed >= Phases[q][1]

\* A fix of an alert was merged automatically; the alert stays as it is.
Merge(i) ==
  /\ mon = "none" /\ err[i] # None
  /\ mon' = "watching" /\ fixed' = i
  /\ UNCHANGED <<table, key, deleting, storm, ingest, elapsed, since, heard,
                 checked, closed, orphaned, mute>>

Recurred == {i \in since : err[i] = err[fixed]}

\* A defect: two signals are wanted in every phase.
EvidenceTwo(signals) == signals >= 2

\* Two signals are wanted in the first phase, later one is enough.
Evidence(signals) == signals >= IF Phase = 1 THEN 2 ELSE 1

\* Sleep, then look: Sentry and uptime answer anything, the table is asked
\* only if Sentry is quiet, and a query that fails counts for no recurrence.
Poll ==
  \E sentry, uptime \in 0..1, answers \in BOOLEAN :
    LET seen     == IF sentry = 0 /\ answers THEN Recurred ELSE {}
        recurred == IF seen # {} THEN 1 ELSE 0
        now      == elapsed + Phases[Phase][2]
    IN /\ mon = "watching"
       /\ elapsed' = now
       /\ checked' = IF Phase = 3 THEN checked ELSE seen
       /\ mon' = IF Evidence(sentry + uptime + recurred) THEN "reverting"
                 ELSE IF now < Duration THEN "watching" ELSE "passed"
       /\ UNCHANGED <<table, key, deleting, storm, ingest, fixed, since, heard,
                      closed, orphaned, mute>>

\* The pull request of the revert is opened; the alert about it takes the way
\* of every other.
Revert ==
  /\ mon = "reverting" /\ mon' = "reverted"
  /\ Goto(Monitor, "idle", "dedup")
  /\ what' = [what EXCEPT ![Monitor] = RevertError]
  /\ UNCHANGED <<table, key, deleting, storm, grouped, triggers, fixed, elapsed,
                 since, heard, checked, closed, orphaned, mute>>

\* Its branch does not exist, or GitHub refuses: the session says reverted.
RevertFails ==
  /\ mon = "reverting" /\ mon' = "reverted"
  /\ UNCHANGED <<table, key, deleting, storm, ingest, fixed, elapsed, since, heard,
                 checked, closed, orphaned, mute>>

\* Nothing takes the watch up again.
MonitorCrash ==
  /\ mon \in {"watching", "reverting"} /\ mon' = "crashed"
  /\ UNCHANGED <<table, key, deleting, storm, ingest, fixed, elapsed, since, heard,
                 checked, closed, orphaned, mute>>

-----------------------------------------------------------------------------
Ingest(n) ==
  \/ Claim(n) \/ Duplicate(n) \/ ClaimUnavailable(n) \/ JoinStorm(n) \/ CountRecent(n)
  \/ TriggerStorm(n) \/ Insert(n) \/ Conflict(n) \/ Notify(n)

Watch == Poll \/ Revert \/ RevertFails

Next ==
  \/ \E n \in Ingests, e \in Errors : Arrive(n, e)
  \/ \E n \in Callers : Ingest(n) \/ Crash(n)
  \/ \E i \in Rows : Resolve(i) \/ ResolveElsewhere(i) \/ Reopen(i) \/ Merge(i)
  \/ \E e \in Errors : DeleteKey(e) \/ DeleteKeyLost(e) \/ KeyExpires(e)
  \/ FiveMinutesPass
  \/ Watch \/ MonitorCrash

Spec == Init /\ [][Next]_vars

-----------------------------------------------------------------------------
\* A key stands for an open alert of its error, for an ingestion that is about
\* to insert one or for a deletion that is on its way: then what it refuses is
\* known.  Otherwise it is one of those left by a crash, a lost deletion or a
\* resolver that does not delete it.
KeyHasReason ==
  \A e \in key \ orphaned :
    \/ OpenOf(e) # {}
    \/ e \in deleting
    \/ \E n \in Callers : what[n] = e /\ pc[n] \in {"storm", "trigger", "insert"}

\* Of the alerts of a storm at least one is told, unless the alert that made
\* it was refused by the index or lost by a crash or a failed enqueue: those
\* leave a project whose alerts are silent from then on and nobody knows.
StormIsHeard ==
  storm /\ ~mute => \/ \E n \in Callers : n \in triggers
                         \/ told

\* Why a recurrence is not seen: the monitor hears of it through the table of
\* alerts only after the alert of the fixed error was resolved by somebody.
\* While that is open, ingestion refuses what the monitor waits for.
DeafWhileOpen == mon # "none" /\ Recurred # {} => fixed \in closed

\* docs/post-merge-monitor.md says of the question to the table that it catches
\* the error when it arrives by any webhook.  Then the first arrival during
\* the watch is not one that ingestion refuses, without a row.
RecurrenceIsSeen ==
  [][\A n \in Callers : heard /\ Recurred = {} /\ what[n] = err[fixed]
                          => ~Duplicate(n) /\ ~Conflict(n)]_vars

\* A fix does not pass if its error was in the table when the last poll before
\* canary_slow looked: what came in the first phase and was not enough to
\* revert is not forgotten by the second.
PassedMeansQuiet == mon = "passed" => checked = {}
=============================================================================
