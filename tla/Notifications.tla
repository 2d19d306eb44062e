---------------------------- MODULE Notifications ----------------------------
(***************************************************************************)
(* The notification queue (web/lib/notifications/send.ts), the passes over *)
(* it and the engines that escalate into it.  Two callers run a pass over  *)
(* the pending items and one over the digests: the worker's flush every    *)
(* 30 seconds and the poll.  Nothing keeps them apart, and an item is read *)
(* and marked in two statements.  Delivery is an effect outside the        *)
(* database: between it and its record the process may end.                *)
(*                                                                         *)
(* Exceptions inside a pass (decryption, a query) end it like a crash.     *)
(* All emails of the model go to one user, so one counter stands for the   *)
(* hourly, daily and global ones; Redis, which keeps it, answers.          *)
(***************************************************************************)
EXTENDS Naturals, FiniteSets

CONSTANTS
  Rows,          \* room in the table; bounds what can be enqueued
  Alerts, Channels,
  Emails,        \* channels of type email
  Critical,      \* alerts that are critical
  Targets,       \* <<alert, channel>>: what the escalation rules name
  Flushes,       \* calls of processNotificationQueue at a time
  Digests,       \* calls of processEmailDigests at a time
  Sweeps,        \* escalation that looks whether the alert was handled
  Pipelines,     \* triggerEscalation, which does not
  Batch,         \* batchSize
  DigestBatch,   \* how many rows a pass over the digests takes
  MaxAttempts,   \* MAX_RETRIES
  Quota,         \* emails in a window
  Closable,      \* channels that may be turned off
  MaxCrashes,    \* bound on passes that end early
  MaxRevivals,   \* bound on what an administrator puts back
  None

ASSUME NotificationsAssumption ==
  /\ IsFiniteSet(Rows)
  /\ MaxAttempts \in Nat \ {0} /\ Batch \in Nat \ {0} /\ DigestBatch \in Nat \ {0}
  /\ Quota \in Nat \ {0} /\ MaxCrashes \in Nat /\ MaxRevivals \in Nat
  /\ Emails \subseteq Channels /\ Closable \subseteq Channels /\ Critical \subseteq Alerts
  /\ Targets \subseteq Alerts \X Channels
  /\ None \notin Alerts \X Channels
  /\ Flushes \cap Digests = {}

VARIABLES
  item,        \* the alert and channel of each row; None if there is no row
  status, attempts,
  due,         \* rows whose nextRetry has passed
  log,         \* <<alert, channel>> with an entry in notification_logs
  off,         \* channels that are inactive, deleted or suppressed
  handled,     \* alerts that somebody read or resolved
  spent,       \* emails counted in this window; Quota stands for more, too
  endless,     \* the counter has no expiry
  pc, todo,    \* a pass: where it is, the rows it selected and has not begun
  hand,        \* the rows it is at
  seen,        \* attempts as it selected them
  ok,          \* what the channel answered
  aim,         \* what an engine is about to enqueue
  crashes, revivals,
  got, lost,          \* history: deliveries of which the channel told (2 is many)
                      \* and did not tell
  failures,           \* history: failed answers, the latter included
  contested,          \* history: rows that two passes had at a time
  stuck, torn,        \* history: rows whose pass ended while they were
                      \* processing, or between a digest and its record
  died, revived       \* history: rows that were dead, that were put back

queue   == <<item, status, attempts, due>>
world   == <<log, off, handled, spent, endless>>
pass    == <<pc, todo, hand, seen, ok>>
bounds  == <<crashes, revivals>>
history == <<got, lost, failures, contested, stuck, torn, died, revived>>
vars    == <<queue, world, pass, aim, bounds, history>>

Pairs   == Alerts \X Channels
Passes  == Flushes \cup Digests
Engines == Sweeps \cup Pipelines
Final   == {"sent", "failed", "dead", "purged"}

TypeOK ==
  /\ item     \in [Rows -> Pairs \cup {None}]
  /\ status   \in [Rows -> {"none", "pending", "digest", "processing"} \cup Final]
  /\ attempts \in [Rows -> 0..MaxAttempts]
  /\ due \subseteq Rows /\ log \subseteq Pairs /\ off \subseteq Channels
  /\ handled \subseteq Alerts /\ spent \in 0..Quota /\ endless \in BOOLEAN
  /\ pc   \in [Passes -> {"idle", "each", "load", "send", "mark", "log"}]
  /\ todo \in [Passes -> SUBSET Rows] /\ hand \in [Passes -> SUBSET Rows]
  /\ seen \in [Passes -> [Rows -> 0..MaxAttempts]]
  /\ ok   \in [Passes -> BOOLEAN]
  /\ aim  \in [Engines -> Pairs \cup {None}]
  /\ crashes \in 0..MaxCrashes /\ revivals \in 0..MaxRevivals
  /\ got \in [Rows -> 0..2]
  /\ lost \in [Rows -> 0..MaxAttempts] /\ failures \in [Rows -> 0..MaxAttempts]
  /\ contested \subseteq Rows /\ stuck \subseteq Rows /\ torn \subseteq Rows
  /\ died \subseteq Rows /\ revived \subseteq died

Init ==
  /\ item = [i \in Rows |-> None] /\ status = [i \in Rows |-> "none"]
  /\ attempts = [i \in Rows |-> 0] /\ due = {}
  /\ log = {} /\ off = {} /\ handled = {} /\ spent = 0 /\ endless = FALSE
  /\ pc   = [p \in Passes |-> "idle"]
  /\ todo = [p \in Passes |-> {}] /\ hand = [p \in Passes |-> {}]
  /\ seen = [p \in Passes |-> [i \in Rows |-> 0]]
  /\ ok   = [p \in Passes |-> FALSE]
  /\ aim  = [e \in Engines |-> None]
  /\ crashes = 0 /\ revivals = 0
  /\ got = [i \in Rows |-> 0] /\ lost = [i \in Rows |-> 0]
  /\ failures = [i \in Rows |-> 0]
  /\ contested = {} /\ stuck = {} /\ torn = {} /\ died = {} /\ revived = {}

-----------------------------------------------------------------------------
IsEmail(i)   == item[i] # None /\ item[i][2] \in Emails
ChannelOf(i) == item[i][2]
Priority(i)  == IF item[i][1] \in Critical THEN 0 ELSE 1

Goto(p, from, to) == pc[p] = from /\ pc' = [pc EXCEPT ![p] = to]
SetAll(S, v)      == status' = [i \in Rows |-> IF i \in S THEN v ELSE status[i]]

\* Rows that a pass selected and has not recorded yet.
Holding(p) == todo[p] \cup (IF pc[p] \in {"load", "send", "mark"} THEN hand[p] ELSE {})
HeldBeside(p) == UNION {Holding(q) : q \in Passes \ {p}}

\* The next row; which one it is makes no difference.
Vacant ==
  LET rows == {i \in Rows : item[i] = None}
  IN IF rows = {} THEN {} ELSE {CHOOSE i \in rows : TRUE}

AddRow(i, pair, v) ==
  /\ i \in Vacant
  /\ item'   = [item EXCEPT ![i] = pair]
  /\ status' = [status EXCEPT ![i] = v]
  /\ due'    = due \cup {i}
  /\ UNCHANGED attempts

\* enqueueAlert, for one channel: nothing else is written if the process ends
\* between two of them.
Enqueue(i, a, c) ==
  /\ c \notin off
  /\ \A j \in Rows : item[j] # <<a, c>>
  /\ AddRow(i, <<a, c>>, IF c \in Emails /\ a \notin Critical THEN "digest" ELSE "pending")
  /\ UNCHANGED <<world, pass, aim, bounds, history>>

\* A sweep looks only at alerts nobody has read or resolved; the pipeline at
\* its own.  Both ask the log, and neither asks the queue.
Look(e) ==
  /\ aim[e] = None
  /\ \E pair \in Targets \ log :
       /\ pair[1] \notin handled \/ e \in Pipelines
       /\ aim' = [aim EXCEPT ![e] = pair]
  /\ UNCHANGED <<queue, world, pass, bounds, history>>

\* A defect: the queue is asked too, so that a row that nobody will send
\* stands in for a notification.
EscalateUnlessQueued(e) ==
  /\ aim[e] # None
  /\ aim' = [aim EXCEPT ![e] = None]
  /\ IF \E j \in Rows : item[j] = aim[e]
       THEN UNCHANGED queue
       ELSE \E i \in Rows : AddRow(i, aim[e], "pending")
  /\ UNCHANGED <<world, pass, bounds, history>>

Escalate(e) ==
  /\ aim[e] # None
  /\ aim' = [aim EXCEPT ![e] = None]
  /\ \E i \in Rows : AddRow(i, aim[e], "pending")
  /\ UNCHANGED <<world, pass, bounds, history>>

-----------------------------------------------------------------------------
(* processNotificationQueue *)

\* A defect: nextRetry is asked and the status is not.
ReadyWhatever == {i \in due : status[i] # "none"}

Ready == {i \in due : status[i] = "pending"}

FirstOf(S, n) ==
  {F \in SUBSET S :
     /\ Cardinality(F) <= n
     /\ Cardinality(F) < n => F = S
     /\ \A i \in F, j \in S \ F : Priority(i) <= Priority(j)}

Select(p, S) ==
  /\ todo' = [todo EXCEPT ![p] = S]
  /\ seen' = [seen EXCEPT ![p] = [i \in Rows |-> IF i \in S THEN attempts[i] ELSE 0]]
  /\ contested' = contested \cup (S \cap HeldBeside(p))
  /\ UNCHANGED <<queue, world, hand, ok, aim, bounds,
                 got, lost, failures, stuck, torn, died, revived>>

Fetch(f) ==
  /\ Goto(f, "idle", "each")
  /\ \E S \in FirstOf(Ready, Batch) : Select(f, S)

\* The row is marked without a look at what it has become.
Take(f) ==
  /\ Goto(f, "each", "load")
  /\ \E i \in todo[f] :
       /\ \A j \in todo[f] : Priority(i) <= Priority(j)
       /\ todo' = [todo EXCEPT ![f] = @ \ {i}]
       /\ hand' = [hand EXCEPT ![f] = {i}]
       /\ SetAll({i}, "processing")
  /\ UNCHANGED <<item, attempts, due, world, seen, ok, aim, bounds, history>>

\* The pass is through with the rows it has.
Free(p) ==
  /\ hand' = [hand EXCEPT ![p] = {}]
  /\ seen' = [seen EXCEPT ![p] = [i \in Rows |-> IF i \in todo[p] THEN @[i] ELSE 0]]
  /\ ok'   = [ok EXCEPT ![p] = FALSE]

\* A defect: an item whose channel is off is left as it is.
DeclineSilently(f) ==
  /\ Goto(f, "load", "each")
  /\ \E i \in hand[f] : ChannelOf(i) \in off
  /\ Free(f)
  /\ UNCHANGED <<queue, world, todo, aim, bounds, history>>

\* The channel is inactive or gone, or the address is suppressed.
Decline(f) ==
  /\ Goto(f, "load", "each")
  /\ \E i \in hand[f] : ChannelOf(i) \in off /\ SetAll({i}, "failed")
  /\ Free(f)
  /\ UNCHANGED <<item, attempts, due, world, todo, aim, bounds, history>>

\* checkEmailRateLimit: INCR and compare, also when it refuses.  The first of
\* a window sets the expiry, which may be lost: nobody waits for it.
Charge ==
  /\ spent' = IF spent < Quota THEN spent + 1 ELSE spent
  /\ endless' \in IF spent = 0 THEN BOOLEAN ELSE {endless}

\* Refused: five minutes later, without an attempt.
Postpone(f) ==
  /\ Goto(f, "load", "each")
  /\ spent >= Quota /\ Charge
  /\ \E i \in hand[f] :
       /\ IsEmail(i) /\ ChannelOf(i) \notin off
       /\ SetAll({i}, "pending")
       /\ due' = due \ {i}
  /\ Free(f)
  /\ UNCHANGED <<item, attempts, log, off, handled, todo, aim, bounds, history>>

\* The log of an email is written first, since its links carry the log's key.
Prepare(f) ==
  /\ Goto(f, "load", "send")
  /\ spent < Quota /\ Charge
  /\ \E i \in hand[f] :
       /\ IsEmail(i) /\ ChannelOf(i) \notin off
       /\ log' = log \cup {item[i]}
  /\ UNCHANGED <<queue, off, handled, todo, hand, seen, ok, aim, bounds, history>>

CountFor(p, count, most) ==
  [i \in Rows |-> IF i \in hand[p] /\ count[i] < most THEN count[i] + 1 ELSE count[i]]

\* Accepted; refused; accepted, but the answer did not arrive.
Answered(p) ==
  \/ /\ ok' = [ok EXCEPT ![p] = TRUE]
     /\ got' = CountFor(p, got, 2)
     /\ UNCHANGED <<lost, failures>>
  \/ /\ ok' = [ok EXCEPT ![p] = FALSE]
     /\ failures' = CountFor(p, failures, MaxAttempts)
     /\ lost' \in {lost, CountFor(p, lost, MaxAttempts)}
     /\ UNCHANGED got

Send(f) ==
  /\ \/ Goto(f, "send", "mark")
     \/ /\ Goto(f, "load", "mark")
        /\ \E i \in hand[f] : ~IsEmail(i) /\ ChannelOf(i) \notin off
  /\ Answered(f)
  /\ UNCHANGED <<queue, world, todo, hand, seen, aim, bounds,
                 contested, stuck, torn, died, revived>>

\* Emails have been logged; for the others the entry comes after the mark.
Marked(f) ==
  \E i \in hand[f] :
    IF IsEmail(i) THEN Goto(f, "mark", "each") /\ Free(f)
                  ELSE Goto(f, "mark", "log") /\ UNCHANGED <<hand, seen, ok>>

MarkSent(f) ==
  /\ ok[f] /\ Marked(f) /\ SetAll(hand[f], "sent")
  /\ UNCHANGED <<item, attempts, due, world, todo, aim, bounds, history>>

\* A defect: nothing is ever given up.
MarkRetryForever(f) ==
  /\ ~ok[f] /\ Marked(f) /\ SetAll(hand[f], "pending")
  /\ \E i \in hand[f] : attempts' = [attempts EXCEPT ![i] = seen[f][i] + 1]
  /\ due' = due \ hand[f]
  /\ UNCHANGED <<item, world, todo, aim, bounds, history>>

\* The count goes on from the row as it was selected.
MarkRetry(f) ==
  /\ ~ok[f] /\ Marked(f) /\ SetAll(hand[f], "pending")
  /\ \E i \in hand[f] :
       /\ seen[f][i] + 1 < MaxAttempts
       /\ attempts' = [attempts EXCEPT ![i] = seen[f][i] + 1]
  /\ due' = due \ hand[f]
  /\ UNCHANGED <<item, world, todo, aim, bounds, history>>

\* A defect: given up one attempt early.
MarkDeadEarly(f) ==
  /\ ~ok[f] /\ Marked(f) /\ SetAll(hand[f], "dead")
  /\ \A i \in hand[f] : seen[f][i] + 2 >= MaxAttempts
  /\ died' = died \cup hand[f]
  /\ UNCHANGED <<item, attempts, due, world, todo, aim, bounds,
                 got, lost, failures, contested, stuck, torn, revived>>

\* attempts itself is not written.
MarkDead(f) ==
  /\ ~ok[f] /\ Marked(f) /\ SetAll(hand[f], "dead")
  /\ \A i \in hand[f] : seen[f][i] + 1 >= MaxAttempts
  /\ died' = died \cup hand[f]
  /\ UNCHANGED <<item, attempts, due, world, todo, aim, bounds,
                 got, lost, failures, contested, stuck, torn, revived>>

Record(f) ==
  /\ Goto(f, "log", "each")
  /\ log' = log \cup {item[i] : i \in hand[f]}
  /\ Free(f)
  /\ UNCHANGED <<queue, off, handled, spent, endless, todo, aim, bounds, history>>

\* At its end a pass deletes dead rows that are old; any may be.
EndFlush(f) ==
  /\ Goto(f, "each", "idle")
  /\ todo[f] = {}
  /\ \E old \in SUBSET {i \in Rows : status[i] = "dead"} : SetAll(old, "purged")
  /\ UNCHANGED <<item, attempts, due, world, todo, hand, seen, ok, aim, bounds, history>>

-----------------------------------------------------------------------------
(* processEmailDigests: one email for each channel, and nothing is marked  *)
(* before it has been sent.                                                *)

FetchDigests(d) ==
  LET waiting == {i \in Rows : status[i] = "digest"} IN
  /\ Goto(d, "idle", "each")
  /\ waiting # {}
  /\ \E S \in FirstOf(waiting, DigestBatch) : Select(d, S)

Group(d, c) == {i \in todo[d] : ChannelOf(i) = c}

TakeGroup(d, c) ==
  /\ Group(d, c) # {}
  /\ todo' = [todo EXCEPT ![d] = @ \ Group(d, c)]

DeclineGroup(d, c) ==
  /\ c \in off
  /\ Goto(d, "each", "each")
  /\ TakeGroup(d, c)
  /\ SetAll(Group(d, c), "failed")
  /\ UNCHANGED <<item, attempts, due, world, hand, seen, ok, aim, bounds, history>>

\* Left for the next cycle.
PostponeGroup(d, c) ==
  /\ c \notin off /\ spent >= Quota /\ Charge
  /\ Goto(d, "each", "each")
  /\ TakeGroup(d, c)
  /\ UNCHANGED <<queue, log, off, handled, hand, seen, ok, aim, bounds, history>>

\* One log entry for the email, under the first of its alerts.
PrepareGroup(d, c) ==
  /\ c \notin off /\ spent < Quota /\ Charge
  /\ Goto(d, "each", "send")
  /\ TakeGroup(d, c)
  /\ hand' = [hand EXCEPT ![d] = Group(d, c)]
  /\ \E i \in Group(d, c) : log' = log \cup {item[i]}
  /\ UNCHANGED <<queue, off, handled, seen, ok, aim, bounds, history>>

SendGroup(d) ==
  /\ Goto(d, "send", "mark")
  /\ Answered(d)
  /\ UNCHANGED <<queue, world, todo, hand, seen, aim, bounds,
                 contested, stuck, torn, died, revived>>

\* A defect: the rows are marked only if sending failed.
MarkGroupFailed(d) ==
  /\ Goto(d, "mark", "each")
  /\ IF ok[d] THEN UNCHANGED status ELSE SetAll(hand[d], "failed")
  /\ Free(d)
  /\ UNCHANGED <<item, attempts, due, world, todo, aim, bounds, history>>

\* A digest is not tried again.
MarkGroup(d) ==
  /\ Goto(d, "mark", "each")
  /\ SetAll(hand[d], IF ok[d] THEN "sent" ELSE "failed")
  /\ Free(d)
  /\ UNCHANGED <<item, attempts, due, world, todo, aim, bounds, history>>

EndDigests(d) ==
  /\ Goto(d, "each", "idle")
  /\ todo[d] = {}
  /\ UNCHANGED <<queue, world, todo, hand, seen, ok, aim, bounds, history>>

-----------------------------------------------------------------------------
\* The process ends, or something in the pass throws.
Crash(p) ==
  LET unrecorded == IF pc[p] \in {"load", "send", "mark"} THEN hand[p] ELSE {} IN
  /\ pc[p] # "idle" /\ crashes < MaxCrashes
  /\ pc' = [pc EXCEPT ![p] = "idle"]
  /\ todo' = [todo EXCEPT ![p] = {}] /\ hand' = [hand EXCEPT ![p] = {}]
  /\ seen' = [seen EXCEPT ![p] = [i \in Rows |-> 0]] /\ ok' = [ok EXCEPT ![p] = FALSE]
  /\ crashes' = crashes + 1
  /\ stuck' = IF p \in Flushes THEN stuck \cup unrecorded ELSE stuck
  /\ torn'  = IF p \in Digests /\ pc[p] = "mark" THEN torn \cup unrecorded ELSE torn
  /\ UNCHANGED <<queue, world, aim, revivals, got, lost, failures, contested, died, revived>>

\* retryDeadNotification, by an administrator whose page shows the row as
\* dead.  It was when the page was loaded; what it is now is not asked.
Revive(i) ==
  /\ i \in died /\ status[i] # "purged"
  /\ revivals < MaxRevivals /\ revivals' = revivals + 1
  /\ status'   = [status EXCEPT ![i] = "pending"]
  /\ attempts' = [attempts EXCEPT ![i] = 0]
  /\ due'      = due \cup {i}
  /\ revived'  = revived \cup {i}
  /\ UNCHANGED <<item, world, pass, aim, crashes, got, lost, failures, contested,
                 stuck, torn, died>>

TurnOff(c) ==
  /\ c \in Closable
  /\ off' = off \cup {c}
  /\ UNCHANGED <<queue, log, handled, spent, endless, pass, aim, bounds, history>>

Handle(a) ==
  /\ handled' = handled \cup {a}
  /\ UNCHANGED <<queue, log, off, spent, endless, pass, aim, bounds, history>>

RetryDue(i) ==
  /\ status[i] = "pending"
  /\ due' = due \cup {i}
  /\ UNCHANGED <<item, status, attempts, world, pass, aim, bounds, history>>

\* A defect: every increment sets the counter's expiry again.
WindowEndsIdle ==
  /\ spent \in 1 .. (Quota - 1) /\ ~endless
  /\ spent' = 0
  /\ UNCHANGED <<queue, log, off, handled, endless, pass, aim, bounds, history>>

WindowEnds ==
  /\ spent > 0 /\ ~endless
  /\ spent' = 0
  /\ UNCHANGED <<queue, log, off, handled, endless, pass, aim, bounds, history>>

-----------------------------------------------------------------------------
Flush(f) ==
  \/ Fetch(f) \/ Take(f) \/ Decline(f) \/ Postpone(f) \/ Prepare(f) \/ Send(f)
  \/ MarkSent(f) \/ MarkRetry(f) \/ MarkDead(f) \/ Record(f) \/ EndFlush(f)

Digest(d) ==
  \/ FetchDigests(d) \/ SendGroup(d) \/ MarkGroup(d) \/ EndDigests(d)
  \/ \E c \in Channels : DeclineGroup(d, c) \/ PostponeGroup(d, c) \/ PrepareGroup(d, c)

Next ==
  \/ \E i \in Rows, a \in Alerts, c \in Channels : Enqueue(i, a, c)
  \/ \E e \in Engines : Look(e) \/ Escalate(e)
  \/ \E f \in Flushes : Flush(f)
  \/ \E d \in Digests : Digest(d)
  \/ \E p \in Passes : Crash(p)
  \/ \E i \in Rows : Revive(i) \/ RetryDue(i)
  \/ \E c \in Channels : TurnOff(c)
  \/ \E a \in Alerts : Handle(a)
  \/ WindowEnds

Spec == Init /\ [][Next]_vars

\* The worker's and the poll's schedules start passes and sweeps for ever, a
\* pass that has not crashed goes on, and time passes.
Fairness ==
  /\ \A f \in Flushes : WF_vars(Flush(f))
  /\ \A d \in Digests : WF_vars(Digest(d))
  /\ \A e \in Sweeps : WF_vars(Look(e) \/ Escalate(e))
  /\ \A i \in Rows : WF_vars(RetryDue(i))
  /\ WF_vars(WindowEnds)
FairSpec == Spec /\ Fairness

-----------------------------------------------------------------------------
\* An item is delivered a second time only because the answer to the first
\* delivery did not arrive, and not more than MAX_RETRIES times, unless two
\* passes had it at a time, the process ended between sending a digest and
\* recording it, or an administrator put it back.
SentOnce ==
  \A i \in Rows \ (contested \cup torn \cup revived) :
    got[i] <= 1 /\ got[i] + lost[i] <= MaxAttempts

\* Whatever passes overlap and whatever counts they lose: a row is given up
\* only after MAX_RETRIES deliveries of it have failed, and no row counts
\* attempts that were not made.
DeadWasTried ==
  \A i \in Rows : /\ attempts[i] <= failures[i]
                  /\ status[i] = "dead" => failures[i] >= MaxAttempts

\* A row is "processing" only while a pass has it, or for ever because the
\* pass ended early: no path through a pass forgets one.
NothingForgotten ==
  \A i \in Rows : status[i] = "processing" =>
    i \in stuck \/ \E f \in Flushes : i \in hand[f] /\ pc[f] \in {"load", "send", "mark"}

\* What has been settled stays settled, unless two passes had the row or an
\* administrator puts it back.
FinalStays ==
  [][\A i \in Rows \ contested : status[i] \in Final /\ status'[i] # status[i] =>
       status'[i] = "purged" \/ Revive(i)]_vars

\* Every notification is settled, however often it was postponed and whatever
\* competes with it for a batch and the quota, unless its pass ended early or,
\* of an email, the counter of the quota was left without an expiry.
Settles ==
  \A i \in Rows :
    (status[i] \in {"pending", "digest"}) ~>
      \/ status[i] \in Final \/ i \in stuck
      \/ IsEmail(i) /\ endless

\* An escalation that nobody handles reaches the point of being sent, also if
\* the row of an earlier one was lost by a crash: a row in the queue does not
\* count as a notification.  An email may wait for ever as above.
EscalationTries ==
  \A pair \in Targets :
    <>(\/ pair \in log \/ pair[1] \in handled \/ pair[2] \in off
       \/ pair[2] \in Emails /\ endless)
=============================================================================
