# InariWatch in TLA+

InariWatch watches production applications, turns what they throw into alerts,
and lets an AI fix the code: it reads the repository, writes a patch, pushes a
branch, waits for CI, opens a pull request and, when a project allows it, merges
it and watches what follows. This directory holds TLA+ models of the parts of
that system where several actors share state, the TLC runs that check them on
small instances, and proofs, checked by TLAPS, of what holds for instances of
every size. Paths below are relative to the repository.

- [The system](#the-system): its parts, their state and what makes them hard
- [Modules](#modules): which module models what, and how it follows the code
- [Runs](#runs): what each run checks, its bounds and its fairness
- [Proofs](#proofs): what is proved, from what, along which argument
- [Where code and text disagree](#where-code-and-text-disagree)
- [What is not modelled](#what-is-not-modelled)
- [Plan](#plan)

## The system

### Remediation (`web/lib/ai`)

A **session** (a row of `remediation_sessions`) is one attempt of the system to
fix one alert. `runRemediation` (remediate.ts, 2900 lines) is its engine: a
function that a page's event stream calls, that runs in the server process for
up to half an hour, and whose only memory between two calls is the row.

| part | state | operations | who calls it |
|---|---|---|---|
| engine, `remediate.ts` | the row: status, attempt, number of the pull request, checkpoint; on GitHub a branch, its commits, check runs, a pull request | analyze, wait for an incident's leader, read, attempt (generate, scan, review, push, poll CI, retry a flake), staging, E2E, gates, pull request, merge, monitor, fail | the event stream, webhooks, pollers, chats, scripts |
| concurrency limits, `concurrency.ts` | none of its own: counts over the sessions' rows | `canStartRemediation` | the engine, at the start of every run |
| file locks, `concurrency.ts` | rows of `remediation_locks`, key (repo, path), with an expiry | acquire (sweep, insert, look, force-release, sleep), release | the engine before it reads the files; `fail()` |
| incident correlation | rows of `remediation_incidents`: a list of sessions, a leader, a status | detect, resolve followers | the engine, after analysis |
| gates, circuit breaker, trust level | `gate_telemetry`; past sessions of the project; `projects.autoMergeConfig` | evaluate, record, bypass; save and tune the settings | the engine before the pull request, administrators, jobs after an approval or a cancellation |
| post-merge monitor | `monitoringStatus` of the row | poll three signals for ten minutes, revert, complete | the engine after an automatic merge |
| rollout, automatic rollback | `rollout_runs`, `cron_locks` | start, advance, roll back | operators, webhooks |
| spend guard, quotas, AI gate | a Redis counter per day; counters in memory | reserve, reconcile; acquire, release | every call of a model |
| users | a click | approve, cancel (dashboard), approve (Slack, Telegram), feedback (MCP) | |

What makes it hard: the status in the row is the only thing by which all of these
see each other, and it is written without a condition: the engine overwrites
what a user wrote and the reverse. Opening the page again starts another run of
the same session, whether the first is alive or not. A crash may fall between
any two writes. CI moves on between the poll and the merge. Limits are counts
and locks are rows that expire, neither in a transaction.

What makes it correct: a merge happens only on the commit that CI has judged; a
session does not end in a state that looks as if somebody still worked on it;
"completed" means merged; attempts are bounded and never counted back; two
sessions do not edit one file at a time; no more sessions run than the limits
say.

### Relay (`services/relay`, `desktop/src-tauri/src/relay_client.rs`)

A Go server that lets the web application run a task on a user's machine. The
desktop application (the sidecar) keeps a WebSocket open to it; `POST /dispatch`
looks the user's connection up, sends a frame and waits for the frame with the
same request id. State: the hub (user to connection), for each connection a
buffered channel and a table of waiting requests, a channel per request.
Operations: register, unregister, dispatch, deliver, time out, ping.

What makes it hard: a read loop, a write loop and any number of dispatch handlers
per connection, with two mutexes and three kinds of channel between them;
reconnections overtake the end of the connection they replace; a request may be
answered, time out and be cut off at once. What makes it correct: a live sidecar
can be reached; nobody waits for ever; a task is run at most once, and the answer
says no more than what is known.

### Who may merge (`web/lib/ai`: gates, trust level, circuit breaker, monitor)

A fix is merged with nobody looking if the project's settings allow it, if the
project has earned the level, and if the gates pass. The level is computed each
time from the rows of its sessions (`trust-level.ts`); the monitor's verdict is a
column of the same rows. The settings are one JSON value that runs read at their
start, that administrators save, and that jobs nobody waits for read and write
back. The circuit breaker in front of a gate has no state: open, half-open and
closed are read off the last rows of `gate_telemetry`. Hard: rows are written by
runs, users and the monitor without a look at what they are; what was never
watched counts in one place and not in the other; reads and writes of one value
are far apart. Correct: no level without fixes that held, no verdict undone by
the order of two writes, no gate waved through more often than it has failed for.

### Incident correlation (`web/lib/ai/incident-correlation.ts`)

A session that starts while others of its project are active waits for one of
them and is completed with it. State: rows of `remediation_incidents` (a leader,
a list of sessions, a status). There is no election and no lock: each run picks,
reads and writes back on its own. Hard: circles, lists written over each other,
a leader that ended while its follower was choosing it. Correct: nobody is
completed without a fix, every wait ends, and no row is left behind.

### Alerts and notifications (`web/lib/webhooks`, `web/lib/notifications`, `worker`)

Webhooks, pollers and SDKs hand events to `createAlertIfNew`, which drops
duplicates (a Redis key for a day, then a unique index over open alerts), groups
storms, inserts the alert, and queues notifications. The worker flushes that
queue every 30 s and the cron route does so as well; escalation has two engines
that write to the same queue. State: `alerts`, the Redis keys,
`incident_storms`, `notification_queue` (pending, processing, sent, dead,
digest), `notification_logs`. Hard: overlapping passes, a crash between
"processing" and "sent", counts written from a row as it was read, a key that
outlives its alert. Correct: every notification is settled, and sent once unless
two passes had it or one crashed; what ingestion refuses is known; the monitor
does not pass over what it saw.

### Capture SDKs (`capture`, five more languages)

Collectors in the user's application and a transport with a bounded retry buffer
that concurrent sends share. Correct: an event is sent, or there is a reason that
it was dropped.

### The rest

The CLI (`cli`) is a single-process engine for one repository. The desktop
application (`desktop`) is the sidecar above and much around the operating
system. `packages/ai-router` and `crates` translate requests to models and search
code. `vscode`, `action`, `mcp`, `bot-app`, `capture-mcp`, `capture-replay`,
`ops-agent` and `ml-sidecar` are clients and small services; `infra`, `k6`,
`scripts` and `specs` configure and measure. `PROJECT.json` lists each with the
reason why it is or is not modelled, and the hazards of the code line by line
with the properties that watch over them.

## Modules

| module | models | checked by | proved in |
|---|---|---|---|
| `RelayDispatch` | what a dispatch promises its caller (abstract) | | |
| `RelayHub` | the relay and the sidecar's connection; implements `RelayDispatch` | `MCRelayHub` | `RelayHub_proofs` |
| `LeaseLocks` | what a lock promises the session that takes it (abstract) | | |
| `FileLocks` | `acquireFileLocks`, `releaseFileLocks` and the engine's use of them; implements `LeaseLocks` | `MCFileLocks` | `FileLocks_proofs` |
| `RemediationLife` | what a session's row promises its readers (abstract) | | |
| `Remediation` | `runRemediation`, CI, GitHub, users; implements `RemediationLife` | `MCRemediation` | `Remediation_proofs` |
| `RemediationSlots` | `canStartRemediation` among everything that writes rows | `MCRemediationSlots` | `RemediationSlots_proofs` |
| `AutoMerge` | trust ladder, settings and their writers, from the gates to the monitor's verdict | `MCAutoMerge` | `AutoMerge_proofs` |
| `CircuitBreaker` | the breaker in front of a gate, and the runs that use it | `MCCircuitBreaker` | `AutoMerge_proofs` |
| `Incidents` | `detectIncident`, `resolveIncidentFollowers`, the wait for a leader | `MCIncidents` | `Incidents_proofs` |
| `Alerts` | `createAlertIfNew`, resolvers, the monitor over the alerts | `MCAlerts` | `Alerts_proofs` |
| `Notifications` | the queue, its passes, digests, escalation | `MCNotifications` | `Notifications_proofs` |

`CircuitBreaker` has no passing run: what it does is not what is said of it, and
its one run shows that.

The operators that begin with the comment "A defect" are mutations of the action
beneath them; no specification uses them. They are what each property was tried
against: substituted for the action they violate it.

### RelayHub

One action per critical section of one goroutine: between two of them any other
may run. `reader`, `writer` and `disp` are the program counters of `readLoop`,
`writeLoop` and `dispatchToUser`; `hub` and `pending` are the maps behind the
two mutexes; `send` is the buffered channel (capacity `BufCap`, 16 in the code)
whose `QueueSend` drops a frame rather than block; `respCh` the one-slot channel
of a request. `up` and `down` are the two directions of the wire, in order and
without loss, as WebSocket gives them; what is lost is lost by the closing of
the socket. The sidecar (`side`) handles one frame at a time, as `connect_once`
does, so while it runs a task it answers no ping: `ReadFails` may then end the
read loop although nothing is wrong. `SidecarGone` is the application quitting
(the socket closes) or the machine vanishing (it does not, and only a time limit
notices). A connection in `Hasty` belongs to a client that speaks before it
registers.

`ran` is a history variable: which requests a sidecar has started. With it
`RelayDispatch` says that a task runs at most once, that "ok" is said only of one
that ran, and "offline" only of one that will not. `late` is another: requests that
entered the pending table of a connection after `unregister` had drained it
(ws.go:355). Nothing wakes those but their deadline, although ws.go:277-278 says that
every awaiter sees a disconnect; `WaiterCanBeWoken` is stated for the others, with
"in the table" meaning the table of a connection that is still to be drained.

### FileLocks

Each query is one action: the sweep of expired rows, the insert, the select after
a failed insert, the delete of an expired row, the release. The engine's
deviations are in it: a query that throws is caught and the run goes on without a
lock (`Throws`); success and the last failure of CI keep the locks to their
expiry (`Finish`); `fail()` deletes by session without waiting (`Release`), so a
second run of the session may lose what it just acquired. `InsertThrows` covers
an insert that was done although its answer was lost. Times are what is left of
them, so the clock is not bounded: `left` counts a row down to -1, expired;
`lease` what the run that acquired it believes. One repository is modelled, since
rows of two never meet.

`exposed` is a history variable: files on which one of the two races happened
(an insert between another run's select and delete of the expired row, a release
that comes late). `Exclusive` is stated for the others.

`LeaseLocks` is what is left without rows, queries and runs: a file is leased to
one session for a term that only runs down, the session may or may not know of it,
and while it counts on the lease nothing but the term ends it. A row that has
expired maps to no lease, so the sweep and the force-release are steps that it
does not see; a session counts on a lease while one of its runs holds the lock.
`exposed` maps to the files of which nothing is promised.

### Remediation

One session; `Runs` are calls of `runRemediation` for it. An action ends where
the code next writes the row or next asks GitHub or CI something. The answers of
models, scans, reviews, staging and the configurable gates are free choices;
whatever they answer, what the engine does with it is in the model. Of the gates
only those over CI and E2E are fixed (`MayAutoMerge`), since the properties speak
of them. A branch is a run's own or the one of its managed agent; a commit is a
number, and a new one has no checks yet. CI is `CheckMoves`: a check of a head
appears, runs and ends, at any time or never; that a user has GitHub run a check
again is left out. It ends passed, skipped (neutral too), failed (timed out too)
or cancelled (stale and action_required too), and `CiStatus`, like
`getCheckRunsStatus`, takes only the third for a failure. Whether the run could
read what branch protection requires is chosen when it begins to wait (`known`): if
not, or if nothing is required, all that is reported counts, otherwise what is
required and has appeared. `Mergeable` is what GitHub demands of a merge.

A run may end without a word in the row (pc "left"). What throws before the try
of remediate.ts:470 escapes `runRemediation`, and the stream only tells the page
(`Escape`). A follower whose leader completed returns whether
`resolveIncidentFollowers` closed its own row or not (`FollowLeader`): that writes
the rows which the incident's list has, and `joined` says whether this row is among
them. So another session's follower may close the row while its own run goes on,
and a run that closed it may itself go on if something throws next
(`ResolvedByFollower`). In `RemediationLife` that is the stage "followed", from which
a session may be taken up again.

The loops are the code's: attempts (`att` against `maxAttempts`), flake retries
on the same branch with the same fix, staging's retry. `verdict` has a value for
each way out of the CI poll: success, failure, running at the time limit, and
nothing reported at the time limit, which the code treats as success but for the
gate; `judged` is a history variable, the checks that it was given over. `Fail` is
every path that ends in `fail()`; `AutoMergeThrows` an exception
at or after the merge, whose status stays. `Crash` stops a run between any two
actions. `Start` is the event stream: a run starts whenever the row is in no
terminal status.

Users: `ApproveReads` to `ApproveEnds` are `approveRemediation` in the four steps
in which it reads, marks, merges and closes. `ApproveInChat` is the button in
Slack and Telegram, which only writes a status. `Cancel` and `Feedback` write
theirs without looking.

### RemediationSlots

The rows of all sessions, reduced to what the counts tell apart, and everybody
who writes them: `Create` (seven entry points, most of which do not look whether
the alert has a session already), `Open` (the stream), both counts of
`canStartRemediation` as two steps, `Phase` and `Finish` (the engine), `Crash`,
`Close` (cancel, feedback, the leader's resolution, the cleanup script),
`Approve`, and the restart script, which reads rows and later overwrites them.
`loose` is a history variable: sessions whose live run no longer has the row that
it was counted by, because a second run or an outsider wrote it.

### AutoMerge

The table of a project's sessions with what each run of the engine does to it
from its creation to the verdict, several runs at a time. `status`, `watch`
(`monitoringStatus`) and `pr` are what the row and GitHub hold. `Succeeded` is
the SQL of `getProjectTrustLevel` with its NULL: a row that was never watched has
`monitoringStatus` NULL, and NULL <> 'reverted' is not true. `mine` is the
settings as the run read them, `copy` those that a read-modify-write holds
(`checkAndTuneConfidence`, `checkAndSuggestAutonomous`, `updateConfigField`).
The gates but for the settings and the level answer as they like. `Work` writes
the row over a cancellation, as the engine does; `ApproveReads` to `ApproveEnds`
are the approval's four steps; `Feedback` is the MCP tool. `Legacy` is what a
project may have from before the ladder stood in front of the gates. `vouched` is
a history variable: of what a user has said that it worked.

### CircuitBreaker

`trail` is the newest rows of a gate within two hours, `hot` whether the newest
is younger than fifteen minutes: that is all `getCircuitState` reads. A run asks
(`Ask`), is waved through or evaluates, and records; a row may never be written
since nobody waits for it (`Lose`); `Skip` is a run whose gate
has no data and is not recorded. A gate that was waved through is recorded as passed, as
remediate.ts:2584-2586 does. `failures`, `bypasses`, `lost` and `real` (whose result
is an answer of the gate itself) are histories.
`Runs` are slots: one runs again and again.

### Incidents

One action per query of `detectIncident` and `resolveIncidentFollowers`, and the
wait between them. The engine asks with no files, so the branch over common files
never decides and sessions are related by time alone. A follower polls its leader
until its deadline (`left`), proceeds when the leader failed or the time is up,
and otherwise resolves the incident and returns. `read` is the list as the run
read it, so that `Join` writes back what may be stale. `erased` is a history
variable: sessions dropped from a list by such a write; `fixed` says that some
session was completed by its own run or by a user.

### Alerts

The statements of `createAlertIfNew`: the key, the storm (look, count, insert),
the insert with its index, the notification. Several ingestions run at a time,
and each may end anywhere. Resolvers are of two kinds, those that delete the key
(later, and nobody waits) and the many that do not. The monitor sleeps and polls
through three phases; Sentry and uptime answer anything, the table is asked as
the code asks it, and a query that fails counts as "no recurrence"
(post-merge-monitor.ts:153). Redis may carry out a SET and lose the answer
(`ClaimUnavailable`), and a failure to enqueue is swallowed (`Notify`). `told`
records that a storm was told of, `checked` what the poll before canary_slow saw,
`heard` that the fixed error arrived during the watch, `orphaned` and `mute` what
went wrong where.

### Notifications

A pass of `processNotificationQueue` goes through pc "each", "load", "send",
"mark", "log" for one row after the other, a pass of the digests for one channel
after the other; any number of both overlap, as those of the worker and of the
poll do. `seen` is the row's attempts as the pass selected it: the next count is
written from there. Delivery happens at `Send` and is recorded at `Mark...`;
between them a pass may end (`Crash`). A channel answers that it accepted or that it
did not, and in the second case it may have accepted all the same (`Answered`):
email.ts:49 and the others turn every exception into a failure, also that of an
answer which did not arrive. `got` counts deliveries that were told of, `lost` those
that were not. The counter of the quota gets its expiry from the first increment in
a call of its own that nobody waits for (rate-limit.ts:34-37), so it may stay
without one (`endless`). That Redis does not answer at all, and the counts over
`notification_logs` that then stand in for the counter, are left out. A revival is
of a row that some page showed as dead (`died`), whatever it has become since.
`Look` and `Escalate` are the two engines,
which ask `notification_logs` and not the queue. `contested`, `stuck`, `torn` and
`revived` are histories of who interfered with a row.

## Runs

`tlc -config <cfg> <module>`. Deadlock is not checked: in every model a state
in which all requests are answered, all runs have ended, or nobody acts, is a
legitimate end.

| run | expects | properties | distinct states |
|---|---|---|---|
| `relay` | pass | `TypeOK`, `LiveIsReachable`, `HubNotStale`, `NoPendingLeak`, `WaiterCanBeWoken`, `ServiceSpec`, `EveryDispatchAnswered`, `GoneIsForgotten` | 223 000 |
| `locks` | pass | `Exclusive`, `ValidLockStays`, `LeaseSpec`, `LockingEnds` | 381 000 |
| `remediation` | pass | `PushesBounded`, `MergesOnItsVerdict`, `KeepsPromise`, `RunEnds` | 343 000 |
| `remediation_shared` | pass | `Settled`, `CompletedIsMerged` | 1 102 000 |
| `slots` | pass | `WithinLimits` | 922 000 |
| `automerge` | pass | `TypeOK`, `TrustIsBacked`, `FixesAreNeeded`, `LevelIsEarned` | 685 000 |
| `breaker` | violation | `ClosesByProbe` | |
| `incidents` | pass | `FixBehindIt`, `OnlyErasedAreLeft`, `WaitsEnd` | 600 000 |
| `alerts` | pass | `TypeOK`, `KeyHasReason`, `StormIsHeard`, `PassedMeansQuiet` | 3 017 000 |
| `recurrence` | violation | `RecurrenceIsSeen` | |
| `notifications` | pass | `TypeOK`, `SentOnce`, `DeadWasTried`, `NothingForgotten`, `FinalStays` | 2 125 000 |
| `escalation` | pass | `Settles`, `EscalationTries` | 231 000 |

Where a component's type invariant is proved for every instance and no other
property of the run needs it (locks, remediation, slots, incidents), TLC
is not asked again.

**relay**: one user, two connections, one request, a buffer of one frame; the
first connection's client may speak too early. Two connections are what a
reconnection needs: the old one's end races the new one's registration and the
request that holds the old one. It shows that neither makes a live sidecar look
offline, leaves an entry behind or a waiter that nobody wakes, that the relay
implements what `RelayDispatch` promises, that every dispatch is answered, and
that what is gone is forgotten. Its safety is proved for any number of users,
connections and requests; two requests on one connection (36 000 states) were
checked as well while the module was written.

**locks**: two runs of different sessions, two files, one of the runs with
queries that fail; lease, deadline and sleep of one tick, the shortest at which
each can expire before, with and after the others. It shows exclusion outside
the two races, that nobody else's valid lock is taken, that every step is one of
`LeaseLocks`, and that the wait ends although the deadline starts anew with each
force-release.

**remediation**: two runs one after the other (the second is the restart after a
crash or a closed page), two attempts, one flake retry, two checks of which one is
required, with the managed agent, staging, the container agent's tests and the
monitor. Two attempts and one retry are the least at which the counters can be
confused; with one check that is required and one that is not, a verdict over what
is required differs from one over what is reported. Checks pass or fail here; that
they are cancelled is in the shared run and the theorem, and that they are skipped,
which GitHub and the code take for passed, in the theorem. The run
shows that a merge rests on a verdict, what that verdict was on, and that nothing it
was on has failed or changed; not that CI passed, which is untrue of the code (below).
That attempts and retries nest without
multiplying (`PushesBounded`) is seen here as at most three commits of a run.
**remediation_shared**: two runs at once and every user action, with one attempt,
one required check that passes, fails or is cancelled, an E2E framework and no staging. One attempt is enough, since what is checked is
how the session ends. The runs are interchangeable, hence the symmetry.
**slots**: three sessions, two in one project, four runs of which two belong to
one session, limits 2 and 3. Each limit can be reached by the sessions there are,
by sessions of one project or of two, and a session can have a second run.

**automerge**: two new sessions and one of before the ladder, one writer of the
settings, a ladder of two rungs of the same shape as the code's three, one day.
Two sessions are the least that can spend one record twice; the old one is what
lets the ladder be climbed at all. It shows that what is merged with nobody
looking is paid for by fixes that held or that a user vouched for, that `fixesToNextLevel` never asks for more than
is needed, and that the level rises only by what should raise it, whatever the
order of monitor, approval, feedback and cancellation.
**breaker**: three slots, threshold 3; a finding (below). What the breaker does do,
that a slot is waved through at most once for each threshold of failures, but for its
own lost rows (`BypassesAreRationed`), is a theorem.
**incidents**: an open proposal and three sessions that correlate at a time, one
incident, five minutes of one tick, one session with failing queries and a user.
Three sessions form every circle that matters and two joins over a stale list. It
shows that followers complete nobody without a fix, that rows are left active by
a follower that returned only if a concurrent write dropped them or they lead an
incident, and that every wait ends. That such rows exist, and that completed rows
are worked on again, was confirmed on the same instance.

**alerts**: two rows, an error and the monitor's own, two ingestions beside the
monitor's, storms from the second alert on, the three phases with one poll each,
of which the last overshoots. Two ingestions race for the key, the storm and the
index; two rows are a fixed alert and its recurrence. The ingestions are
interchangeable. **recurrence**: the same with one ingestion; a finding (below).
**notifications**: one row that an alert's enqueue and an escalation compete for,
two passes and two digest passes, two attempts, a quota of one email, one crash,
two revivals, a channel that may be turned off, answers that are lost. Each
interference needs two passes over one row; what rows do to each other, through
the batch and the quota, is a question of the next run.
**escalation**: one alert, three rows, of which the first is a digest and the others
are escalations, one sweep, one pass and one digest pass, a batch, a digest batch
and a quota of one each, one crash. The rows compete for all three; one of them may
be lost by the crash while its escalation is due. There is one attempt: retries
differ from postponements only in their number, and are in the run of safety.

### Fairness

- *relay*: goroutines are scheduled, reads and writes on
  a dead connection fail in the end (`readWait` and the ping of `writeLoop`), a
  context with a deadline expires, a sidecar that runs goes on. Nobody has to
  dial, dispatch or quit.
- *locks*: queries return and the clock runs. A run that is editing need not end.
- *remediation*: a run that is alive goes on to one of its
  next steps, since each of its waits (CI, the leader, staging, monitoring) has a
  limit. CI and users need not act, nothing has to fail. `RunEnds` says "ended,
  queued or crashed": it is about loops, not about the host.
- *incidents*: time passes, and a run that waits looks at its leader again: both
  are timers of a live process. Leaders need not end, users need not act.
- *notifications*, *escalation*: the schedules of the worker and the poll start
  passes and sweeps for ever, a pass that has not crashed goes on, retries become
  due, and the quota's window ends if its counter has an expiry. If that was lost
  the window never ends, and `Settles` and `EscalationTries` say so of emails.
  Nobody has to deliver a message; what fails goes through its attempts. The second
  engine (`Pipelines`) need not run.
- All other runs are of safety and assume nothing.

## Proofs

TLAPS checks the following for every value of the constants that satisfies the
module's assumption, that is for any number of runs, requests, sessions and files.

**Relay** (`RelayHub_proofs`, from `RelayAssumption`).
`TypeCorrect`: in particular no send channel exceeds its capacity.
`HubCorrect`: `LiveIsReachable` and `HubNotStale`. They are inductive together
with the fact that what the hub holds is a connection that has registered
(`HubInv`): alone, `Unregister` of an old connection could not be told from one
that takes the new one out. `PendingCorrect`: `NoPendingLeak` and
`WaiterCanBeWoken`, the latter for requests that are not `late`; the strengthening
(`PendingInv`) says for each step of a
handler where its entry and its channel stand.
`RelayImplementsService`: the relay refines `RelayDispatch`. A task runs at most
once because the frame of a request exists at most once: in the channel, on the
wire, or read (`FrameInv`, which counts along sequences by positions). "ok" needs
that a response is only on the wire, or in the request's channel, after the task
was started; "offline" that such a request never gets a frame (`RanInv`).

**Locks** (`FileLocks_proofs`, from `LocksAssumption`).
`TypeCorrect`; `ExclusiveCorrect`; `ValidLockStaysCorrect`. The inductive
invariant relates the row to the run's belief. `LeaseBacked`: as long as a run
believes in a lock on a file outside the races, the row is its session's and has
exactly that much left, so belief never outlives the row. `ForceSound`: a run
about to delete a row has found an expired one there, unless the file is exposed.
`IdleClean`: a run that has not begun holds nothing.
`LocksImplementLeases`: `LeaseSpec`, from the same invariant, with a lemma for
each kind of step: one that changes no row that counts (`QuietMove`), an insert
(`FilledMove`), the discovery of the session's own row (`OwnMove`), a release
(`ReleaseMove`), the clock (`TickMove`). Where a run ends, what it believed is
forgotten or another run of its session still believes it; `BelieversHold` says
that there is nothing in between. `OnlyTheWindowVoids`: if no session has two runs
(`OneRunEach`), a release comes when nobody of its session holds anything
(`ReleasersFailed`), so that the force-release window is the one race that is left.

**Remediation** (`Remediation_proofs`, from `RemediationAssumption`).
`TypeCorrect`: in particular attempts and flake retries stay within their limits.
`PushesAreBounded`: `PushesBounded`, at most one commit for each attempt, one for
each flake retry and one for the E2E workflow. Three loops nest here, and from the
limits of the counters alone there could be a round of flake retries in every
attempt. The invariant (`Frugal`) keeps a budget of what a run may have pushed so
far, by its attempt, its retries and whether this try is pushed. It rests on a fact
that is spread over three places of the code: a flake retry needs the container
agent's tests to have passed, only a first attempt calls the container agent, and
every attempt forgets the verdict of the one before (`green` implies the first
attempt). A step pays for its commit from the budget; a new attempt leaves the
retries it did not use.
`RunsOnlyGoOn` is the part of `RunEnds` that the prover can reach: every step of a
run that is alive raises its attempt, its retry or its place in this try, in that
order, and nobody else's step touches them. What remains of `RunEnds` is that an
alive run takes a step, which is fairness and that some step is always enabled.
`MergesJudged`: if the repository has no E2E framework, every run that goes on to
merge has seen CI succeed on the head it merges; whatever is required, known or
not, whatever the checks' conclusions, and whatever other runs, users, CI and crashes
do. The invariant (`AllJudged`) carries the verdict from the poll to the merge: from
"staging" on, the head is the one that was polled, and of the checks the verdict was
on none has failed (`Judged`; that a success is on something that is over is
`SuccessIsJudged`). It rests on each branch having one run that commits to it
(`OtherRun`, `OwnRun`) and on checks that do not change once they have ended. The
hypothesis is needed: the E2E fallback commits after the verdict.
`SessionsSettle`: `Settled`, for every number of overlapping runs. A row that is
not at its end has somebody who goes on to write it, a crashed run, a user, or is
being analyzed and a run has left it without a word (`SomebodyWrites`); what is
proposed has its pull request's number or somebody about to save it
(`ProposalIsSaved`). `CompletedCorrect`: `CompletedIsMerged`, since
a run has no pull request until it opens one and what it completes with it has
merged (`PrInv`). `EngineKeepsPromise`: `Remediation` implements `RemediationLife`,
if runs do not overlap and users do nothing (`Alone`), with any number of crashes
and new runs of the row, throws before the try, and followers that close it. The
invariant relates the row to the one run there is: its stage to where the run is,
its attempt to the run's own count (`LifeInv`). A run that has read the code is alone
in writing the row, since followers close only what is being analyzed or queued
(`InAttemptStep`, `FollowedStage`). Without the hypothesis it does not hold: a second
run takes the row back to work, and an approval may mark a merged session failed
(below).

**Slots** (`RemediationSlots_proofs`, from `SlotsAssumption`).
`SlotsTypeCorrect`. `LimitsHold`: `WithinLimits`. The invariant `Counted` says
that a session that nobody else moved has one run, and that its row is active
from before it counts until it stops counting. So the count that lets a session
in counts all those that are in, and itself; the last to count decides, and an
interleaving can only refuse more. Cardinalities come from the library's theorems
on finite sets.

**Automatic merges** (`AutoMerge_proofs`, from `AutoMergeAssumption`).
`AutoMergeTypeCorrect`; in particular only what was merged automatically is ever
watched. `MergesAreBacked`: `TrustIsBacked`, for every ladder, any number of
sessions and of runs that finish together. The invariant says where the trust was
spent: from `ReadTrust` on, a run that may merge stands for a record that was
there when it looked, and what counted in it cannot stop having been merged,
watched or vouched for (`CompletedIsVouched`). `NothingComesFromNothing`: with
nothing watched from before and no user's word, nothing is ever merged
automatically. With no row that counts every run is untrusted, and an untrusted run
makes no row that counts; the two keep each other up. That is a consequence of the
NULL in the query and no promise of the system, whose documents say otherwise
(below): it is proved because it says how far the disagreement goes, and no run
checks it.
`LevelsAreEarned`: `LevelIsEarned`. What is chosen is the highest level met
(`LevelIsHighest`, by well-founded induction on the levels), and a step that adds no
row, no day and nothing that counts cannot meet one more. `MissingAreNeeded`:
`FixesAreNeeded`, for every ladder whose levels ask for more and more, with the
code's rounding of percentages.

**Circuit breaker** (in `AutoMerge_proofs`: the breaker stands in front of the same
gates, and its names are its own; `BreakerAssumption` is a hypothesis of each theorem).
`BreakerTypeCorrect`. `Rationed`: `BypassesAreRationed` for every threshold and number of
runs. A slot's bypass ends in a row "passed" or in a lost one, and the breaker
opens only over `Threshold` failures after it; the invariant counts the failures
at the head of the trail as not yet spent.

**Incidents** (`Incidents_proofs`, from `IncidentsAssumption`).
`IncidentsTypeCorrect`. `CompletionHasAFix`: `FixBehindIt`. A follower completes
others only after it has seen its leader's row completed, and a chain of such
sights starts at a row that was completed otherwise; the invariant keeps that for
runs between their look and their writes (`Completed`). `LeftAreErased`:
`OnlyErasedAreLeft`. It follows one session's name: once written to a list it
stays in it, in what a resolver has read of it, or is in `erased` (`Listed`).

**Alerts** (`Alerts_proofs`, from `AlertsAssumption`, which asks that polls do not
become shorter and that the first phase's last poll ends within the watch; the
code's are 30, 60 and 120 s in phases that end at 3, 7 and 10 minutes).
`AlertsTypeCorrect`; `KeysHaveReasons`; `StormsAreHeard`, which needs that whoever
made a storm is about to insert or to tell (`TriggerInv`); `MonitorIsDeaf`, which
needs that what came since the merge was inserted while no alert of its error was
open (`WatchInv`): the reason why *recurrence* (below) is violated, and like it no
promise; `PassedWasQuiet`, which needs that a watch in progress is within one of its
phases (`Watched`, `PhaseFacts`) and that whoever enters canary_slow saw nothing at
the poll before (`EntersQuiet`). It says of canary_slow itself nothing, where the
document and the code disagree.

**Notifications** (`Notifications_proofs`, from `NotificationsAssumption`), for any
finite set of rows and any number of passes, attempts, crashes and revivals.
`NotificationsTypeCorrect`. `NothingIsForgotten`: `NothingForgotten`. Whoever lets
go of a row has written its status, or ends in a crash, which `stuck` records.
`DeadWereTried`: `DeadWasTried`. Two passes may write back counts that are stale;
what each of them carries is behind the failures there have been, by one more from
the moment its delivery failed until it is written (`Counted`).
`SentAtMostOnce` and `FinalsStay`: `SentOnce`, `FinalStays`. Both follow from what
holds of one row that no two passes had at a time (`RowInv`): its status follows
from where the one pass is that has it (`Owned`); a delivery that was told of is
marked, about to be, or stuck, and deliveries that were not told are at most as many
as the row's attempts, or one more until the failure is written (`Delivered`). A
row that a stale page put back while a pass had it says "pending" in that pass's
hand; of it only `Owned` in its weaker form holds, and nothing of its deliveries. A
step of a pass is either beside the row (`Aside`, `Beside`, `Unheld`) or moves it on
(`SelectRow`, `Onward`, `LetGo`, `DoneWith`), so that each action needs only to be
recognised as one. `QueueKeeps` states the whole invariant. `OnlyTheSameKind`: a
flush and a digest pass never have one row together, since what the queue takes is
never "digest" again, and what was dead and is put back was the queue's
(`KindsApart`). `OneOfEachIsEnough`: hence with one flush and one digest pass at a
time no row is contested: passes of one kind that overlap are the whole cause.

**Model-checked only.** Everything under fairness (`EveryDispatchAnswered`,
`GoneIsForgotten`, `LockingEnds`, `RunEnds`, `WaitsEnd`, `Settles`,
`EscalationTries`): liveness is beyond the prover, as is ENABLED (the variant
of `RunEnds` is proved, `RunsOnlyGoOn`). Every other property of a passing run is a
theorem, `MergesOnItsVerdict` for repositories without an E2E framework. Proofs by induction over an operator, and
RECURSIVE operators, are out of reach too; no module needs them, beyond the
library's fact that the order of the naturals is well-founded.

## Where code and text disagree

Shown by a run that expects a violation, and listed as a finding:

- *recurrence*: the error that a merged fix was for arrives again while the monitor
  watches, and ingestion refuses it as a duplicate of the alert that the merge left
  open (shared.ts:180). The monitor asks the table for a new alert of that
  fingerprint, which "catches errors arriving via `@inariwatch/capture` or any other
  webhook source" (post-merge-monitor.md:25).
- *breaker*: "after the 15-minute cooldown, one real attempt is allowed. If it
  passes, the circuit closes" (auto-merge-gates.md:33). A gate that was waved
  through is recorded as passed (auto-merge-gates.ts:136-138, remediate.ts:2584-2586),
  so the first bypass closes the circuit, within the cooldown and without an attempt.

Found by model checking as well, each by a run that was not kept because the
matter is a single path or the run's question is answered:

- relay: a request that enters the pending table after `unregister` drained it
  gets no synthetic disconnect (ws.go:340) and waits for its time limit, which
  ws.go:277 says it does not.
- relay: when no pong arrives the read loop ends, but the socket stays open as
  long as the write loop can write to it; the README (line 33) says that the
  connection is dropped. The sidecar does not notice that it must register again.
- locks: two runs find one expired row; the second deletes what a third has just
  inserted. The comment says that the primary key leaves one winner
  (concurrency.ts:72).
- remediation: a first attempt that ends before its push (an answer that is no
  JSON, the managed agent's own branch) leaves later attempts without the branch
  that they commit to (remediate.ts:1962-1965).
- remediation: the E2E fallback adds a commit after CI's verdict
  (remediate.ts:2505); the merge is then of a head on which the gate's question
  was not asked.
- remediation: a merge may go on that CI did not pass. If branch protection could
  not be read (github-api.ts:262, remediate.ts:2029-2034), what is reported counts
  and not what is required; a check that was cancelled or waits for somebody
  counts as passed (github-api.ts:326). `MergesOnItsVerdict` states what remains.
- remediation: a row stays "analyzing" after a throw before the try
  (remediate.ts:311-470), which only the page is told of (route.ts:71-76).
- notifications: a message that the channel accepted is sent again when its answer
  was lost (email.ts:49), and a counter whose expiry was lost refuses emails for ever
  (rate-limit.ts:34-37).
- settings: a job that a member's cancellation starts writes back what an
  administrator has changed meanwhile (remediation-actions.ts:306). No document says
  that it does not.
- remediation: an approval in Slack writes a status and no engine reads it
  (slack/actions.ts:71-74).

Read in the code and not run, because they need no search:

- relay: a frame before `register` is skipped, not answered by closing
  (ws.go:129 and 172).
- locks: a lock is not renewed, so a run longer than its lease edits without one.
- remediation: checks that register late are not waited for
  (auto-merge-gates.md:10, github-api.ts:323), and a success over some of the
  required checks counts (github-api.ts:317). A cancellation is overwritten by
  the run (remediation-actions.ts:165, remediate.ts:923). An approval during
  automatic merge or monitoring marks a merged session failed. What throws after
  a merge is reported as a failed merge (remediate.ts:2756).
- slots: the documents promise 3 sessions a project and 10 in all, "queued and
  retried when a slot opens" (how-it-works.md:15); the third is refused, since a
  session counts its own row, and nothing retries it but a page or a script.
- circuit breaker: half-open lets every run evaluate the gate, as many as come at a
  time, not "one real attempt". `MAX_SIMULTANEOUS_BYPASSES` (circuit-breaker.ts:33),
  after which a draft should be made, is read by nothing.
- trust: a new project progresses "with successful fixes and elapsed days"
  (trust-levels.md:3), which are fixes that passed the monitor (line 18). Only
  what was merged automatically is monitored, and a Rookie never merges
  automatically: approved fixes have a NULL verdict and lower the rate. A project
  with no watched fix from before stays a Rookie for ever (`NothingComesFromNothing`),
  though "progression is earned through successful fixes with passing CI and no
  regressions" (trust-level.ts:13).
- trust: every row counts as a fix, also one that has just begun, so starting a
  session can raise the level. `fixesToNextLevel` is a lower bound only.
- settings: the switch "Auto-revert on regression" (auto-merge.tsx:240) is saved
  and no monitor reads it.
- storms: "temporarily suppressed" (send.ts:34, 58). Nothing ends an active storm:
  later alerts of the project are saved in silence from then on.
- notifications: "user gets max 1 email per 5 minutes" (send.ts:533); the worker's
  flush runs every 30 s. An email that is refused by the rate limit is put back to
  pending whatever its row has become.
- escalation: `alreadyNotified` counts entries of failed deliveries, and those of
  emails are written before sending.
- incidents: "the first session becomes the leader" (incident-correlation.ts:5-6):
  the leader is whichever row comes first. "For the leader" (line 90): any open
  incident of the project, of whatever age. "If the same fingerprint hasn't
  recurred" (line 135): nothing asks. "Resolve this session" (remediate.ts:652):
  the follower's own row stays "analyzing", holding a slot, if a concurrent write
  dropped it from the list or if it leads the incident. An incident whose leaders
  fail stays open; rows completed by a follower are overwritten by runs that
  proceeded.
- monitor: post-merge-monitor.md has canary_fast revert immediately (the code
  wants two signals), canary_slow alert only (the code reverts), and a revert
  branch created (nothing creates it). No property takes a side on canary_slow.

## What is not modelled

Answers of language models, texts, prompts, layouts, and the contents of files,
patches and events: the models choose freely where control depends on them.
HTTP and the database below a single statement. The time that things take, except
for the order of time limits. The number of attempts, limits and capacities are
constants. Authentication and secrets. `PROJECT.json` lists the parts outside the
modules and gives the reason for each.

The map covers about one percent of the repository's lines, and no amount of
modelling would bring it near a third: most of the repository is pages,
documentation, prompts, SDKs in six languages, generated code (a bundled test
application among it) and clients, which keep no state of their own or whose state
nobody shares. What is modelled is where several actors share state.

Of the modelled parts: of the gates' executor only that any gate may answer
anything; of on-call schedules nothing; of a revert only what it writes. A
maintenance window, in which an occurrence leaves no trace, and alerts without a
fingerprint are left out of `Alerts`.

## Plan

1. **Composition** of `Incidents` with `RemediationSlots`: how long a row that was
   left behind holds a slot.
2. **Rollout, rollback cooldown, spend guard, capture transport**: small shared
   machines, each a module with an inductive invariant.
3. **Gate executor** as a pure algorithm: levels against a reference definition.

Modules to be proved about keep recursion out of their definitions, state their
invariants as named conjuncts, and leave bounds to the configurations.
