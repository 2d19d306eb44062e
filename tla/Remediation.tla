---------------------------- MODULE Remediation ----------------------------
(***************************************************************************)
(* runRemediation (web/lib/ai/remediate.ts) for one session: its attempts, *)
(* branches, CI verdicts, gates, pull request and merge, with what moves   *)
(* next to it: CI, the user who approves or cancels, and further calls of  *)
(* runRemediation for the same session, which the event stream starts      *)
(* whenever a page is opened on a session that is not over.                *)
(*                                                                         *)
(* What the AI, the reviews and the configurable gates answer is chosen    *)
(* freely.  Fail stands for every error path that ends in fail() and may   *)
(* be taken or not.  Of CI's conclusions, neutral is like skipped,         *)
(* timed_out like failure, stale and action_required like cancelled.       *)
(***************************************************************************)
EXTENDS Integers

CONSTANTS
  Runs,           \* calls of runRemediation
  MaxAttempts,    \* session.maxAttempts
  MaxFlakes,      \* CI_FLAKE_MAX_RETRIES
  Checks,         \* check runs that CI may report on a commit
  Required,       \* those that branch protection requires
  Conclusions,    \* how a check may end
  Overlap,        \* a run may start while another one is alive
  ManagedAgent,   \* MANAGED_AGENT_ENABLED
  Prepush,        \* PREPUSH_TESTS_ENABLED and CI_WEBHOOK_MODE
  HasStaging,     \* STAGING_SERVER_URL
  HasE2E,         \* the repository has an E2E test framework
  Monitored,      \* autoMergeConfig.postMergeMonitor
  UserActs,       \* somebody may approve or cancel
  NoPR

ASSUME RemediationAssumption ==
  /\ MaxAttempts \in Nat \ {0} /\ MaxFlakes \in Nat
  /\ Required \subseteq Checks
  /\ Conclusions \subseteq {"pass", "skipped", "fail", "cancelled"}
  /\ {Overlap, ManagedAgent, Prepush, HasStaging, HasE2E, Monitored, UserActs} \subseteq BOOLEAN
  /\ NoPR \notin Runs \X {"own", "agent"}

VARIABLES
  status, attempt, prNo,                  \* the session's row
  joined,                                 \* its incident lists it as a follower
  pc, att, flakes, agent, green,          \* a run and its attempt
  head, known, verdict, e2e,              \* known: what is required could be read
  exists, commits, checks, pr,            \* branches, their heads, pull requests
  user, approving,                        \* approveRemediation
  judged                                  \* history: the checks behind the verdict

row  == <<status, attempt, prNo, joined>>
ci   == <<head, known, verdict, judged>>
run  == <<att, flakes, agent, green, ci, e2e>>
hub  == <<exists, commits, checks, pr>>
usr  == <<user, approving>>
vars == <<row, pc, run, hub, usr>>

Branches == Runs \X {"own", "agent"}
Branch(r) == <<r, IF agent[r] THEN "agent" ELSE "own">>   \* effectiveBranch

Terminal == {"completed", "failed", "cancelled", "proposing"}   \* TERMINAL_STATES
Ended    == {"idle", "queued", "ended", "left", "crashed"}   \* left: without a word in the row
Failable == {"init", "context", "reading", "loop", "generating", "reviewing", "pushing",
             "committing", "pushed", "polling", "staging", "gates", "creating",
             "saving", "savingAuto"}
Running  == Failable \cup {"merging", "merged"}

TypeOK ==
  /\ status  \in {"analyzing", "queued", "reading_code", "generating_fix", "pushing",
                  "awaiting_ci", "approved", "merging"} \cup Terminal
  /\ attempt \in 1..MaxAttempts
  /\ prNo    \in Branches \cup {NoPR}
  /\ joined  \in BOOLEAN
  /\ pc      \in [Runs -> Running \cup Ended]
  /\ att     \in [Runs -> 1..MaxAttempts]
  /\ flakes  \in [Runs -> 0..MaxFlakes]
  /\ agent   \in [Runs -> BOOLEAN]
  /\ green   \in [Runs -> BOOLEAN]
  /\ head    \in [Runs -> Nat]
  /\ known   \in [Runs -> BOOLEAN]
  /\ verdict \in [Runs -> {"none", "success", "empty"}]
  /\ judged  \in [Runs -> SUBSET Checks]
  /\ e2e     \in [Runs -> {"fine", "failed"}]
  /\ exists  \subseteq Branches
  /\ commits \in [Branches -> Nat]
  /\ checks  \in [Branches -> [Checks -> {"absent", "running"} \cup Conclusions]]
  /\ pr      \in [Branches -> {"none", "draft", "open", "merged"}]
  /\ user    \in {"away", "read", "marked", "merged", "refused"}
  /\ approving \in Branches \cup {NoPR}

NoChecks == [c \in Checks |-> "absent"]

Init ==
  /\ status = "analyzing" /\ attempt = 1 /\ prNo = NoPR
  /\ joined = FALSE
  /\ pc      = [r \in Runs |-> "idle"]
  /\ att     = [r \in Runs |-> 1]
  /\ flakes  = [r \in Runs |-> 0]
  /\ agent   = [r \in Runs |-> FALSE]
  /\ green   = [r \in Runs |-> FALSE]
  /\ head    = [r \in Runs |-> 0]
  /\ known   = [r \in Runs |-> FALSE]
  /\ verdict = [r \in Runs |-> "none"]
  /\ judged  = [r \in Runs |-> {}]
  /\ e2e     = [r \in Runs |-> "fine"]
  /\ exists  = {}
  /\ commits = [b \in Branches |-> 0]
  /\ checks  = [b \in Branches |-> NoChecks]
  /\ pr      = [b \in Branches |-> "none"]
  /\ user = "away" /\ approving = NoPR

-----------------------------------------------------------------------------
Goto(r, from, to) == pc[r] = from /\ pc' = [pc EXCEPT ![r] = to]
\* The variables of one pass of the attempt loop.
Fresh(r) ==
  /\ flakes'  = [flakes  EXCEPT ![r] = 0]
  /\ agent'   = [agent   EXCEPT ![r] = FALSE]
  /\ green'   = [green   EXCEPT ![r] = FALSE]
  /\ head'    = [head    EXCEPT ![r] = 0]
  /\ known'   = [known   EXCEPT ![r] = FALSE]
  /\ verdict' = [verdict EXCEPT ![r] = "none"]
  /\ judged'  = [judged  EXCEPT ![r] = {}]
  /\ e2e'     = [e2e     EXCEPT ![r] = "fine"]

\* What a run knew is gone with it.
Leave(r, from, to) ==
  /\ Goto(r, from, to)
  /\ att' = [att EXCEPT ![r] = 1] /\ Fresh(r)

SetStatus(s)      == status' = s /\ UNCHANGED <<attempt, prNo, joined>>

\* A commit is a new head, on which CI has reported nothing yet.
PushTo(b) ==
  /\ commits' = [commits EXCEPT ![b] = @ + 1]
  /\ checks'  = [checks EXCEPT ![b] = NoChecks]
  /\ UNCHANGED pr

\* A defect: a restarted run counts its attempts from the first again.
StartAfresh(r) ==
  /\ Goto(r, "idle", "init")
  /\ status \notin Terminal
  /\ Overlap \/ \A q \in Runs : pc[q] \in Ended
  /\ att' = [att EXCEPT ![r] = 1]
  /\ UNCHANGED <<row, flakes, agent, green, ci, e2e, hub, usr>>

\* The stream's check of the row, and the run's own read of it.
Start(r) ==
  /\ Goto(r, "idle", "init")
  /\ status \notin Terminal
  /\ Overlap \/ \A q \in Runs : pc[q] \in Ended
  /\ att' = [att EXCEPT ![r] = attempt]
  /\ UNCHANGED <<row, flakes, agent, green, ci, e2e, hub, usr>>

\* canStartRemediation said no.
Queue(r) ==
  /\ Leave(r, "init", "queued")
  /\ SetStatus("queued")
  /\ UNCHANGED <<hub, usr>>

\* The incident that the run may have joined by then lists it, unless another
\* session's join overwrote the list.
Analyze(r) ==
  /\ Goto(r, "init", "context")
  /\ status' = "analyzing" /\ joined' \in {joined, TRUE}
  /\ UNCHANGED <<attempt, prNo, run, hub, usr>>

\* What throws before the try leaves the row as it is: the stream says so to
\* the page and nobody else.
Escape(r) ==
  /\ Leave(r, "init", "left")
  /\ UNCHANGED <<row, hub, usr>>

\* resolveIncidentFollowers: the rows the list has.
FollowersResolved ==
  /\ status' = IF joined /\ status \in {"analyzing", "queued"} THEN "completed" ELSE status
  /\ UNCHANGED <<attempt, prNo, joined>>

\* The leader completed, and the run returns, whether its row was closed or not.
FollowLeader(r) ==
  /\ Leave(r, "context", "left")
  /\ FollowersResolved
  /\ UNCHANGED <<hub, usr>>

\* Another follower closes the row, whatever its own run is doing; or this one
\* does and goes on, since what throws after it is caught.
ResolvedByFollower ==
  /\ joined /\ FollowersResolved
  /\ UNCHANGED <<pc, run, hub, usr>>

ReadCode(r) ==
  /\ Goto(r, "context", "loop")
  /\ SetStatus("reading_code")
  /\ UNCHANGED <<run, hub, usr>>

\* The head of the attempt loop; every verdict belongs to one attempt.
BeginAttempt(r) ==
  /\ Goto(r, "loop", "generating")
  /\ status' = "generating_fix" /\ attempt' = att[r]
  /\ Fresh(r)
  /\ UNCHANGED <<prNo, joined, att, hub, usr>>

NextAttempt(r, from) ==
  /\ att[r] < MaxAttempts
  /\ Goto(r, from, "loop")
  /\ att' = [att EXCEPT ![r] = @ + 1]
  /\ UNCHANGED <<row, flakes, agent, green, ci, e2e, usr>>

\* The answer was no JSON.
InvalidFix(r) == NextAttempt(r, "generating") /\ UNCHANGED hub

\* The managed agent, on a first attempt, pushes to a branch of its own.
AgentFix(r) ==
  /\ ManagedAgent /\ att[r] = 1
  /\ Goto(r, "generating", "reviewing")
  /\ agent' = [agent EXCEPT ![r] = TRUE]
  /\ PushTo(<<r, "agent">>)
  /\ exists' = exists \cup {<<r, "agent">>}
  /\ UNCHANGED <<row, att, flakes, green, ci, e2e, usr>>

\* A defect: the container agent works on every attempt.
GenerateFixAgain(r) ==
  /\ Goto(r, "generating", "reviewing")
  /\ \E g \in {FALSE, Prepush} : green' = [green EXCEPT ![r] = g]
  /\ UNCHANGED <<row, att, flakes, agent, ci, e2e, hub, usr>>

\* prepushPassed comes from the container agent, on a first attempt.
GenerateFix(r) ==
  /\ Goto(r, "generating", "reviewing")
  /\ \E g \in {FALSE, Prepush /\ att[r] = 1} : green' = [green EXCEPT ![r] = g]
  /\ UNCHANGED <<row, att, flakes, agent, ci, e2e, hub, usr>>

\* Scanned and reviewed: a rejection stops only the last attempt (Fail).
BeginPush(r) ==
  /\ Goto(r, "reviewing", IF agent[r] THEN "pushed"
                          ELSE IF att[r] = 1 THEN "pushing" ELSE "committing")
  /\ SetStatus("pushing")
  /\ UNCHANGED <<run, hub, usr>>

CreateBranch(r) ==
  /\ Goto(r, "pushing", "committing")
  /\ exists' = exists \cup {Branch(r)}
  /\ UNCHANGED <<row, run, commits, checks, pr, usr>>

Commit(r) ==
  /\ Goto(r, "committing", "pushed")
  /\ Branch(r) \in exists
  /\ PushTo(Branch(r))
  /\ UNCHANGED <<row, run, exists, usr>>

\* A branch that GitHub does not know: 404, and fail().
CommitRefused(r) ==
  /\ Leave(r, "committing", "ended")
  /\ Branch(r) \notin exists
  /\ SetStatus("failed")
  /\ UNCHANGED <<hub, usr>>

AwaitCi(r) ==
  /\ Goto(r, "pushed", "polling")
  /\ SetStatus("awaiting_ci")
  /\ head' = [head EXCEPT ![r] = commits[Branch(r)]]
  /\ \E b \in {FALSE, Required # {}} : known' = [known EXCEPT ![r] = b]
  /\ UNCHANGED <<att, flakes, agent, green, verdict, judged, e2e, hub, usr>>

-----------------------------------------------------------------------------
(* getCheckRunsStatus *)
Reported(b) == {c \in Checks : checks[b][c] # "absent"}

\* All that is reported counts if nothing is required, or if it is not known
\* what is.
Gating(r) ==
  IF known[r] THEN Reported(Branch(r)) \cap Required ELSE Reported(Branch(r))

\* Of the conclusions only a failure fails.
CiStatus(r) ==
  IF Gating(r) = {} \/ \E c \in Gating(r) : checks[Branch(r)][c] = "running" THEN "pending"
  ELSE IF \E c \in Gating(r) : checks[Branch(r)][c] = "fail" THEN "failure" ELSE "success"

Conclude(r, v) ==
  /\ verdict' = [verdict EXCEPT ![r] = v]
  /\ judged'  = [judged  EXCEPT ![r] = Gating(r)]
  /\ UNCHANGED <<row, att, agent, green, head, known, e2e, hub, usr>>

PollSuccess(r) ==
  /\ Goto(r, "polling", "staging")
  /\ CiStatus(r) = "success"
  /\ Conclude(r, "success") /\ UNCHANGED flakes

\* The time is up and CI has reported nothing: as if it had passed.
PollEmpty(r) ==
  /\ Goto(r, "polling", "staging")
  /\ Reported(Branch(r)) = {}
  /\ Conclude(r, "empty") /\ UNCHANGED flakes

\* shouldRetryCiFlake: the same fix is committed again.
FlakeRetry(r) ==
  /\ green[r] /\ flakes[r] < MaxFlakes
  /\ CiStatus(r) = "failure"
  /\ Goto(r, "polling", "committing")
  /\ flakes' = [flakes EXCEPT ![r] = @ + 1]
  /\ SetStatus("pushing")
  /\ UNCHANGED <<att, agent, green, ci, e2e, hub, usr>>

\* A defect: checks that never end are waited for without a limit.
CiFailsUntimed(r) ==
  CiStatus(r) = "failure" /\ ~(green[r] /\ flakes[r] < MaxFlakes)

\* CI failed, or is still running when the time is up.
CiFails(r) ==
  \/ CiStatus(r) = "failure" /\ ~(green[r] /\ flakes[r] < MaxFlakes)
  \/ CiStatus(r) = "pending" /\ Reported(Branch(r)) # {}

CiRetry(r) == CiFails(r) /\ NextAttempt(r, "polling") /\ UNCHANGED hub

\* A defect: the run just returns.
CiGivesUpSilently(r) ==
  /\ CiFails(r) /\ att[r] = MaxAttempts
  /\ Leave(r, "polling", "ended")
  /\ UNCHANGED <<row, hub, usr>>

CiGivesUp(r) ==
  /\ CiFails(r) /\ att[r] = MaxAttempts
  /\ Leave(r, "polling", "ended")
  /\ SetStatus("failed")
  /\ UNCHANGED <<hub, usr>>

-----------------------------------------------------------------------------
StagingRetry(r) ==
  /\ HasStaging
  /\ NextAttempt(r, "staging") /\ UNCHANGED hub

StagingAnswers(r) ==
  /\ HasStaging
  /\ Goto(r, "staging", "gates")
  /\ \E v \in {"fine", "failed"} : e2e' = [e2e EXCEPT ![r] = v]
  /\ UNCHANGED <<row, att, flakes, agent, green, ci, hub, usr>>

\* No staging server, or it is down: an E2E workflow is committed to the
\* run's own branch, and only the check of that name is waited for.
E2E(r) ==
  /\ HasE2E /\ <<r, "own">> \in exists
  /\ Goto(r, "staging", "gates")
  /\ PushTo(<<r, "own">>)
  /\ \E v \in {"fine", "failed"} : e2e' = [e2e EXCEPT ![r] = v]
  /\ UNCHANGED <<row, att, flakes, agent, green, ci, exists, usr>>

\* No framework, or the workflow could not be pushed.
SkipE2E(r) ==
  /\ Goto(r, "staging", "gates")
  /\ UNCHANGED <<row, run, hub, usr>>

\* A defect: ciPassed is the status alone, with or without checks.
MayAutoMergeUnchecked(r) == verdict[r] \in {"success", "empty"} /\ e2e[r] # "failed"

\* evaluateAutoMergeGates: whatever it decides, the status is proposing.
MayAutoMerge(r) == verdict[r] = "success" /\ e2e[r] # "failed"

EvaluateGates(r) ==
  /\ Goto(r, "gates", "creating")
  /\ SetStatus("proposing")
  /\ UNCHANGED <<run, hub, usr>>

CreatePR(r) ==
  /\ Branch(r) \in exists
  /\ \/ /\ Goto(r, "creating", "saving")
        /\ pr' = [pr EXCEPT ![Branch(r)] = "draft"]
     \/ /\ MayAutoMerge(r)
        /\ Goto(r, "creating", "savingAuto")
        /\ pr' = [pr EXCEPT ![Branch(r)] = "open"]
  /\ UNCHANGED <<row, run, exists, commits, checks, usr>>

SavePR(r) ==
  /\ \/ Leave(r, "saving", "ended")
     \/ Goto(r, "savingAuto", "merging") /\ UNCHANGED run
  /\ prNo' = Branch(r)
  /\ UNCHANGED <<status, attempt, joined, hub, usr>>

\* GitHub's merge: a draft is refused, and a head whose required checks
\* have not passed or been skipped.
Mergeable(b) == pr[b] = "open" /\ \A c \in Required : checks[b][c] \in {"pass", "skipped"}

AutoMerge(r) ==
  /\ Goto(r, "merging", "merged")
  /\ Mergeable(Branch(r))
  /\ pr' = [pr EXCEPT ![Branch(r)] = "merged"]
  /\ UNCHANGED <<row, run, exists, commits, checks, usr>>

\* The merge is refused, or something throws after it: the status stays.
AutoMergeThrows(r) ==
  /\ \E from \in {"merging", "merged"} : Leave(r, from, "ended")
  /\ UNCHANGED <<row, hub, usr>>

Complete(r) ==
  /\ Leave(r, "merged", "ended")
  /\ SetStatus("completed")
  /\ UNCHANGED <<hub, usr>>

\* startPostMergeMonitoring saw a regression.
Reverted(r) ==
  /\ Monitored
  /\ Leave(r, "merged", "ended")
  /\ SetStatus("failed")
  /\ UNCHANGED <<hub, usr>>

Fail(r) ==
  /\ \E from \in Failable : Leave(r, from, "ended")
  /\ SetStatus("failed")
  /\ UNCHANGED <<hub, usr>>

Crash(r) ==
  /\ \E from \in Running : Leave(r, from, "crashed")
  /\ UNCHANGED <<row, hub, usr>>

-----------------------------------------------------------------------------
\* CI.  What it does is seen on a branch that a run polls or merges, or that
\* a user may merge; its progress elsewhere waits until then.
CheckMoves(b, c) ==
  /\ b \in exists /\ commits[b] > 0 /\ pr[b] # "merged"
  /\ \/ \E r \in Runs : b = Branch(r) /\ pc[r] \in {"polling", "merging"}
     \/ UserActs /\ pr[b] # "none"
  /\ \E m \in {<<"absent", "running">>} \cup ({"running"} \X Conclusions) :
        /\ checks[b][c] = m[1]
        /\ checks' = [checks EXCEPT ![b][c] = m[2]]
  /\ UNCHANGED <<row, pc, run, exists, commits, pr, usr>>

\* The reviewer takes the draft out of draft on GitHub.
MarkReady(b) ==
  /\ UserActs
  /\ pr[b] = "draft"
  /\ pr' = [pr EXCEPT ![b] = "open"]
  /\ UNCHANGED <<row, pc, run, exists, commits, checks, usr>>

ApproveReads ==
  /\ UserActs /\ user = "away"
  /\ status = "proposing" /\ prNo # NoPR
  /\ user' = "read" /\ approving' = prNo
  /\ UNCHANGED <<row, pc, run, hub>>

ApproveMarks ==
  /\ user = "read" /\ user' = "marked"
  /\ SetStatus("merging")
  /\ UNCHANGED <<pc, run, hub, approving>>

ApproveMerges ==
  /\ user = "marked"
  /\ \/ /\ Mergeable(approving) /\ user' = "merged"
        /\ pr' = [pr EXCEPT ![approving] = "merged"]
     \/ user' = "refused" /\ UNCHANGED pr
  /\ UNCHANGED <<row, pc, run, exists, commits, checks, approving>>

\* A defect: the answer of the merge is not looked at.
ApproveEndsAnyhow ==
  /\ user \in {"merged", "refused"} /\ user' = "away"
  /\ SetStatus("completed")
  /\ UNCHANGED <<pc, run, hub, approving>>

\* Whatever throws on the way, after the merge too, makes it failed.
ApproveEnds ==
  /\ user \in {"merged", "refused"} /\ user' = "away"
  /\ \E s \in {"failed"} \cup (IF user = "merged" THEN {"completed"} ELSE {}) : SetStatus(s)
  /\ UNCHANGED <<pc, run, hub, approving>>

\* The button in Slack or Telegram: only the status is written.
ApproveInChat ==
  /\ UserActs
  /\ status = "proposing"
  /\ SetStatus("approved")
  /\ UNCHANGED <<pc, run, hub, usr>>

\* submit_feedback of the MCP server: the user says whether the fix worked.
Feedback ==
  /\ UserActs
  /\ \E s \in {"completed", "failed"} : SetStatus(s)
  /\ UNCHANGED <<pc, run, hub, usr>>

Cancel ==
  /\ UserActs
  /\ SetStatus("cancelled")
  /\ UNCHANGED <<pc, run, hub, usr>>

-----------------------------------------------------------------------------
Step(r) ==
  \/ Queue(r) \/ Analyze(r) \/ FollowLeader(r) \/ ReadCode(r) \/ BeginAttempt(r)
  \/ InvalidFix(r) \/ AgentFix(r) \/ GenerateFix(r) \/ BeginPush(r) \/ CreateBranch(r)
  \/ Commit(r) \/ CommitRefused(r) \/ AwaitCi(r) \/ PollSuccess(r) \/ PollEmpty(r)
  \/ FlakeRetry(r) \/ CiRetry(r) \/ CiGivesUp(r) \/ StagingRetry(r) \/ StagingAnswers(r) \/ E2E(r)
  \/ SkipE2E(r) \/ EvaluateGates(r) \/ CreatePR(r) \/ SavePR(r) \/ AutoMerge(r)
  \/ AutoMergeThrows(r) \/ Complete(r) \/ Reverted(r)

Others ==
  \/ \E b \in Branches, c \in Checks : CheckMoves(b, c)
  \/ \E b \in Branches : MarkReady(b)
  \/ ApproveReads \/ ApproveMarks \/ ApproveMerges \/ ApproveEnds
  \/ ApproveInChat \/ Feedback \/ Cancel

Next ==
  \/ \E r \in Runs : Start(r) \/ Step(r) \/ Escape(r) \/ Fail(r) \/ Crash(r)
  \/ ResolvedByFollower \/ Others

Spec == Init /\ [][Next]_vars

\* A run that is alive moves on: its waits have a time limit.  Nothing has
\* to fail or to crash, and CI and the user need not act.
FairSpec == Spec /\ \A r \in Runs : WF_vars(Step(r))

-----------------------------------------------------------------------------
\* Whatever attempts, flake retries, restarts and branches lie behind it: a run
\* that goes on to merge holds a verdict of CI on the very head it merges, and
\* the verdict is on something: on checks that are over there and did not fail,
\* and on nothing but what branch protection requires where this is known.
MergesOnItsVerdict ==
  \A r \in Runs : pc[r] = "merging" =>
    /\ verdict[r] = "success"
    /\ head[r] = commits[Branch(r)]
    /\ judged[r] # {}
    /\ \A c \in judged[r] : checks[Branch(r)][c] \in {"pass", "skipped", "cancelled"}
    /\ known[r] => judged[r] \subseteq Required

\* Attempts, flake retries and the retries after staging nest, yet they do not
\* multiply: a run commits once for each attempt, once for each flake retry,
\* which only the first attempt has, and once for the E2E workflow.
PushesBounded ==
  \A r \in Runs : commits[<<r, "own">>] + commits[<<r, "agent">>]
                     <= MaxAttempts + MaxFlakes + (IF HasE2E THEN 1 ELSE 0)

\* When nobody works on the session any more it does not look as if somebody
\* did, and a proposal has its pull request: otherwise it can be neither
\* resumed nor approved, and it blocks the next session for the alert.  A row
\* is left open only by a run that threw before its try or followed a leader
\* whose incident no longer lists it, and is then still being analyzed.  (What
\* is approved in a chat waits for an engine that has ended: no code merges it.)
Settled ==
  /\ \E r \in Runs : pc[r] # "idle"
  /\ \A r \in Runs : pc[r] \in {"idle", "ended", "left"}
  /\ user = "away"
  => /\ status \in Terminal \cup {"approved"} \/ (status = "analyzing" /\ \E r \in Runs : pc[r] = "left")
     /\ status = "proposing" => prNo # NoPR

\* Whoever closes the session, run or user, however many there are: it is
\* closed as completed when a pull request of it is merged, or while it had
\* not got beyond its analysis (by the leader of its incident), or because
\* the user says so in so many words.
CompletedIsMerged ==
  [][status # "completed" /\ status' = "completed" =>
       \/ status \in {"analyzing", "queued"}
       \/ \E b \in Branches : pr[b] = "merged"
       \/ Feedback]_vars

\* A run ends: attempts, flake retries and waits are all bounded.
RunEnds == \A r \in Runs : (pc[r] \in Running) ~> (pc[r] \in Ended)

\* One run at a time and nobody else: the row keeps the promise of
\* RemediationLife, over crashes and restarts too.
Merged == \E b \in Branches : pr[b] = "merged"
Stage ==
  CASE status = "proposing"            -> "proposed"
    [] status = "completed" /\ Merged  -> "done"
    [] status = "completed" /\ ~Merged -> "followed"
    [] status = "failed"               -> "failed"
    [] OTHER                           -> "working"

Life == INSTANCE RemediationLife WITH
  stage <- Stage, tries <- attempt, merged <- Merged
KeepsPromise == Life!Spec
=============================================================================
