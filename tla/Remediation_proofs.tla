------------------------- MODULE Remediation_proofs -------------------------
(***************************************************************************)
(* Proofs about Remediation, for every number of runs, attempts, flake     *)
(* retries and checks.                                                     *)
(***************************************************************************)
EXTENDS Remediation, TLAPS

LEMMA BranchType == ASSUME NEW r \in Runs PROVE Branch(r) \in Branches
BY DEF Branch, Branches

\* The branch of a run belongs to no other run.
LEMMA BranchOwn ==
  ASSUME NEW r \in Runs, NEW q \in Runs, r # q
  PROVE  /\ Branch(q) # Branch(r)
         /\ Branch(q) # <<r, "own">>
         /\ Branch(q) # <<r, "agent">>
BY DEF Branch

LEMMA GatingType == ASSUME NEW r \in Runs PROVE Gating(r) \subseteq Checks
BY DEF Gating, Reported

\* What a run leaves when it ends.
LEMMA LeaveType ==
  ASSUME TypeOK, NEW r \in Runs, NEW from, NEW to \in Ended, Leave(r, from, to)
  PROVE  /\ pc'      \in [Runs -> Running \cup Ended]
         /\ att'     \in [Runs -> 1..MaxAttempts]
         /\ flakes'  \in [Runs -> 0..MaxFlakes]
         /\ agent'   \in [Runs -> BOOLEAN]
         /\ green'   \in [Runs -> BOOLEAN]
         /\ head'    \in [Runs -> Nat]
         /\ known'   \in [Runs -> BOOLEAN]
         /\ verdict' \in [Runs -> {"none", "success", "empty"}]
         /\ judged'  \in [Runs -> SUBSET Checks]
         /\ e2e'     \in [Runs -> {"fine", "failed"}]
BY RemediationAssumption DEF TypeOK, Leave, Fresh, Goto

LEMMA InitTypeOK == Init => TypeOK
<1> SUFFICES ASSUME Init PROVE TypeOK
  OBVIOUS
<1>1. /\ judged \in [Runs -> SUBSET Checks]
      /\ checks \in [Branches -> [Checks -> {"absent", "running"} \cup Conclusions]]
  BY DEF Init, NoChecks
<1>2. /\ pc \in [Runs -> Running \cup Ended]
      /\ pr \in [Branches -> {"none", "draft", "open", "merged"}]
      /\ commits \in [Branches -> Nat] /\ exists \subseteq Branches
  BY DEF Init, Ended
<1>3. /\ att \in [Runs -> 1..MaxAttempts] /\ flakes \in [Runs -> 0..MaxFlakes]
      /\ head \in [Runs -> Nat] /\ attempt \in 1..MaxAttempts
  BY RemediationAssumption DEF Init
<1>4. /\ agent \in [Runs -> BOOLEAN] /\ green \in [Runs -> BOOLEAN]
      /\ known \in [Runs -> BOOLEAN] /\ joined \in BOOLEAN
  BY DEF Init
<1> QED
  BY <1>1, <1>2, <1>3, <1>4 DEF Init, TypeOK

-----------------------------------------------------------------------------
(* Type correctness *)

LEMMA StepType ==
  ASSUME TypeOK, NEW r \in Runs, Step(r)
  PROVE  TypeOK'
<1> USE RemediationAssumption
<1>1. CASE Queue(r)
  BY <1>1, LeaveType DEF TypeOK, Queue, SetStatus, row, hub, usr, Ended, Terminal
<1>2. CASE Analyze(r)
  BY <1>2 DEF TypeOK, Analyze, Goto, SetStatus, row, run, ci, hub, usr, Running,
     Failable, Ended, Terminal
<1>3. CASE FollowLeader(r)
  BY <1>3, LeaveType DEF TypeOK, FollowLeader, FollowersResolved, hub, usr, Ended, Terminal
<1>4. CASE ReadCode(r)
  BY <1>4 DEF TypeOK, ReadCode, Goto, SetStatus, row, run, ci, hub, usr, Running,
     Failable, Ended, Terminal
<1>5. CASE BeginAttempt(r)
  BY <1>5 DEF TypeOK, Fresh, BeginAttempt, Goto, row, run, ci, hub, usr, Running,
     Failable, Ended, Terminal
<1>6. CASE InvalidFix(r)
  BY <1>6 DEF TypeOK, InvalidFix, Goto, NextAttempt, row, run, ci, hub, usr,
     Running, Failable, Ended, Terminal
<1>7. CASE AgentFix(r)
  BY <1>7 DEF TypeOK, AgentFix, Goto, PushTo, NoChecks, row, run, ci, hub, usr,
     Running, Failable, Ended, Terminal, Branches
<1>8. CASE GenerateFix(r)
  <2>1. green' \in [Runs -> BOOLEAN]
    <3>1. PICK g \in {FALSE, Prepush /\ att[r] = 1} : green' = [green EXCEPT ![r] = g]
      BY <1>8 DEF GenerateFix
    <3>2. g \in BOOLEAN
      BY <3>1, Zenon
    <3>3. green \in [Runs -> BOOLEAN]
      BY DEF TypeOK
    <3> QED BY <3>1, <3>2, <3>3, Zenon
  <2> QED BY <1>8, <2>1 DEF TypeOK, GenerateFix, Goto, row, run, ci, hub, usr, Running,
             Failable, Ended, Terminal
<1>9. CASE BeginPush(r)
  BY <1>9 DEF TypeOK, BeginPush, Goto, SetStatus, row, run, ci, hub, usr, Running,
     Failable, Ended, Terminal
<1>10. CASE CreateBranch(r)
  BY <1>10, BranchType DEF TypeOK, CreateBranch, Goto, row, run, ci, hub, usr,
     Running, Failable, Ended, Terminal
<1>11. CASE Commit(r)
  BY <1>11, BranchType DEF TypeOK, Commit, Goto, PushTo, NoChecks, row, run, ci,
     hub, usr, Running, Failable, Ended, Terminal
<1>12. CASE CommitRefused(r)
  BY <1>12, LeaveType DEF TypeOK, CommitRefused, SetStatus, row, hub, usr, Ended, Terminal
<1>13. CASE AwaitCi(r)
  <2>1. known' \in [Runs -> BOOLEAN]
    <3>1. PICK b \in {FALSE, Required # {}} : known' = [known EXCEPT ![r] = b]
      BY <1>13 DEF AwaitCi
    <3>2. b \in BOOLEAN
      BY <3>1, Zenon
    <3>3. known \in [Runs -> BOOLEAN]
      BY DEF TypeOK
    <3> QED BY <3>1, <3>2, <3>3, Zenon
  <2> QED BY <1>13, <2>1, BranchType DEF TypeOK, AwaitCi, Goto, SetStatus, hub, usr, Running,
             Failable, Ended, Terminal
<1>14. CASE PollSuccess(r) \/ PollEmpty(r)
  <2>1. \E v \in {"success", "empty"} : Conclude(r, v)
    BY <1>14 DEF PollSuccess, PollEmpty
  <2>2. pc' = [pc EXCEPT ![r] = "staging"] /\ UNCHANGED flakes
    BY <1>14 DEF PollSuccess, PollEmpty, Goto
  <2>3. judged' \in [Runs -> SUBSET Checks] /\ verdict' \in [Runs -> {"none", "success", "empty"}]
    BY <2>1, GatingType DEF Conclude, TypeOK
  <2>4. pc' \in [Runs -> Running \cup Ended]
    BY <2>2 DEF TypeOK, Running, Failable
  <2> QED BY <2>1, <2>2, <2>3, <2>4 DEF TypeOK, Conclude, row, hub, usr
<1>16. CASE FlakeRetry(r)
  BY <1>16 DEF TypeOK, FlakeRetry, Goto, SetStatus, row, run, ci, hub, usr,
     Running, Failable, Ended, Terminal
<1>17. CASE CiRetry(r)
  BY <1>17 DEF TypeOK, CiRetry, Goto, NextAttempt, row, run, ci, hub, usr,
     Running, Failable, Ended, Terminal
<1>18. CASE CiGivesUp(r)
  BY <1>18, LeaveType DEF TypeOK, CiGivesUp, SetStatus, row, hub, usr, Ended, Terminal
<1>19. CASE StagingRetry(r)
  BY <1>19 DEF TypeOK, StagingRetry, Goto, NextAttempt, row, run, ci, hub, usr,
     Running, Failable, Ended, Terminal
<1>20. CASE StagingAnswers(r)
  BY <1>20 DEF TypeOK, StagingAnswers, Goto, row, run, ci, hub, usr, Running,
     Failable, Ended, Terminal
<1>21. CASE E2E(r)
  BY <1>21 DEF TypeOK, E2E, Goto, PushTo, NoChecks, row, run, ci, hub, usr,
     Running, Failable, Ended, Terminal, Branches
<1>22. CASE SkipE2E(r)
  BY <1>22 DEF TypeOK, SkipE2E, Goto, row, run, ci, hub, usr, Running, Failable,
     Ended, Terminal
<1>23. CASE EvaluateGates(r)
  BY <1>23 DEF TypeOK, EvaluateGates, Goto, SetStatus, row, run, ci, hub, usr,
     Running, Failable, Ended, Terminal
<1>24. CASE CreatePR(r)
  <2>1. pc' \in [Runs -> Running \cup Ended]
    BY <1>24 DEF TypeOK, CreatePR, Goto, Running, Failable, Ended
  <2>2. pr' \in [Branches -> {"none", "draft", "open", "merged"}]
    BY <1>24 DEF TypeOK, CreatePR
  <2>3. UNCHANGED <<row, run, exists, commits, checks, usr>>
    BY <1>24 DEF CreatePR
  <2> QED BY <2>1, <2>2, <2>3 DEF TypeOK, row, run, ci, usr
<1>25. CASE SavePR(r)
  <2>1. CASE Leave(r, "saving", "ended")
    BY <1>25, <2>1, LeaveType, BranchType DEF TypeOK, SavePR, hub, usr, Ended
  <2>2. CASE Goto(r, "savingAuto", "merging") /\ UNCHANGED run
    BY <1>25, <2>2, BranchType DEF TypeOK, SavePR, Goto, run, ci, hub, usr, Running
  <2> QED BY <1>25, <2>1, <2>2 DEF SavePR
<1>26. CASE AutoMerge(r)
  BY <1>26, BranchType DEF TypeOK, AutoMerge, Goto, row, run, ci, hub, usr,
     Running, Failable, Ended, Terminal
<1>27. CASE AutoMergeThrows(r)
  BY <1>27, LeaveType DEF TypeOK, AutoMergeThrows, SetStatus, row, hub, usr, Ended, Terminal
<1>28. CASE Complete(r)
  BY <1>28, LeaveType DEF TypeOK, Complete, SetStatus, row, hub, usr, Ended, Terminal
<1>29. CASE Reverted(r)
  BY <1>29, LeaveType DEF TypeOK, Reverted, SetStatus, row, hub, usr, Ended, Terminal
<1> QED BY <1>1, <1>2, <1>3, <1>4, <1>5, <1>6, <1>7, <1>8, <1>9, <1>10, <1>11,
           <1>12, <1>13, <1>14, <1>16, <1>17, <1>18, <1>19, <1>20,
           <1>21, <1>22, <1>23, <1>24, <1>25, <1>26, <1>27, <1>28, <1>29 DEF
           Step

LEMMA OthersType == ASSUME TypeOK, Others PROVE TypeOK'
<1>1. CASE \E b \in Branches, c \in Checks : CheckMoves(b, c)
  <2>1. PICK b \in Branches, c \in Checks : CheckMoves(b, c)
    BY <1>1
  <2>2. PICK m \in {<<"absent", "running">>} \cup ({"running"} \X Conclusions) :
          checks' = [checks EXCEPT ![b][c] = m[2]]
    BY <2>1 DEF CheckMoves
  <2>3. m[2] \in {"absent", "running"} \cup Conclusions
    BY <2>2
  <2>4. checks' \in [Branches -> [Checks -> {"absent", "running"} \cup Conclusions]]
    BY <2>2, <2>3 DEF TypeOK
  <2> QED BY <2>1, <2>4 DEF TypeOK, CheckMoves, row, run, ci, usr
<1>2. CASE \E b \in Branches : MarkReady(b)
  BY <1>2 DEF TypeOK, MarkReady, row, run, ci, usr
<1>3. CASE ApproveReads
  BY <1>3 DEF TypeOK, ApproveReads, row, run, ci, hub
<1>4. CASE ApproveMarks
  BY <1>4 DEF TypeOK, ApproveMarks, SetStatus, run, ci, hub
<1>5. CASE ApproveMerges
  <2>1. pr' \in [Branches -> {"none", "draft", "open", "merged"}]
    BY <1>5 DEF TypeOK, ApproveMerges
  <2> QED BY <1>5, <2>1 DEF TypeOK, ApproveMerges, row, run, ci
<1>6. CASE ApproveEnds
  <2>1. PICK s \in {"completed", "failed"} : SetStatus(s)
    BY <1>6 DEF ApproveEnds
  <2> QED BY <1>6, <2>1 DEF TypeOK, ApproveEnds, SetStatus, run, ci, hub, Terminal
<1>7. CASE Cancel
  BY <1>7 DEF TypeOK, Cancel, SetStatus, run, ci, hub, usr, Terminal
<1>8. CASE ApproveInChat \/ Feedback
  BY <1>8 DEF TypeOK, ApproveInChat, Feedback, SetStatus, run, ci, hub, usr, Terminal
<1> QED BY <1>1, <1>2, <1>3, <1>4, <1>5, <1>6, <1>7, <1>8 DEF Others

\* Every variable keeps to its values: attempts stay within MaxAttempts and
\* flake retries within MaxFlakes.
THEOREM TypeCorrect == Spec => []TypeOK
<1>1. TypeOK /\ [Next]_vars => TypeOK'
  <2> SUFFICES ASSUME TypeOK, [Next]_vars PROVE TypeOK'
    OBVIOUS
  <2>1. CASE \E r \in Runs : Start(r)
    BY <2>1 DEF TypeOK, Start, Goto, row, ci, hub, usr, Running, Failable
  <2>2. CASE \E r \in Runs : Step(r)
    BY <2>2, StepType
  <2>3. CASE \E r \in Runs : Fail(r)
    BY <2>3, LeaveType DEF TypeOK, Fail, SetStatus, hub, usr, Ended, Terminal
  <2>4. CASE \E r \in Runs : Crash(r) \/ Escape(r)
    BY <2>4, LeaveType DEF TypeOK, Crash, Escape, row, hub, usr, Ended
  <2>5. CASE Others \/ ResolvedByFollower
    BY <2>5, OthersType
       DEF TypeOK, ResolvedByFollower, FollowersResolved, run, ci, hub, usr, Terminal
  <2>6. CASE UNCHANGED vars
    BY <2>6 DEF TypeOK, vars, row, run, ci, hub, usr
  <2> QED BY <2>1, <2>2, <2>3, <2>4, <2>5, <2>6 DEF Next
<1> QED BY InitTypeOK, <1>1, PTL DEF Spec

-----------------------------------------------------------------------------
(* What is merged has a verdict *)

\* The steps of one run.
Moves(r) == Start(r) \/ Step(r) \/ Escape(r) \/ Fail(r) \/ Crash(r)

\* A step of one run leaves the others' attempts, verdicts and commits alone:
\* it pushes to branches of its own only.
LEMMA OtherRun ==
  ASSUME TypeOK, NEW r \in Runs, NEW q \in Runs, q # r, Moves(r)
  PROVE  /\ UNCHANGED <<pc[q], att[q], flakes[q], agent[q], green[q]>>
         /\ UNCHANGED <<head[q], known[q], verdict[q], judged[q]>>
         /\ UNCHANGED <<commits[<<q, "own">>], commits[<<q, "agent">>]>>
         /\ commits'[Branch(q)] = commits[Branch(q)]
         /\ checks'[Branch(q)] = checks[Branch(q)]
<1>1. pc'[q] = pc[q]
  <2>1. \E from, to : Goto(r, from, to)
    BY DEF Moves, Start, Escape, Fail, Crash, Leave, Step, Queue, Analyze, FollowLeader, ReadCode, BeginAttempt,
       InvalidFix, AgentFix, GenerateFix, BeginPush, CreateBranch, Commit, CommitRefused, AwaitCi,
       PollSuccess, PollEmpty, FlakeRetry, CiRetry, CiGivesUp, StagingRetry, StagingAnswers, E2E,
       SkipE2E, EvaluateGates, CreatePR, SavePR, AutoMerge, AutoMergeThrows, Complete, Reverted,
       NextAttempt
  <2> QED BY <2>1 DEF Goto, TypeOK
<1>2. att'[q] = att[q]
  <2>1. att' = att \/ \E x : att' = [att EXCEPT ![r] = x]
    BY DEF Moves, Start, Escape, Fail, Crash, Leave, Fresh, Step, Queue, Analyze, FollowLeader, ReadCode, BeginAttempt,
       InvalidFix, AgentFix, GenerateFix, BeginPush, CreateBranch, Commit, CommitRefused, AwaitCi,
       PollSuccess, PollEmpty, FlakeRetry, CiRetry, CiGivesUp, StagingRetry, StagingAnswers, E2E,
       SkipE2E, EvaluateGates, CreatePR, SavePR, AutoMerge, AutoMergeThrows, Complete, Reverted,
       NextAttempt, Conclude, run
  <2> QED BY <2>1 DEF TypeOK
<1>3. flakes'[q] = flakes[q]
  <2>1. flakes' = flakes \/ \E x : flakes' = [flakes EXCEPT ![r] = x]
    BY DEF Moves, Start, Escape, Fail, Crash, Leave, Fresh, Step, Queue, Analyze, FollowLeader, ReadCode, BeginAttempt,
       InvalidFix, AgentFix, GenerateFix, BeginPush, CreateBranch, Commit, CommitRefused, AwaitCi,
       PollSuccess, PollEmpty, FlakeRetry, CiRetry, CiGivesUp, StagingRetry, StagingAnswers, E2E,
       SkipE2E, EvaluateGates, CreatePR, SavePR, AutoMerge, AutoMergeThrows, Complete, Reverted,
       NextAttempt, Conclude, run
  <2> QED BY <2>1 DEF TypeOK
<1>4. agent'[q] = agent[q]
  <2>1. agent' = agent \/ \E x : agent' = [agent EXCEPT ![r] = x]
    BY DEF Moves, Start, Escape, Fail, Crash, Leave, Fresh, Step, Queue, Analyze, FollowLeader, ReadCode, BeginAttempt,
       InvalidFix, AgentFix, GenerateFix, BeginPush, CreateBranch, Commit, CommitRefused, AwaitCi,
       PollSuccess, PollEmpty, FlakeRetry, CiRetry, CiGivesUp, StagingRetry, StagingAnswers, E2E,
       SkipE2E, EvaluateGates, CreatePR, SavePR, AutoMerge, AutoMergeThrows, Complete, Reverted,
       NextAttempt, Conclude, run
  <2> QED BY <2>1, Zenon DEF TypeOK
<1>5. green'[q] = green[q]
  <2>1. green' = green \/ \E x : green' = [green EXCEPT ![r] = x]
    BY DEF Moves, Start, Escape, Fail, Crash, Leave, Fresh, Step, Queue, Analyze, FollowLeader, ReadCode, BeginAttempt,
       InvalidFix, AgentFix, GenerateFix, BeginPush, CreateBranch, Commit, CommitRefused, AwaitCi,
       PollSuccess, PollEmpty, FlakeRetry, CiRetry, CiGivesUp, StagingRetry, StagingAnswers, E2E,
       SkipE2E, EvaluateGates, CreatePR, SavePR, AutoMerge, AutoMergeThrows, Complete, Reverted,
       NextAttempt, Conclude, run
  <2> QED BY <2>1, Zenon DEF TypeOK
<1>6. head'[q] = head[q]
  <2>1. head' = head \/ \E x : head' = [head EXCEPT ![r] = x]
    BY DEF Moves, Start, Escape, Fail, Crash, Leave, Fresh, Step, Queue, Analyze, FollowLeader, ReadCode, BeginAttempt,
       InvalidFix, AgentFix, GenerateFix, BeginPush, CreateBranch, Commit, CommitRefused, AwaitCi,
       PollSuccess, PollEmpty, FlakeRetry, CiRetry, CiGivesUp, StagingRetry, StagingAnswers, E2E,
       SkipE2E, EvaluateGates, CreatePR, SavePR, AutoMerge, AutoMergeThrows, Complete, Reverted,
       NextAttempt, Conclude, run, ci
  <2> QED BY <2>1 DEF TypeOK
<1>7. known'[q] = known[q]
  <2>1. known' = known \/ \E x : known' = [known EXCEPT ![r] = x]
    BY DEF Moves, Start, Escape, Fail, Crash, Leave, Fresh, Step, Queue, Analyze, FollowLeader, ReadCode, BeginAttempt,
       InvalidFix, AgentFix, GenerateFix, BeginPush, CreateBranch, Commit, CommitRefused, AwaitCi,
       PollSuccess, PollEmpty, FlakeRetry, CiRetry, CiGivesUp, StagingRetry, StagingAnswers, E2E,
       SkipE2E, EvaluateGates, CreatePR, SavePR, AutoMerge, AutoMergeThrows, Complete, Reverted,
       NextAttempt, Conclude, run, ci
  <2> QED BY <2>1, Zenon DEF TypeOK
<1>8. verdict'[q] = verdict[q]
  <2>1. verdict' = verdict \/ \E x : verdict' = [verdict EXCEPT ![r] = x]
    BY DEF Moves, Start, Escape, Fail, Crash, Leave, Fresh, Step, Queue, Analyze, FollowLeader, ReadCode, BeginAttempt,
       InvalidFix, AgentFix, GenerateFix, BeginPush, CreateBranch, Commit, CommitRefused, AwaitCi,
       PollSuccess, PollEmpty, FlakeRetry, CiRetry, CiGivesUp, StagingRetry, StagingAnswers, E2E,
       SkipE2E, EvaluateGates, CreatePR, SavePR, AutoMerge, AutoMergeThrows, Complete, Reverted,
       NextAttempt, Conclude, run, ci
  <2> QED BY <2>1 DEF TypeOK
<1>9. judged'[q] = judged[q]
  <2>1. judged' = judged \/ \E x : judged' = [judged EXCEPT ![r] = x]
    BY DEF Moves, Start, Escape, Fail, Crash, Leave, Fresh, Step, Queue, Analyze, FollowLeader, ReadCode, BeginAttempt,
       InvalidFix, AgentFix, GenerateFix, BeginPush, CreateBranch, Commit, CommitRefused, AwaitCi,
       PollSuccess, PollEmpty, FlakeRetry, CiRetry, CiGivesUp, StagingRetry, StagingAnswers, E2E,
       SkipE2E, EvaluateGates, CreatePR, SavePR, AutoMerge, AutoMergeThrows, Complete, Reverted,
       NextAttempt, Conclude, run, ci
  <2> QED BY <2>1 DEF TypeOK
<1>10. \/ UNCHANGED <<commits, checks>>
      \/ \E b \in {<<r, "own">>, <<r, "agent">>} : PushTo(b)
  BY DEF Moves, Start, Escape, Fail, Crash, Step, Queue, Analyze, FollowLeader, ReadCode, BeginAttempt,
       InvalidFix, AgentFix, GenerateFix, BeginPush, CreateBranch, Commit, CommitRefused, AwaitCi,
       PollSuccess, PollEmpty, FlakeRetry, CiRetry, CiGivesUp, StagingRetry, StagingAnswers, E2E,
       SkipE2E, EvaluateGates, CreatePR, SavePR, AutoMerge, AutoMergeThrows, Complete, Reverted,
       NextAttempt, Conclude, hub, Branch
<1>11. /\ UNCHANGED <<commits[<<q, "own">>], commits[<<q, "agent">>]>>
       /\ commits'[Branch(q)] = commits[Branch(q)]
       /\ checks'[Branch(q)] = checks[Branch(q)]
  BY <1>10, BranchOwn, BranchType DEF PushTo, TypeOK, Branches
<1> QED BY <1>1, <1>2, <1>3, <1>4, <1>5, <1>6, <1>7, <1>8, <1>9, <1>11

\* MergesOnItsVerdict speaks of the last moment only.  What makes it inductive
\* is that the verdict is tied to the head from the poll on: the head is the
\* last commit while the run polls, and from a success on the checks that
\* gated it are over on that very commit.
Judging == {"staging", "gates", "creating", "saving", "savingAuto", "merging"}
Over    == {"pass", "skipped", "cancelled"}

Passed(r) ==
  /\ head[r] = commits[Branch(r)]
  /\ judged[r] # {}
  /\ \A c \in judged[r] : checks[Branch(r)][c] \in Over
  /\ known[r] => judged[r] \subseteq Required

Judged(r) ==
  /\ pc[r] = "polling" => head[r] = commits[Branch(r)]
  /\ pc[r] \in Judging /\ verdict[r] = "success" => Passed(r)
  /\ pc[r] \in {"savingAuto", "merging"} => verdict[r] = "success"

AllJudged == \A r \in Runs : Judged(r)

\* A success is about some check, and about none that is open or failed.
LEMMA SuccessIsJudged ==
  ASSUME TypeOK, NEW r \in Runs, CiStatus(r) = "success"
  PROVE  /\ Gating(r) # {}
         /\ \A c \in Gating(r) : checks[Branch(r)][c] \in Over
         /\ known[r] => Gating(r) \subseteq Required
<1>1. /\ Gating(r) # {}
      /\ \A c \in Gating(r) : checks[Branch(r)][c] # "running" /\ checks[Branch(r)][c] # "fail"
  BY DEF CiStatus
<1>2. Gating(r) \subseteq Reported(Branch(r))
  BY DEF Gating
<1>3. known[r] => Gating(r) \subseteq Required
  <2>1. known[r] => Gating(r) = Reported(Branch(r)) \cap Required
    BY Zenon DEF Gating
  <2> QED BY <2>1
<1>4. ASSUME NEW c \in Gating(r) PROVE checks[Branch(r)][c] \in Over
  <2>1. c \in Checks /\ checks[Branch(r)][c] # "absent"
    BY <1>2, <1>4 DEF Reported
  <2>2. checks[Branch(r)][c] \in {"absent", "running"} \cup Conclusions
    BY <2>1, BranchType DEF TypeOK
  <2> QED BY <1>1, <1>4, <2>1, <2>2, RemediationAssumption DEF Over
<1> QED BY <1>1, <1>3, <1>4

\* What the verdict of a run is about has not moved.
LEMMA JudgedStays ==
  ASSUME NEW q \in Runs, Judged(q),
         UNCHANGED <<pc[q], agent[q], head[q], known[q], verdict[q], judged[q]>>,
         commits'[Branch(q)] = commits[Branch(q)],
         \A c \in judged[q] : checks[Branch(q)][c] \in Over => checks'[Branch(q)][c] \in Over
  PROVE  Judged(q)'
<1>1. Branch(q)' = Branch(q)
  BY DEF Branch
<1>2. Passed(q) => Passed(q)'
  BY <1>1 DEF Passed
<1> QED BY <1>1, <1>2 DEF Judged

\* The run's own steps: the verdict is bound to the head it was given for.
LEMMA OwnRun ==
  ASSUME TypeOK, NEW r \in Runs, Judged(r), Moves(r), ~HasE2E
  PROVE  Judged(r)'
<1>1. ASSUME pc'[r] \notin Judging \cup {"polling"} PROVE Judged(r)'
  BY <1>1 DEF Judged, Judging
<1>a. CASE \/ Escape(r) \/ Fail(r) \/ Crash(r) \/ Queue(r) \/ FollowLeader(r) \/ CommitRefused(r)
           \/ CiGivesUp(r) \/ AutoMergeThrows(r) \/ Complete(r) \/ Reverted(r)
  <2>1. pc'[r] \in Ended
    BY <1>a DEF Escape, Fail, Crash, Queue, FollowLeader, CommitRefused, CiGivesUp,
       AutoMergeThrows, Complete, Reverted, Leave, Goto, TypeOK, Ended
  <2> QED BY <1>1, <2>1 DEF Ended, Judging
<1>b. CASE \/ Start(r) \/ Analyze(r) \/ ReadCode(r) \/ BeginAttempt(r) \/ CreateBranch(r)
           \/ Commit(r) \/ FlakeRetry(r) \/ AutoMerge(r)
  <2>1. pc'[r] \in {"init", "context", "loop", "generating", "committing", "pushed", "merged"}
    BY <1>b DEF Start, Analyze, ReadCode, BeginAttempt, CreateBranch, Commit, FlakeRetry, AutoMerge,
       Goto, TypeOK
  <2> QED BY <1>1, <2>1 DEF Judging
<1>c. CASE \/ InvalidFix(r) \/ CiRetry(r) \/ StagingRetry(r)
           \/ AgentFix(r) \/ GenerateFix(r) \/ BeginPush(r)
  <2>1. pc'[r] \in {"loop", "reviewing", "pushed", "pushing", "committing"}
    BY <1>c DEF InvalidFix, CiRetry, StagingRetry, NextAttempt, AgentFix, GenerateFix, BeginPush,
       Goto, TypeOK
  <2> QED BY <1>1, <2>1 DEF Judging
<1>2. CASE AwaitCi(r)
  <2>1. pc'[r] = "polling" /\ head'[r] = commits[Branch(r)] /\ UNCHANGED <<agent, commits>>
    BY <1>2 DEF AwaitCi, Goto, TypeOK, hub
  <2> QED BY <2>1 DEF Judged, Judging, Branch
<1>3. CASE PollSuccess(r)
  <2>1. /\ pc[r] = "polling" /\ pc'[r] = "staging" /\ CiStatus(r) = "success"
        /\ judged'[r] = Gating(r)
        /\ UNCHANGED <<head, known, agent, commits, checks>>
    BY <1>3 DEF PollSuccess, Goto, Conclude, TypeOK, hub
  <2>2. Branch(r)' = Branch(r)
    BY <2>1 DEF Branch
  <2>3. head[r] = commits[Branch(r)]
    BY <2>1 DEF Judged
  <2>4. known'[r] => judged'[r] \subseteq Required
    BY <2>1, SuccessIsJudged, Zenon
  <2>5. Passed(r)'
    BY <2>1, <2>2, <2>3, <2>4, SuccessIsJudged DEF Passed
  <2> QED BY <2>1, <2>5 DEF Judged
<1>4. CASE PollEmpty(r)
  <2>1. pc'[r] = "staging" /\ verdict'[r] = "empty"
    BY <1>4 DEF PollEmpty, Goto, Conclude, TypeOK
  <2> QED BY <2>1 DEF Judged
<1>5. CASE StagingAnswers(r) \/ SkipE2E(r) \/ EvaluateGates(r)
  <2>1. /\ pc[r] \in Judging /\ pc'[r] \in {"gates", "creating"}
        /\ UNCHANGED <<ci, agent, commits, checks>>
    BY <1>5 DEF StagingAnswers, SkipE2E, EvaluateGates, Goto, TypeOK, hub, run, Judging
  <2> QED BY <2>1 DEF Judged, Passed, Branch, ci
<1>6. CASE CreatePR(r) \/ SavePR(r)
  <2>1. \/ pc'[r] = "ended"
        \/ /\ pc[r] \in Judging /\ pc'[r] \in {"saving", "savingAuto", "merging"}
           /\ UNCHANGED <<ci, agent, commits, checks>>
    BY <1>6 DEF CreatePR, SavePR, Leave, Goto, TypeOK, hub, run, Judging
  <2>2. pc'[r] \in {"savingAuto", "merging"} => verdict[r] = "success"
    BY <1>6 DEF CreatePR, SavePR, Leave, MayAutoMerge, Goto, TypeOK, Judged
  <2> QED BY <2>1, <2>2 DEF Judged, Passed, Branch, Judging, ci
<1>7. ~E2E(r)
  BY DEF E2E
<1> QED BY <1>a, <1>b, <1>c, <1>2, <1>3, <1>4, <1>5, <1>6, <1>7 DEF Moves, Step

\* CI and everybody else: a check that is over stays as it is.
LEMMA OthersJudged ==
  ASSUME TypeOK, AllJudged, Others \/ ResolvedByFollower
  PROVE  AllJudged'
<1>1. UNCHANGED <<pc, ci, agent, commits>>
  BY DEF Others, CheckMoves, MarkReady, ApproveReads, ApproveMarks, ApproveMerges, ApproveEnds,
     ApproveInChat, Feedback, Cancel, ResolvedByFollower, run, hub
<1>2. \A b \in Branches, c \in Checks : checks[b][c] \in Over => checks'[b][c] \in Over
  <2>1. CASE UNCHANGED checks
    BY <2>1
  <2>2. CASE \E b \in Branches, c \in Checks : CheckMoves(b, c)
    BY <2>2 DEF CheckMoves, TypeOK, Over
  <2> QED BY <2>1, <2>2 DEF Others, MarkReady, ApproveReads, ApproveMarks, ApproveMerges,
             ApproveEnds, ApproveInChat, Feedback, Cancel, ResolvedByFollower, hub
<1> SUFFICES ASSUME NEW q \in Runs PROVE Judged(q)'
  BY DEF AllJudged
<1>3. \A c \in judged[q] : checks[Branch(q)][c] \in Over => checks'[Branch(q)][c] \in Over
  BY <1>2, BranchType DEF TypeOK
<1>4. Judged(q)
  BY DEF AllJudged
<1>5. /\ UNCHANGED <<pc[q], agent[q], head[q], known[q], verdict[q], judged[q]>>
      /\ commits'[Branch(q)] = commits[Branch(q)]
  BY <1>1 DEF ci
<1> QED BY <1>3, <1>4, <1>5, JudgedStays

\* Where no E2E framework adds a commit after the poll, a run that goes on to
\* merge holds CI's verdict on the very head it merges: some check, of those
\* that are required where this could be read, is over there, and no check that
\* the verdict looked at has failed; whatever other runs, CI and the user do.
THEOREM MergesJudged ==
  ASSUME ~HasE2E
  PROVE  Spec => []MergesOnItsVerdict
<1>1. Init => AllJudged
  BY DEF Init, AllJudged, Judged, Judging
<1>2. TypeOK /\ AllJudged /\ [Next]_vars => AllJudged'
  <2> SUFFICES ASSUME TypeOK, AllJudged, [Next]_vars PROVE AllJudged'
    OBVIOUS
  <2>1. ASSUME NEW r \in Runs, Moves(r) PROVE AllJudged'
    <3> SUFFICES ASSUME NEW q \in Runs PROVE Judged(q)'
      BY DEF AllJudged
    <3>1. Judged(q)
      BY DEF AllJudged
    <3>2. CASE q = r
      BY <2>1, <3>1, <3>2, OwnRun
    <3>3. CASE q # r
      BY <2>1, <3>1, <3>3, OtherRun, JudgedStays
    <3> QED BY <3>2, <3>3
  <2>2. CASE Others \/ ResolvedByFollower
    BY <2>2, OthersJudged
  <2>3. CASE UNCHANGED vars
    BY <2>3 DEF AllJudged, Judged, Passed, Branch, vars, run, ci, hub
  <2> QED BY <2>1, <2>2, <2>3 DEF Next, Moves
<1>3. AllJudged => MergesOnItsVerdict
  BY DEF AllJudged, Judged, Judging, Passed, Over, MergesOnItsVerdict
<1> QED BY TypeCorrect, <1>1, <1>2, <1>3, PTL DEF Spec

-----------------------------------------------------------------------------
(* Settled: who wrote the status last is still there, or its word is final *)

Closing == Terminal \cup {"approved"}

\* A run that writes the status again before it ends, whoever wrote it last.
\* Before it reads the code it may also end without a word.
WillWrite(r) ==
  \/ pc[r] \in {"reading", "loop", "generating", "reviewing", "pushing", "committing",
                "pushed", "polling", "staging", "gates"}
  \/ pc[r] = "context" /\ status = "analyzing"

\* Somebody who has not written anything yet or said nothing, who never gets to
\* an end, or who still has to write.
SomebodyWrites ==
  \/ \E r \in Runs : pc[r] \in {"queued", "crashed"}
  \/ status = "analyzing" /\ (\/ \A r \in Runs : pc[r] \in {"idle", "init"}
                              \/ \E r \in Runs : pc[r] = "left")
  \/ \E r \in Runs : WillWrite(r)
  \/ user # "away"

ProposalIsSaved ==
  status = "proposing" =>
    prNo # NoPR \/ \E r \in Runs : pc[r] \in {"creating", "saving", "savingAuto", "crashed"}

SettleInv == (status \notin Closing => SomebodyWrites) /\ ProposalIsSaved

LEMMA SettleInit == Init => SettleInv
BY DEF Init, SettleInv, SomebodyWrites, ProposalIsSaved

\* The steps of a run up to the gates, and its failure, leave behind either
\* itself as a writer or a final status.
LEMMA SettleStep ==
  ASSUME TypeOK, SettleInv, NEW r \in Runs, Moves(r)
  PROVE  SettleInv'
<1> USE DEF SettleInv, SomebodyWrites, ProposalIsSaved, WillWrite, Closing, Terminal, TypeOK,
            Goto, Leave, SetStatus, Running, Failable, Ended
<1>1. CASE Start(r)
  BY <1>1 DEF Start, row, usr, hub
<1>2. CASE Queue(r) \/ Analyze(r)
  BY <1>2 DEF Queue, Analyze, usr
<1>3. CASE FollowLeader(r) \/ Escape(r)
  BY <1>3 DEF FollowLeader, FollowersResolved, Escape, row, usr
<1>4. CASE ReadCode(r) \/ BeginPush(r) \/ AwaitCi(r) \/ FlakeRetry(r)
  BY <1>4 DEF ReadCode, BeginPush, AwaitCi, FlakeRetry, usr
<1>5. CASE BeginAttempt(r)
  BY <1>5 DEF BeginAttempt, usr
<1>6. CASE InvalidFix(r) \/ CiRetry(r) \/ StagingRetry(r)
  BY <1>6 DEF InvalidFix, CiRetry, StagingRetry, NextAttempt, row, usr
<1>7. CASE AgentFix(r) \/ GenerateFix(r) \/ CreateBranch(r) \/ Commit(r)
  BY <1>7 DEF AgentFix, GenerateFix, CreateBranch, Commit, row, usr
<1>8. CASE PollSuccess(r) \/ PollEmpty(r)
  BY <1>8 DEF PollSuccess, PollEmpty, Conclude, row, usr
<1>9. CASE StagingAnswers(r) \/ E2E(r) \/ SkipE2E(r)
  BY <1>9 DEF StagingAnswers, E2E, SkipE2E, row, usr
<1>10. CASE EvaluateGates(r)
  BY <1>10 DEF EvaluateGates, usr
<1>11. CASE CreatePR(r)
  <2>1. /\ pc[r] = "creating" /\ pc'[r] \in {"saving", "savingAuto"}
        /\ \A q \in Runs \ {r} : pc'[q] = pc[q]
        /\ UNCHANGED <<row, usr>>
    BY <1>11 DEF CreatePR
  <2>2. ASSUME NEW q \in Runs \ {r} PROVE WillWrite(q)' <=> WillWrite(q)
    BY <2>1 DEF row
  <2>3. ~WillWrite(r) /\ pc[r] \notin {"queued", "crashed", "left", "idle", "init"}
    BY <2>1
  <2>4. SomebodyWrites => SomebodyWrites'
    <3> USE DEF row, usr
    <3>1. CASE \E q \in Runs : WillWrite(q)
      <4>1. PICK q \in Runs \ {r} : WillWrite(q)
        BY <2>3, <3>1
      <4> QED BY <2>2, <4>1
    <3>2. CASE \E q \in Runs : pc[q] \in {"queued", "crashed"}
      <4>1. \E q \in Runs \ {r} : pc[q] \in {"queued", "crashed"}
        BY <2>3, <3>2
      <4> QED BY <2>1, <4>1
    <3>3. CASE status = "analyzing" /\ \E q \in Runs : pc[q] = "left"
      <4>1. \E q \in Runs \ {r} : pc[q] = "left"
        BY <2>3, <3>3
      <4> QED BY <2>1, <3>3, <4>1
    <3>4. CASE user # "away"
      BY <2>1, <3>4
    <3> QED BY <2>3, <3>1, <3>2, <3>3, <3>4
  <2>5. ProposalIsSaved'
    BY <2>1
  <2> QED BY <2>1, <2>4, <2>5 DEF row
<1>12. CASE SavePR(r)
  <2>1. prNo' = Branch(r) /\ Branch(r) \in Branches /\ Branch(r) # NoPR
    BY <1>12, BranchType, RemediationAssumption DEF SavePR, Branches
  <2> QED
    BY <1>12, <2>1 DEF SavePR, usr
<1>13. CASE AutoMerge(r) \/ AutoMergeThrows(r)
  BY <1>13 DEF AutoMerge, AutoMergeThrows, row, usr
<1>14. CASE CommitRefused(r) \/ CiGivesUp(r) \/ Complete(r) \/ Reverted(r) \/ Fail(r)
  BY <1>14 DEF CommitRefused, CiGivesUp, Complete, Reverted, Fail, usr
<1>15. CASE Crash(r)
  BY <1>15 DEF Crash, row, usr
<1> QED
  BY <1>1, <1>2, <1>3, <1>4, <1>5, <1>6, <1>7, <1>8, <1>9, <1>10, <1>11, <1>12, <1>13, <1>14,
     <1>15 DEF Moves, Step

LEMMA SettleOthers ==
  ASSUME TypeOK, SettleInv, Others \/ ResolvedByFollower \/ UNCHANGED vars
  PROVE  SettleInv'
<1> USE DEF SettleInv, SomebodyWrites, ProposalIsSaved, WillWrite, Closing, Terminal, SetStatus
<1>1. CASE \/ \E b \in Branches, c \in Checks : CheckMoves(b, c)
           \/ \E b \in Branches : MarkReady(b)
           \/ ApproveMerges \/ UNCHANGED vars
  BY <1>1 DEF CheckMoves, MarkReady, ApproveMerges, row, usr, vars
<1>2. CASE ApproveReads \/ ApproveMarks
  BY <1>2 DEF ApproveReads, ApproveMarks, row
<1>3. CASE ApproveEnds \/ ApproveInChat \/ Feedback \/ Cancel
  BY <1>3 DEF ApproveEnds, ApproveInChat, Feedback, Cancel, usr
<1>4. CASE ResolvedByFollower
  BY <1>4 DEF ResolvedByFollower, FollowersResolved, usr
<1> QED
  BY <1>1, <1>2, <1>3, <1>4 DEF Others

\* For every number of runs, users and crashes between them: when nobody works
\* on the session any more, its row is not one that looks as if somebody did,
\* but for the row that is left being analyzed by a run that ended without a
\* word before it read the code.
THEOREM SessionsSettle == Spec => []Settled
<1>1. SettleInv => Settled
  BY DEF SettleInv, SomebodyWrites, ProposalIsSaved, WillWrite, Closing, Settled
<1>2. TypeOK /\ SettleInv /\ [Next]_vars => SettleInv'
  BY SettleStep, SettleOthers DEF Next, Moves
<1> QED
  BY <1>1, <1>2, SettleInit, TypeCorrect, PTL DEF Spec

-----------------------------------------------------------------------------
(* Completed: whoever writes it has a merged pull request behind him       *)

Unopened == {"idle", "init", "context", "reading", "loop", "generating", "reviewing", "pushing",
             "committing", "pushed", "polling", "staging", "gates", "creating", "queued"}

PrInv ==
  /\ \A r \in Runs : pc[r] \in Unopened =>
       pr[<<r, "own">>] = "none" /\ pr[<<r, "agent">>] = "none"
  /\ \A r \in Runs : pc[r] = "merged" => pr[Branch(r)] = "merged"
  /\ user # "away" => approving \in Branches
  /\ user = "merged" => pr[approving] = "merged"

LEMMA PrInit == Init => PrInv
BY DEF Init, PrInv, Branches

LEMMA PrStep == TypeOK /\ PrInv /\ [Next]_vars => PrInv'
<1> SUFFICES ASSUME TypeOK, PrInv, [Next]_vars
             PROVE  PrInv'
  OBVIOUS
<1> USE DEF PrInv, TypeOK, Goto, Leave, Fresh, SetStatus, Unopened
<1>1. ASSUME NEW r \in Runs, CreatePR(r)
      PROVE  PrInv'
  <2>1. Branch(r) \in Branches /\ pr[Branch(r)] = "none"
    BY <1>1, BranchType DEF CreatePR, Branch
  <2>2. PICK v \in {"draft", "open"} : pr' = [pr EXCEPT ![Branch(r)] = v]
    BY <1>1 DEF CreatePR
  <2>3. /\ pc' \in {[pc EXCEPT ![r] = "saving"], [pc EXCEPT ![r] = "savingAuto"]}
        /\ UNCHANGED <<agent, user, approving>>
    BY <1>1 DEF CreatePR, run, usr
  <2>4. \A q \in Runs : pc'[q] \in Unopened =>
          pr'[<<q, "own">>] = "none" /\ pr'[<<q, "agent">>] = "none"
    BY <2>1, <2>2, <2>3, BranchOwn DEF Branch, Branches
  <2>5. \A q \in Runs : pc'[q] = "merged" => pr'[Branch(q)'] = "merged"
    BY <2>1, <2>2, <2>3, BranchType DEF Branch
  <2> QED
    BY <2>1, <2>2, <2>3, <2>4, <2>5
<1>2. ASSUME NEW r \in Runs, AutoMerge(r)
      PROVE  PrInv'
  <2>1. Branch(r) \in Branches
    BY BranchType
  <2>2. \A q \in Runs : Branch(q)' = Branch(q) /\ Branch(q) \in Branches
    BY <1>2, BranchType DEF AutoMerge, run, Branch
  <2>3. \A q \in Runs : pc'[q] \in Unopened => q # r /\ pc[q] \in Unopened
    BY <1>2 DEF AutoMerge
  <2>4. \A q \in Runs \ {r} : <<q, "own">> # Branch(r) /\ <<q, "agent">> # Branch(r)
    BY DEF Branch
  <2>5. pr' = [pr EXCEPT ![Branch(r)] = "merged"] /\ pc' = [pc EXCEPT ![r] = "merged"]
        /\ UNCHANGED <<user, approving>>
    BY <1>2 DEF AutoMerge, usr
  <2>6. \A q \in Runs : <<q, "own">> \in Branches /\ <<q, "agent">> \in Branches
    BY DEF Branches
  <2>7. \A q \in Runs : pc'[q] \in Unopened =>
          pr'[<<q, "own">>] = "none" /\ pr'[<<q, "agent">>] = "none"
    BY <2>1, <2>3, <2>4, <2>5, <2>6
  <2>8. \A q \in Runs : pc'[q] = "merged" => pr'[Branch(q)'] = "merged"
    BY <2>1, <2>2, <2>5
  <2> QED
    BY <2>1, <2>5, <2>7, <2>8
<1>3. ASSUME NEW b \in Branches, pr[b] # "none", NEW v \in {"open", "merged"},
             pr' = [pr EXCEPT ![b] = v], pr[b] = "merged" => v = "merged",
             UNCHANGED <<pc, agent, approving>>, user' = "merged" => pr'[approving] = "merged",
             user' # "away" => approving \in Branches
      PROVE  PrInv'
  BY <1>3, BranchType DEF Branch
<1>4. ASSUME NEW b \in Branches, MarkReady(b)
      PROVE  PrInv'
  BY <1>3, <1>4 DEF MarkReady, usr, run
<1>5. CASE ApproveMerges
  <2>1. approving \in Branches
    BY <1>5 DEF ApproveMerges
  <2>2. CASE Mergeable(approving) /\ user' = "merged" /\ pr' = [pr EXCEPT ![approving] = "merged"]
    BY <1>3, <1>5, <2>1, <2>2 DEF ApproveMerges, Mergeable, run
  <2>3. CASE user' = "refused" /\ UNCHANGED pr
    BY <1>5, <2>1, <2>3, BranchType DEF ApproveMerges, run, Branch
  <2> QED
    BY <1>5, <2>2, <2>3 DEF ApproveMerges
<1>6. CASE ApproveReads
  BY <1>6 DEF ApproveReads, hub, run, Branch
<1>7. CASE \/ ApproveMarks \/ ApproveEnds \/ ApproveInChat \/ Feedback \/ Cancel
           \/ ResolvedByFollower
  BY <1>7 DEF ResolvedByFollower, ApproveMarks, ApproveEnds, ApproveInChat, Feedback, Cancel, hub, run, usr, Branch
<1>8. CASE (\E b \in Branches, c \in Checks : CheckMoves(b, c)) \/ UNCHANGED vars
  BY <1>8 DEF CheckMoves, run, usr, hub, vars, Branch
<1>9. ASSUME NEW r \in Runs, UNCHANGED pr, UNCHANGED usr,
             \A q \in Runs : pc'[q] \in Unopened => pc[q] \in Unopened,
             \A q \in Runs : pc'[q] = "merged" => pc[q] = "merged" /\ agent'[q] = agent[q]
      PROVE  PrInv'
  BY <1>9 DEF usr, Branch
<1>10. ASSUME NEW r \in Runs, Start(r) \/ Escape(r) \/ Fail(r) \/ Crash(r)
       PROVE  PrInv'
  BY <1>9, <1>10 DEF Start, Escape, Fail, Crash, Failable, Running, hub
<1>a. ASSUME NEW r \in Runs, \/ Queue(r) \/ FollowLeader(r) \/ CiGivesUp(r) \/ CommitRefused(r)
                             \/ AutoMergeThrows(r) \/ Complete(r) \/ Reverted(r)
      PROVE  PrInv'
  <2>1. UNCHANGED <<pr, usr>> /\ (Queue(r) \/ \E from : \E to \in {"ended", "left"} : Leave(r, from, to))
    BY <1>a DEF Queue, FollowLeader, CiGivesUp, CommitRefused, AutoMergeThrows, Complete, Reverted, hub
  <2>2. CASE Queue(r)
    BY <1>9, <2>2 DEF Queue, hub
  <2>3. CASE \E from : \E to \in {"ended", "left"} : Leave(r, from, to)
    <3>1. PICK from, to : to \in {"ended", "left"} /\ Leave(r, from, to)
      BY <2>3
    <3>2. \A q \in Runs : pc'[q] \in Unopened \/ pc'[q] = "merged" => q # r /\ pc'[q] = pc[q]
      BY <3>1
    <3>3. \A q \in Runs : q # r => agent'[q] = agent[q]
      BY <3>1
    <3> QED
      BY <1>9, <2>1, <3>2, <3>3
  <2> QED
    BY <2>1, <2>2, <2>3
<1>11. ASSUME NEW r \in Runs, Analyze(r) \/ ReadCode(r)
       PROVE  PrInv'
  BY <1>9, <1>11 DEF Analyze, ReadCode, hub, run
<1>b. ASSUME NEW r \in Runs, BeginAttempt(r)
      PROVE  PrInv'
  <2>1. pc[r] = "loop" /\ pc' = [pc EXCEPT ![r] = "generating"] /\ UNCHANGED <<pr, usr>>
    BY <1>b DEF BeginAttempt, hub
  <2>2. \A q \in Runs : q # r => agent'[q] = agent[q]
    BY <1>b DEF BeginAttempt
  <2> QED
    BY <1>9, <2>1, <2>2
<1>12. ASSUME NEW r \in Runs, \/ InvalidFix(r) \/ CiRetry(r) \/ StagingRetry(r)
                              \/ GenerateFix(r) \/ BeginPush(r) \/ CreateBranch(r)
                              \/ AwaitCi(r)
       PROVE  PrInv'
  BY <1>9, <1>12 DEF InvalidFix, CiRetry, StagingRetry, NextAttempt, GenerateFix, BeginPush,
                     CreateBranch, AwaitCi, hub, run
<1>13. ASSUME NEW r \in Runs, AgentFix(r)
       PROVE  PrInv'
  BY <1>9, <1>13 DEF AgentFix, PushTo
<1>14. ASSUME NEW r \in Runs, Commit(r) \/ E2E(r)
       PROVE  PrInv'
  BY <1>9, <1>14 DEF Commit, E2E, PushTo, run
<1>15. ASSUME NEW r \in Runs, PollSuccess(r) \/ PollEmpty(r) \/ FlakeRetry(r)
       PROVE  PrInv'
  BY <1>9, <1>15 DEF PollSuccess, PollEmpty, FlakeRetry, Conclude, hub, run
<1>16. ASSUME NEW r \in Runs, \/ StagingAnswers(r) \/ SkipE2E(r) \/ EvaluateGates(r) \/ SavePR(r)
       PROVE  PrInv'
  BY <1>9, <1>16 DEF StagingAnswers, SkipE2E, EvaluateGates, SavePR, hub, run
<1> QED
  BY <1>1, <1>2, <1>4, <1>5, <1>6, <1>7, <1>8, <1>a, <1>b, <1>10, <1>11, <1>12, <1>13, <1>14, <1>15, <1>16
     DEF Next, Step, Others

\* For every number of runs and users at a time: a session is completed when
\* a pull request of it is merged, by its incident's leader, or by feedback.
THEOREM CompletedCorrect == Spec => CompletedIsMerged
<1>1. TypeOK /\ PrInv /\ [Next]_vars =>
        [status # "completed" /\ status' = "completed" =>
           \/ status \in {"analyzing", "queued"}
           \/ \E b \in Branches : pr[b] = "merged"
           \/ Feedback]_vars
  <2> SUFFICES ASSUME TypeOK, PrInv, Next, status # "completed", status' = "completed"
               PROVE  \/ status \in {"analyzing", "queued"}
                      \/ \E b \in Branches : pr[b] = "merged"
                      \/ Feedback
    OBVIOUS
  <2> USE DEF PrInv, SetStatus, Goto, Leave
  <2>1. ASSUME NEW r \in Runs, Complete(r)
        PROVE  \E b \in Branches : pr[b] = "merged"
    BY <2>1, BranchType DEF Complete
  <2>2. ASSUME FollowersResolved
        PROVE  status \in {"analyzing", "queued"}
    BY <2>2 DEF FollowersResolved
  <2>3. ASSUME ApproveEnds
        PROVE  \E b \in Branches : pr[b] = "merged"
    BY <2>3 DEF ApproveEnds
  <2>4. ASSUME NEW r \in Runs, Moves(r), ~Complete(r), ~FollowLeader(r)
        PROVE  FALSE
    BY <2>4 DEF Moves, Step, Start, Escape, Fail, Crash, Queue, Analyze, ReadCode, BeginAttempt, InvalidFix,
                AgentFix, GenerateFix, BeginPush, CreateBranch, Commit, CommitRefused, AwaitCi,
                PollSuccess, PollEmpty, FlakeRetry, CiRetry, CiGivesUp, StagingRetry, NextAttempt,
                StagingAnswers, E2E, SkipE2E, EvaluateGates, CreatePR, SavePR, AutoMerge,
                AutoMergeThrows, Reverted, Conclude, row
  <2>5. ASSUME Others, ~ApproveEnds, ~Feedback
        PROVE  FALSE
    BY <2>5 DEF Others, CheckMoves, MarkReady, ApproveReads, ApproveMarks, ApproveMerges,
                ApproveInChat, Cancel, row
  <2> QED
    BY <2>1, <2>2, <2>3, <2>4, <2>5 DEF Next, Moves, FollowLeader, ResolvedByFollower
<1> QED
  BY <1>1, PrInit, PrStep, TypeCorrect, PTL DEF Spec, CompletedIsMerged

-----------------------------------------------------------------------------
(* The row as its readers see it: one run at a time and no user            *)

Alone == Overlap = FALSE /\ UserActs = FALSE

Working == {"init", "context", "reading", "loop", "generating", "reviewing", "pushing",
            "committing", "pushed", "polling", "staging", "gates"}
Writing  == Working \ {"init", "context"}
Written  == {"reading_code", "generating_fix", "pushing", "awaiting_ci"}
Offering == {"creating", "saving", "savingAuto", "merging", "merged"}
InAttempt == Writing \ {"loop"}

\* What a run at each step knows of the row: nobody else writes it from the
\* time it reads the code, and before only another session's run does.
LifeInv ==
  /\ \A r, q \in Runs : pc[r] \in Running /\ pc[q] \in Running => r = q
  /\ \A r \in Runs : pc[r] \in {"init", "context"} => Stage \in {"working", "followed"}
  /\ \A r \in Runs : pc[r] \in Writing => status \in Written
  /\ \A r \in Runs : pc[r] \in Offering => status = "proposing"
  /\ \A r \in Runs : pc[r] \in {"init", "context"} \cup InAttempt => att[r] = attempt
  /\ \A r \in Runs : pc[r] = "loop" => att[r] \in {attempt, attempt + 1}
  /\ user = "away" /\ status \notin {"cancelled", "merging", "approved"}
  /\ Merged =>
       status \in Terminal /\ \A r \in Runs : pc[r] \notin Offering \ {"merged"}

LEMMA LifeInit == Init => LifeInv
BY DEF Init, LifeInv, Stage, Merged, Written, Writing, Working, Offering, InAttempt, Running, Failable

\* Everything but a run is at rest.
LEMMA AloneOthers ==
  ASSUME Alone, TypeOK, LifeInv, Others
  PROVE  UNCHANGED <<row, pc, run, ci, pr, usr>>
<1>1. ~ApproveReads /\ ~ApproveMarks /\ ~ApproveMerges /\ ~ApproveEnds /\ ~ApproveInChat
      /\ ~Feedback /\ ~Cancel /\ \A b \in Branches : ~MarkReady(b)
  BY DEF Alone, LifeInv, ApproveReads, ApproveMarks, ApproveMerges, ApproveEnds, ApproveInChat,
         Feedback, Cancel, MarkReady
<1> QED
  BY <1>1 DEF Others, CheckMoves, row, run, ci, usr

\* The leader's fix closes a session that is not further than its analysis.
LEMMA FollowedStage ==
  ASSUME LifeInv, FollowersResolved, UNCHANGED pr
  PROVE  Life!Follow \/ UNCHANGED Life!vars
<1>1. status' = status \/ (status \in {"analyzing", "queued"} /\ status' = "completed")
  BY DEF FollowersResolved
<1>2. UNCHANGED <<attempt, pr>> /\ (Merged' <=> Merged)
  BY DEF FollowersResolved, Merged
<1>3. CASE status' = status
  BY <1>2, <1>3 DEF Life!vars, Stage, Merged
<1>4. CASE status \in {"analyzing", "queued"} /\ status' = "completed"
  <2>1. ~Merged
    BY <1>4 DEF LifeInv, Terminal
  <2>2. Stage = "working" /\ Stage' = "followed"
    BY <1>2, <1>4, <2>1 DEF Stage
  <2> QED
    BY <1>2, <2>2 DEF Life!Follow, Merged
<1> QED
  BY <1>1, <1>3, <1>4

\* From the code it reads to the pull request the run alone writes the row.
LEMMA InAttemptStep ==
  ASSUME TypeOK, LifeInv, NEW r \in Runs, pc[r] \in {"context"} \cup InAttempt,
         NEW to \in Writing, pc' = [pc EXCEPT ![r] = to],
         UNCHANGED <<attempt, pr, usr>>, status' \in Written,
         \/ att' = att
         \/ to = "loop" /\ att' = [att EXCEPT ![r] = @ + 1]
  PROVE  LifeInv' /\ (Life!GoOn \/ UNCHANGED Life!vars)
<1>1. /\ \A q \in Runs : q # r => pc'[q] = pc[q] /\ att'[q] = att[q] /\ pc[q] \notin Running
      /\ pc[r] \in Running /\ pc'[r] = to /\ to \in Running
      /\ to \notin {"init", "context"} \cup Offering
  <2>1. pc[r] \in Running /\ to \in Running /\ to \notin {"init", "context"} \cup Offering
    BY DEF InAttempt, Writing, Working, Running, Failable, Offering
  <2>2. \A q \in Runs : q # r => pc[q] \notin Running
    BY <2>1 DEF LifeInv
  <2>3. pc'[r] = to /\ \A q \in Runs : q # r => pc'[q] = pc[q] /\ att'[q] = att[q]
    BY DEF TypeOK
  <2> QED BY <2>1, <2>2, <2>3
<1>2. Stage \in {"working", "followed"} /\ att[r] = attempt
  BY DEF LifeInv, InAttempt, Writing, Working, Written, Stage
<1>3. Stage' = "working" /\ status' \notin Terminal \cup {"cancelled", "merging", "approved"}
  BY DEF Stage, Written, Terminal
<1>4. ~Merged /\ ~Merged'
  <2>1. Merged' <=> Merged
    BY DEF Merged
  <2>2. Merged => FALSE
    <3>1. Stage = "followed" => ~Merged
      BY DEF Stage
    <3>2. Stage = "working" /\ status \notin {"cancelled", "merging", "approved"} => status \notin Terminal
      BY DEF Stage, Terminal
    <3> QED BY <1>2, <3>1, <3>2 DEF LifeInv
  <2> QED BY <2>1, <2>2
<1>5. \A q \in Runs : pc'[q] \in Working \cup Offering \cup {"init", "context", "loop"} \cup InAttempt => q = r
  BY <1>1 DEF Working, Offering, InAttempt, Writing, Running, Failable
<1>6. /\ to \in InAttempt => att'[r] = attempt
      /\ att'[r] \in {attempt, attempt + 1}
  BY <1>2 DEF InAttempt, TypeOK
<1>7. LifeInv'
  <2>1. \A p, q \in Runs : pc'[p] \in Running /\ pc'[q] \in Running => p = q
    BY <1>1
  <2>2. /\ \A q \in Runs : pc'[q] \in {"init", "context"} => Stage' \in {"working", "followed"}
        /\ \A q \in Runs : pc'[q] \in Writing => status' \in Written
        /\ \A q \in Runs : pc'[q] \in Offering => status' = "proposing"
    BY <1>1, <1>3, <1>5
  <2>3. /\ \A q \in Runs : pc'[q] \in {"init", "context"} \cup InAttempt => att'[q] = attempt'
        /\ \A q \in Runs : pc'[q] = "loop" => att'[q] \in {attempt', attempt' + 1}
    BY <1>1, <1>5, <1>6
  <2>4. user' = "away" /\ status' \notin {"cancelled", "merging", "approved"}
    BY <1>3 DEF LifeInv, usr
  <2> QED BY <1>4, <2>1, <2>2, <2>3, <2>4 DEF LifeInv
<1>8. Life!GoOn \/ UNCHANGED Life!vars
  BY <1>2, <1>3, <1>4 DEF Life!GoOn, Life!vars, Merged
<1> QED BY <1>7, <1>8

LEMMA LifeStep ==
  ASSUME Alone, TypeOK, PrInv, LifeInv, NEW r \in Runs, Moves(r)
  PROVE  LifeInv' /\ [Life!Next]_(Life!vars)
<1> USE DEF LifeInv, TypeOK, Goto, Leave, SetStatus, Working, Writing, Written, Offering, InAttempt,
            Running, Failable, Ended, Terminal, Stage, Merged, Life!vars
<1>1. CASE Start(r)
  <2>1. /\ \A q \in Runs : pc[q] \in Ended /\ pc' = [pc EXCEPT ![r] = "init"]
        /\ att' = [att EXCEPT ![r] = attempt] /\ status \notin Terminal
        /\ UNCHANGED <<row, pr, usr>>
    BY <1>1 DEF Start, Alone, hub
  <2>2. \A q \in Runs : q # r => pc'[q] \in Ended
    BY <2>1
  <2>3. pc'[r] = "init" /\ att'[r] = attempt
    BY <2>1
  <2>4. Stage = "working" /\ ~Merged
    BY <2>1
  <2>5. UNCHANGED Life!vars
    BY <2>1 DEF row
  <2>6. LifeInv'
    <3>1. Stage' = "working" /\ ~Merged' /\ UNCHANGED <<attempt, status, user>>
      BY <2>1, <2>4, <2>5 DEF row, usr
    <3>2. \A q \in Runs : pc'[q] \in Running \cup Offering \cup Writing \cup {"init", "context"} => q = r
      BY <2>2
    <3> HIDE DEF Stage, Merged
    <3> QED BY <2>3, <3>1, <3>2
  <2> QED
    BY <2>5, <2>6
<1>2. CASE Queue(r) \/ Analyze(r) \/ Escape(r)
  <2>1. /\ pc[r] = "init" /\ UNCHANGED <<attempt, pr, usr>>
        /\ \/ status' \in {"queued", "analyzing"}
           \/ status' = status
    BY <1>2 DEF Queue, Analyze, Escape, row, hub
  <2>2. Stage \in {"working", "followed"} /\ ~Merged
    BY <2>1
  <2>3. /\ \A q \in Runs : q # r => pc[q] \notin Running /\ pc'[q] = pc[q]
        /\ pc'[r] \in {"queued", "left"} \/ (pc'[r] = "context" /\ status' = "analyzing" /\ att' = att)
    <3>1. \A q \in Runs : q # r => pc[q] \notin Running
      BY <2>1
    <3>2. CASE Queue(r) \/ Escape(r)
      BY <3>1, <3>2 DEF Queue, Escape
    <3>3. CASE Analyze(r)
      BY <3>1, <3>3 DEF Analyze, run
    <3> QED BY <1>2, <3>2, <3>3
  <2>4. Stage' \in {"working", Stage}
    BY <2>1, <2>2
  <2>5. LifeInv'
    <3>1. /\ Stage' \in {"working", "followed"} /\ ~Merged' /\ UNCHANGED <<attempt, user>>
          /\ status' \notin {"cancelled", "merging", "approved"}
      BY <2>1, <2>2, <2>4 DEF usr
    <3>2. \A q \in Runs : pc'[q] \in Running \cup Offering \cup Writing \cup {"context"} =>
             q = r /\ pc'[q] = "context" /\ att'[q] = att[q]
      BY <2>3
    <3>3. att[r] = attempt /\ \A q \in Runs : pc'[q] # "init"
      BY <2>1, <2>3
    <3> HIDE DEF Stage, Merged
    <3> QED BY <3>1, <3>2, <3>3
  <2>6. Life!GoOn \/ UNCHANGED Life!vars
    <3> HIDE DEF Stage
    <3> QED BY <2>1, <2>2, <2>4 DEF Life!GoOn
  <2> QED
    BY <2>5, <2>6 DEF Life!Next
<1>3. CASE FollowLeader(r)
  <2>1. LifeInv'
    BY <1>3 DEF FollowLeader, FollowersResolved, hub, usr
  <2>2. Life!Follow \/ UNCHANGED Life!vars
    BY <1>3, FollowedStage DEF FollowLeader, hub
  <2> QED
    BY <2>1, <2>2 DEF Life!Next
<1>4. CASE ReadCode(r) \/ BeginPush(r) \/ AwaitCi(r) \/ FlakeRetry(r)
  <2>1. /\ pc[r] \in {"context"} \cup InAttempt /\ \E to \in Writing : pc' = [pc EXCEPT ![r] = to]
        /\ UNCHANGED <<attempt, pr, usr, att>> /\ status' \in Written
    BY <1>4 DEF ReadCode, BeginPush, AwaitCi, FlakeRetry, run, hub
  <2> HIDE DEF LifeInv, TypeOK, Writing, Written, InAttempt, Stage, Life!vars
  <2> QED
    BY <2>1, InAttemptStep DEF Life!Next
<1>5. CASE BeginAttempt(r)
  <2>1. attempt' = att[r] /\ att[r] \in {attempt, attempt + 1} /\ att[r] =< MaxAttempts
        /\ attempt \in Nat /\ status' = "generating_fix"
        /\ UNCHANGED <<pr, att, usr>>
    BY <1>5 DEF BeginAttempt, hub
  <2>2. LifeInv'
    BY <1>5, <2>1 DEF BeginAttempt, hub, usr
  <2>3. Stage = "working" /\ Stage' = "working"
    BY <1>5, <2>1 DEF BeginAttempt
  <2>4. attempt' = attempt \/ (attempt < MaxAttempts /\ attempt' = attempt + 1)
    BY <2>1, RemediationAssumption
  <2>5. Merged' <=> Merged
    BY <2>1
  <2>6. Life!Retry \/ UNCHANGED Life!vars
    BY <2>3, <2>4, <2>5 DEF Life!Retry
  <2> QED
    BY <2>2, <2>6 DEF Life!Next
<1>6. CASE InvalidFix(r) \/ CiRetry(r) \/ StagingRetry(r)
  <2>1. /\ pc[r] \in InAttempt /\ pc' = [pc EXCEPT ![r] = "loop"]
        /\ UNCHANGED <<row, pr, usr>> /\ att' = [att EXCEPT ![r] = @ + 1]
    BY <1>6 DEF InvalidFix, CiRetry, StagingRetry, NextAttempt, hub
  <2>2. status' \in Written /\ "loop" \in Writing /\ UNCHANGED attempt
    BY <2>1 DEF row
  <2> HIDE DEF LifeInv, TypeOK, Writing, Written, InAttempt, Stage, Life!vars
  <2> QED
    BY <2>1, <2>2, InAttemptStep DEF Life!Next
<1>7. CASE \/ AgentFix(r) \/ GenerateFix(r) \/ CreateBranch(r) \/ Commit(r)
           \/ PollSuccess(r) \/ PollEmpty(r) \/ StagingAnswers(r) \/ E2E(r) \/ SkipE2E(r)
  <2>1. /\ pc[r] \in InAttempt /\ \E to \in Writing : pc' = [pc EXCEPT ![r] = to]
        /\ UNCHANGED <<row, pr, usr, att>>
    BY <1>7 DEF AgentFix, GenerateFix, CreateBranch, Commit, PollSuccess, PollEmpty, Conclude,
       StagingAnswers, E2E, SkipE2E, PushTo, run, hub
  <2>2. status' \in Written /\ UNCHANGED attempt
    BY <2>1 DEF row
  <2> HIDE DEF LifeInv, TypeOK, Writing, Written, InAttempt, Stage, Life!vars
  <2> QED
    BY <2>1, <2>2, InAttemptStep DEF Life!Next
<1>10. CASE EvaluateGates(r)
  <2>1. LifeInv'
    BY <1>10 DEF EvaluateGates, run, ci, hub, usr
  <2>2. Life!Propose
    BY <1>10 DEF EvaluateGates, Life!Propose, run, ci, hub
  <2> QED
    BY <2>1, <2>2 DEF Life!Next
<1>11. CASE CreatePR(r)
  <2>1. Branch(r) \in Branches /\ pr[Branch(r)] = "none"
    BY <1>11, BranchType DEF CreatePR, PrInv, Unopened, Branch
  <2>2. PICK v \in {"draft", "open"} : pr' = [pr EXCEPT ![Branch(r)] = v]
    BY <1>11 DEF CreatePR
  <2>3. Merged' <=> Merged
    BY <2>1, <2>2
  <2> QED
    BY <1>11, <2>3 DEF CreatePR, row, run, ci, usr
<1>12. CASE SavePR(r)
  BY <1>12 DEF SavePR, run, ci, hub, usr
<1>13. CASE AutoMerge(r)
  <2>1. Branch(r) \in Branches /\ status = "proposing"
    BY <1>13, BranchType DEF AutoMerge
  <2>2. pr'[Branch(r)] = "merged"
    BY <1>13, <2>1 DEF AutoMerge
  <2>3. ~Merged
    BY <1>13 DEF AutoMerge
  <2>4. LifeInv'
    BY <1>13, <2>1 DEF AutoMerge, row, run, ci, usr
  <2>5. Life!Ship
    BY <1>13, <2>1, <2>2, <2>3 DEF AutoMerge, Life!Ship, row
  <2> QED
    BY <2>4, <2>5 DEF Life!Next
<1>14. CASE AutoMergeThrows(r)
  BY <1>14 DEF AutoMergeThrows, row, run, ci, hub, usr
<1>15. CASE Complete(r)
  <2>1. Merged
    BY <1>15, BranchType DEF Complete, PrInv
  <2>2. LifeInv'
    BY <1>15 DEF Complete, run, ci, hub, usr
  <2>3. Life!Close
    BY <1>15, <2>1 DEF Complete, Life!Close, run, ci, hub
  <2> QED
    BY <2>2, <2>3 DEF Life!Next
<1>16. CASE CommitRefused(r) \/ CiGivesUp(r) \/ Reverted(r) \/ Fail(r)
  <2>1. /\ status' = "failed" /\ UNCHANGED <<attempt, hub, usr>> /\ pc' = [pc EXCEPT ![r] = "ended"]
        /\ att' = [att EXCEPT ![r] = 1]
    BY <1>16 DEF CommitRefused, CiGivesUp, Reverted, Fail
  <2>2. pc[r] \in Running
    BY <1>16 DEF CommitRefused, CiGivesUp, Reverted, Fail
  <2>3. LifeInv'
    BY <2>1, <2>2 DEF run, ci, hub, usr
  <2>4. Life!GiveUp \/ Life!Withdraw
    BY <2>1, <2>2 DEF Life!GiveUp, Life!Withdraw, hub
  <2> QED
    BY <2>3, <2>4 DEF Life!Next
<1>17. CASE Crash(r)
  BY <1>17 DEF Crash, row, run, ci, hub, usr
<1> QED
  BY <1>1, <1>2, <1>3, <1>4, <1>5, <1>6, <1>7, <1>10, <1>11, <1>12, <1>13, <1>14,
     <1>15, <1>16, <1>17 DEF Moves, Step

LEMMA LifeInitial == Init => Life!Init
BY DEF Init, Life!Init, Stage, Merged

\* One run at a time and nobody else, with any number of crashes and restarts:
\* Remediation implements RemediationLife.
THEOREM EngineKeepsPromise ==
  ASSUME Alone
  PROVE  Spec => KeepsPromise
<1>1. TypeOK /\ PrInv /\ LifeInv /\ [Next]_vars => LifeInv' /\ [Life!Next]_(Life!vars)
  <2> SUFFICES ASSUME TypeOK, PrInv, LifeInv, [Next]_vars
               PROVE  LifeInv' /\ [Life!Next]_(Life!vars)
    OBVIOUS
  <2>1. CASE UNCHANGED <<row, pc, run, ci, pr, usr>>
    BY <2>1 DEF LifeInv, Stage, Merged, Life!vars, row, run, usr
  <2>2. CASE ResolvedByFollower
    <3>1. LifeInv'
      BY <2>2 DEF LifeInv, ResolvedByFollower, FollowersResolved, Stage, Merged, Written, Writing, Working,
                  Offering, InAttempt, Terminal, run, hub, usr
    <3>2. Life!Follow \/ UNCHANGED Life!vars
      BY <2>2, FollowedStage DEF ResolvedByFollower, hub
    <3> QED
      BY <3>1, <3>2 DEF Life!Next
  <2>3. CASE \E r \in Runs : Moves(r)
    BY <2>3, Alone, LifeStep
  <2>4. CASE Others
    <3>1. UNCHANGED <<row, pc, run, ci, pr, usr>>
      BY <2>4, Alone, AloneOthers
    <3> QED BY <2>1, <3>1
  <2>5. CASE UNCHANGED vars
    <3>1. UNCHANGED <<row, pc, run, ci, pr, usr>>
      BY <2>5 DEF vars, hub, run
    <3> QED BY <2>1, <3>1
  <2>6. Next => (\E r \in Runs : Moves(r)) \/ ResolvedByFollower \/ Others
    BY DEF Next, Moves
  <2> QED
    BY <2>2, <2>3, <2>4, <2>5, <2>6
<1> QED
  BY <1>1, LifeInit, LifeInitial, PrInit, PrStep, TypeCorrect, PTL
     DEF Spec, KeepsPromise, Life!Spec

-----------------------------------------------------------------------------
(* How much a run can do *)

Spent(r) == commits[<<r, "own">>] + commits[<<r, "agent">>]

Before    == {"init", "context", "reading", "loop"}      \* an attempt begins after these
Creating  == {"gates", "creating", "saving", "savingAuto", "merging", "merged"}
Delivered == {"pushed", "polling", "staging"} \cup Creating
Extra     == IF HasE2E THEN 1 ELSE 0
Limit     == MaxAttempts + MaxFlakes + Extra

\* The retries of this attempt; those of the one before until it begins.
Tries(r) == IF pc[r] \in Before THEN 0 ELSE flakes[r]

\* What a run may have pushed by now: a commit for each attempt before this
\* one, the flake retries, which the first attempt alone has, the commit of
\* this try if it is through, and the workflow.
Budget(r) ==
  att[r] - 1 + (IF att[r] = 1 THEN Tries(r) ELSE MaxFlakes)
  + (IF pc[r] \in Delivered \/ (agent[r] /\ pc[r] = "reviewing") THEN 1 ELSE 0)
  + (IF pc[r] \in Creating THEN Extra ELSE 0)

WithinBudget(r) ==
  /\ Spent(r) <= Limit
  /\ pc[r] = "idle" => Spent(r) = 0
  /\ pc[r] \in Running => Spent(r) <= Budget(r)
  /\ pc[r] \in Running \ Before /\ green[r] => att[r] = 1

Frugal == \A r \in Runs : WithinBudget(r)

LEMMA BudgetInit == ASSUME Init, NEW r \in Runs PROVE WithinBudget(r)
<1>1. pc[r] = "idle" /\ commits = [b \in Branches |-> 0]
  BY DEF Init
<1>2. Spent(r) = 0
  BY <1>1 DEF Spent, Branches
<1>3. Limit \in Nat
  BY RemediationAssumption DEF Limit, Extra
<1> QED
  BY <1>1, <1>2, <1>3 DEF WithinBudget, Running, Failable

LEMMA PushSpends ==
  ASSUME TypeOK, NEW r \in Runs, NEW b \in {<<r, "own">>, <<r, "agent">>}, PushTo(b)
  PROVE  Spent(r)' = Spent(r) + 1
<1>1. commits \in [Branches -> Nat] /\ {<<r, "own">>, <<r, "agent">>} \subseteq Branches
  BY DEF TypeOK, Branches
<1>2. commits' = [commits EXCEPT ![b] = commits[b] + 1]
  BY DEF PushTo
<1>3. <<r, "own">> # <<r, "agent">>
  OBVIOUS
<1> QED
  BY <1>1, <1>2, <1>3 DEF Spent

\* The steps of one run.
LEMMA BudgetStep ==
  ASSUME TypeOK, TypeOK', NEW r \in Runs, WithinBudget(r),
         Moves(r)
  PROVE  WithinBudget(r)'
<1> DEFINE Fields == /\ att[r] \in 1..MaxAttempts /\ flakes[r] \in 0..MaxFlakes
                     /\ MaxAttempts \in Nat /\ MaxFlakes \in Nat
<1>a. Fields /\ Fields' /\ Spent(r) \in Nat /\ Spent(r)' \in Nat
  <2>1. Fields /\ Fields'
    BY RemediationAssumption DEF TypeOK
  <2>2. Spent(r) \in Nat /\ Spent(r)' \in Nat
    BY DEF TypeOK, Spent, Branches
  <2> QED
    BY <2>1, <2>2
<1>i. Budget(r) \in Int /\ Budget(r)' \in Int
  <2>1. Tries(r) \in Int /\ Tries(r)' \in Int /\ Extra \in Int
    BY <1>a DEF Tries, Extra
  <2> HIDE DEF Tries, Extra
  <2> QED
    BY <1>a, <2>1 DEF Budget
\* It is enough to look at the budget.
<1>b. ASSUME pc'[r] \in Running, Spent(r)' <= Budget(r)',
             pc'[r] \notin Before /\ green'[r] => att'[r] = 1
      PROVE  WithinBudget(r)'
  <2>1. Spent(r)' <= Limit
    <3>1. Tries(r)' \in 0..MaxFlakes
      BY <1>a DEF Tries
    <3> QED
      BY <1>a, <1>b, <3>1 DEF Budget, Limit, Extra
  <2> QED
    BY <1>b, <2>1 DEF WithinBudget, Running, Failable
<1>c. ASSUME pc'[r] \in Ended \ {"idle"}, commits' = commits PROVE WithinBudget(r)'
  BY <1>c DEF WithinBudget, Spent, Running, Failable, Ended, Limit
<1>1. CASE Start(r)
  <2>1. /\ pc[r] = "idle" /\ pc'[r] = "init" /\ commits' = commits
    BY <1>1 DEF Start, Goto, TypeOK, hub
  <2>2. Spent(r)' = 0
    BY <2>1 DEF WithinBudget, Spent
  <2> QED
    BY <1>a, <1>b, <1>i, <2>1, <2>2 DEF Budget, Tries, Before, Delivered, Creating, Running, Failable
<1>2. CASE \/ Queue(r) \/ Escape(r) \/ FollowLeader(r) \/ CommitRefused(r) \/ CiGivesUp(r)
           \/ AutoMergeThrows(r) \/ Complete(r) \/ Reverted(r) \/ Fail(r) \/ Crash(r)
  <2>1. pc'[r] \in Ended \ {"idle"} /\ commits' = commits
    BY <1>2 DEF Queue, Escape, FollowLeader, CommitRefused, CiGivesUp, AutoMergeThrows, Complete,
       Reverted, Fail, Crash, Leave, Goto, TypeOK, Ended, hub
  <2> QED
    BY <1>c, <2>1
<1>3. CASE \/ Analyze(r) \/ ReadCode(r) \/ CreateBranch(r) \/ AwaitCi(r) \/ PollSuccess(r)
           \/ PollEmpty(r) \/ StagingAnswers(r) \/ SkipE2E(r) \/ EvaluateGates(r)
           \/ CreatePR(r) \/ AutoMerge(r)
  <2>1. /\ commits' = commits /\ UNCHANGED <<att, flakes, agent, green>>
    BY <1>3 DEF Analyze, ReadCode, CreateBranch, AwaitCi, PollSuccess, PollEmpty,
       StagingAnswers, SkipE2E, EvaluateGates, CreatePR, AutoMerge, Conclude, hub, run
  <2>2. <<pc[r], pc'[r]>> \in {<<"init", "context">>, <<"context", "loop">>,
          <<"pushing", "committing">>, <<"pushed", "polling">>, <<"polling", "staging">>,
          <<"staging", "gates">>, <<"gates", "creating">>, <<"creating", "saving">>,
          <<"creating", "savingAuto">>, <<"merging", "merged">>}
    <3>1. CASE Analyze(r) \/ ReadCode(r) \/ CreateBranch(r) \/ AwaitCi(r)
      BY <3>1 DEF Analyze, ReadCode, CreateBranch, AwaitCi, Goto, TypeOK
    <3>2. CASE PollSuccess(r) \/ PollEmpty(r) \/ StagingAnswers(r) \/ SkipE2E(r)
      BY <3>2 DEF PollSuccess, PollEmpty, StagingAnswers, SkipE2E, Goto, TypeOK
    <3>3. CASE EvaluateGates(r) \/ CreatePR(r) \/ AutoMerge(r)
      BY <3>3 DEF EvaluateGates, CreatePR, AutoMerge, Goto, TypeOK
    <3> QED BY <1>3, <3>1, <3>2, <3>3
  <2>3. Spent(r)' = Spent(r)
    BY <2>1 DEF Spent
  <2>4. pc[r] \in Running /\ pc'[r] \in Running /\ (pc'[r] \notin Before => pc[r] \notin Before)
    BY <2>2 DEF Running, Failable, Before
  <2>5. /\ pc[r] \in Before <=> pc'[r] \in Before
        /\ pc[r] \in Delivered <=> pc'[r] \in Delivered
        /\ pc[r] # "reviewing" /\ pc'[r] # "reviewing"
        /\ pc[r] \in Creating => pc'[r] \in Creating
    BY <2>2 DEF Before, Delivered, Creating
  <2>6. Budget(r) <= Budget(r)'
    <3>1. Tries(r)' = Tries(r) /\ Tries(r) \in Int /\ Extra \in Nat
      BY <1>a, <2>1, <2>5 DEF Tries, Extra
    <3> HIDE DEF Tries, Extra, Before, Delivered, Creating
    <3> QED
      BY <1>a, <2>1, <2>5, <3>1 DEF Budget
  <2> HIDE DEF Spent, Budget, Fields
  <2> QED
    BY <1>a, <1>b, <1>i, <2>1, <2>3, <2>4, <2>6 DEF WithinBudget
<1>4. CASE BeginAttempt(r)
  <2>1. /\ pc[r] = "loop" /\ pc'[r] = "generating" /\ flakes'[r] = 0 /\ ~green'[r]
        /\ att' = att /\ commits' = commits
    BY <1>4 DEF BeginAttempt, Fresh, Goto, TypeOK, hub
  <2>2. Spent(r)' = Spent(r) /\ Spent(r) <= Budget(r)
    BY <2>1 DEF Spent, WithinBudget, Running, Failable
  <2>3. Budget(r)' = Budget(r)
    BY <1>a, <2>1 DEF Budget, Tries, Before, Delivered, Creating
  <2> QED
    BY <1>b, <2>1, <2>2, <2>3 DEF Running, Failable
<1>5. CASE InvalidFix(r) \/ CiRetry(r) \/ StagingRetry(r)
  <2>1. /\ pc[r] \in {"generating", "polling", "staging"} /\ pc'[r] = "loop"
        /\ att'[r] = att[r] + 1 /\ commits' = commits
    BY <1>5 DEF InvalidFix, CiRetry, StagingRetry, NextAttempt, Goto, TypeOK, hub
  <2>2. Spent(r)' = Spent(r) /\ Spent(r) <= Budget(r)
    BY <2>1 DEF Spent, WithinBudget, Running, Failable
  <2>3. Budget(r) <= Budget(r)'
    <3>1. Tries(r) \in Int /\ Tries(r) <= MaxFlakes
      BY <1>a, <2>1 DEF Tries, Before
    <3>2. Budget(r) <= att[r] - 1 + MaxFlakes + 1
      <4> HIDE DEF Tries
      <4> QED
        BY <1>a, <2>1, <3>1 DEF Budget, Delivered, Creating
    <3>3. Budget(r)' = att'[r] - 1 + MaxFlakes
      BY <1>a, <2>1 DEF Budget, Delivered, Creating
    <3> HIDE DEF Budget
    <3> QED
      BY <1>a, <1>i, <2>1, <3>2, <3>3
  <2> HIDE DEF Spent, Budget, Fields
  <2> QED
    BY <1>a, <1>b, <1>i, <2>1, <2>2, <2>3 DEF Running, Failable, Before
<1>6. CASE AgentFix(r)
  <2>1. /\ pc[r] = "generating" /\ pc'[r] = "reviewing" /\ agent'[r] /\ att[r] = 1
        /\ UNCHANGED <<att, flakes>>
    BY <1>6 DEF AgentFix, Goto, TypeOK
  <2>2. Spent(r)' = Spent(r) + 1 /\ Spent(r) <= Budget(r)
    BY <1>6, <2>1, PushSpends DEF AgentFix, WithinBudget, Running, Failable
  <2>3. Budget(r)' = Budget(r) + 1
    BY <1>a, <2>1 DEF Budget, Tries, Before, Delivered, Creating
  <2> HIDE DEF Spent, Budget, Fields
  <2> QED
    BY <1>a, <1>b, <1>i, <2>1, <2>2, <2>3 DEF Running, Failable
<1>7. CASE GenerateFix(r)
  <2>1. /\ pc[r] = "generating" /\ pc'[r] = "reviewing"
        /\ UNCHANGED <<att, flakes, agent, commits>>
    BY <1>7 DEF GenerateFix, Goto, TypeOK, hub
  <2>2. green'[r] => att[r] = 1
    <3>1. PICK g \in {FALSE, Prepush /\ att[r] = 1} : green' = [green EXCEPT ![r] = g]
      BY <1>7 DEF GenerateFix
    <3>2. green \in [Runs -> BOOLEAN]
      BY DEF TypeOK
    <3>3. green'[r] = g
      BY <3>1, <3>2, Zenon
    <3>4. g => att[r] = 1
      BY <3>1, Zenon
    <3> QED
      BY <3>3, <3>4, Zenon
  <2>3. Spent(r)' = Spent(r) /\ Spent(r) <= Budget(r)
    BY <2>1 DEF Spent, WithinBudget, Running, Failable
  <2>4. Budget(r) <= Budget(r)'
    BY <1>a, <2>1 DEF Budget, Tries, Before, Delivered, Creating, Extra
  <2> HIDE DEF Spent, Budget, Fields
  <2> QED
    BY <1>a, <1>b, <1>i, <2>1, <2>2, <2>3, <2>4 DEF Running, Failable
<1>8. CASE BeginPush(r)
  <2>1. /\ pc[r] = "reviewing" /\ UNCHANGED <<att, flakes, agent, green, commits>>
        /\ \/ pc'[r] = "pushed" /\ agent[r]
           \/ pc'[r] \in {"pushing", "committing"} /\ ~agent[r]
    BY <1>8 DEF BeginPush, Goto, TypeOK, hub, run
  <2>2. Spent(r)' = Spent(r) /\ Spent(r) <= Budget(r) /\ (green[r] => att[r] = 1)
    BY <2>1 DEF Spent, WithinBudget, Running, Failable, Before
  <2>3. Budget(r)' = Budget(r)
    BY <1>a, <2>1 DEF Budget, Tries, Before, Delivered, Creating
  <2> HIDE DEF Spent, Budget, Fields
  <2> QED
    BY <1>b, <2>1, <2>2, <2>3 DEF Running, Failable
<1>9. CASE Commit(r)
  <2>1. /\ pc[r] = "committing" /\ pc'[r] = "pushed" /\ UNCHANGED <<att, flakes, agent, green>>
    BY <1>9 DEF Commit, Goto, TypeOK, run
  <2>2. Spent(r)' = Spent(r) + 1
    BY <1>9, PushSpends DEF Commit, Branch
  <2>3. Spent(r) <= Budget(r) /\ (green[r] => att[r] = 1)
    BY <2>1 DEF WithinBudget, Running, Failable, Before
  <2>4. Budget(r)' = Budget(r) + 1
    BY <1>a, <2>1 DEF Budget, Tries, Before, Delivered, Creating
  <2> HIDE DEF Spent, Budget, Fields
  <2> QED
    BY <1>a, <1>b, <1>i, <2>1, <2>2, <2>3, <2>4 DEF Running, Failable
<1>10. CASE FlakeRetry(r)
  <2>1. /\ pc[r] = "polling" /\ pc'[r] = "committing" /\ green[r] /\ flakes'[r] = flakes[r] + 1
        /\ UNCHANGED <<att, agent, green, commits>>
    BY <1>10 DEF FlakeRetry, Goto, TypeOK, hub
  <2>2. Spent(r)' = Spent(r) /\ Spent(r) <= Budget(r) /\ att[r] = 1
    BY <2>1 DEF Spent, WithinBudget, Running, Failable, Before
  <2>3. Budget(r)' = Budget(r)
    BY <1>a, <2>1, <2>2 DEF Budget, Tries, Before, Delivered, Creating
  <2> HIDE DEF Spent, Budget, Fields
  <2> QED
    BY <1>b, <2>1, <2>2, <2>3 DEF Running, Failable
<1>11. CASE E2E(r)
  <2>1. /\ pc[r] = "staging" /\ pc'[r] = "gates" /\ HasE2E
        /\ UNCHANGED <<att, flakes, agent, green>>
    BY <1>11 DEF E2E, Goto, TypeOK
  <2>2. Spent(r)' = Spent(r) + 1
    BY <1>11, PushSpends DEF E2E
  <2>3. Spent(r) <= Budget(r) /\ (green[r] => att[r] = 1)
    BY <2>1 DEF WithinBudget, Running, Failable, Before
  <2>4. Budget(r)' = Budget(r) + 1
    BY <1>a, <2>1 DEF Budget, Tries, Before, Delivered, Creating, Extra
  <2> HIDE DEF Spent, Budget, Fields
  <2> QED
    BY <1>a, <1>b, <1>i, <2>1, <2>2, <2>3, <2>4 DEF Running, Failable
<1>12. CASE SavePR(r)
  <2>1. /\ commits' = commits
        /\ \/ pc'[r] = "ended"
           \/ /\ pc[r] = "savingAuto" /\ pc'[r] = "merging"
              /\ UNCHANGED <<att, flakes, agent, green>>
    BY <1>12 DEF SavePR, Leave, Goto, TypeOK, hub, run
  <2>2. CASE pc'[r] = "ended"
    BY <1>c, <2>1, <2>2 DEF Ended
  <2>3. CASE /\ pc[r] = "savingAuto" /\ pc'[r] = "merging"
             /\ UNCHANGED <<att, flakes, agent, green>>
    <3>1. Spent(r)' = Spent(r) /\ Spent(r) <= Budget(r) /\ (green[r] => att[r] = 1)
      BY <2>1, <2>3 DEF Spent, WithinBudget, Running, Failable, Before
    <3>2. Budget(r)' = Budget(r)
      BY <1>a, <2>1, <2>3 DEF Budget, Tries, Before, Delivered, Creating
    <3> HIDE DEF Spent, Budget, Fields
    <3> QED
      BY <1>b, <2>1, <2>3, <3>1, <3>2 DEF Running
  <2> QED
    BY <2>1, <2>2, <2>3
<1> QED
  BY <1>1, <1>2, <1>3, <1>4, <1>5, <1>6, <1>7, <1>8, <1>9, <1>10, <1>11, <1>12 DEF Moves, Step

\* CI, the user and other sessions commit nothing.
LEMMA BudgetStays ==
  ASSUME Others \/ ResolvedByFollower \/ UNCHANGED vars
  PROVE  UNCHANGED <<pc, att, flakes, agent, green, commits>>
BY DEF Others, CheckMoves, MarkReady, ApproveReads, ApproveMarks, ApproveMerges, ApproveEnds,
   ApproveInChat, Feedback, Cancel, ResolvedByFollower, vars, run, hub

\* Retries nest and do not multiply: however often CI, the staging server and
\* the AI answer what makes the run try again, the commits of all tries stay
\* within one for each attempt, one for each flake retry and the workflow.
THEOREM PushesAreBounded == Spec => []PushesBounded
<1>1. Init => Frugal
  BY BudgetInit, Zenon DEF Frugal
<1>2. TypeOK /\ TypeOK' /\ Frugal /\ [Next]_vars => Frugal'
  <2> SUFFICES ASSUME TypeOK, TypeOK', Frugal, [Next]_vars, NEW q \in Runs
               PROVE  WithinBudget(q)'
    BY DEF Frugal
  <2>1. WithinBudget(q)
    BY DEF Frugal
  <2>2. CASE \E r \in Runs : Moves(r)
    <3>1. PICK r \in Runs : Moves(r)
      BY <2>2
    <3>2. CASE r = q
      BY <2>1, <3>1, <3>2, BudgetStep
    <3>3. CASE r # q
      BY <2>1, <3>1, <3>3, OtherRun DEF WithinBudget, Spent, Budget, Tries, Limit, Extra
    <3> QED
      BY <3>2, <3>3
  <2>3. CASE Others \/ ResolvedByFollower \/ UNCHANGED vars
    BY <2>1, <2>3, BudgetStays DEF WithinBudget, Spent, Budget, Tries, Limit, Extra
  <2> QED
    BY <2>2, <2>3 DEF Next, Moves
<1>3. Frugal => PushesBounded
  <2>1. ASSUME NEW r \in Runs, WithinBudget(r)
        PROVE  commits[<<r, "own">>] + commits[<<r, "agent">>]
                 <= MaxAttempts + MaxFlakes + (IF HasE2E THEN 1 ELSE 0)
    BY <2>1 DEF WithinBudget, Spent, Limit, Extra
  <2> QED
    BY <2>1, Zenon DEF Frugal, PushesBounded
<1> QED
  BY <1>1, <1>2, <1>3, TypeCorrect, PTL DEF Spec

\* How far this try is, in the order of runRemediation.
Place(p) ==
  CASE p = "init" -> 1 [] p = "context" -> 2 [] p = "reading" -> 3 [] p = "loop" -> 4
    [] p = "generating" -> 5 [] p = "reviewing" -> 6 [] p = "pushing" -> 7
    [] p = "committing" -> 8 [] p = "pushed" -> 9 [] p = "polling" -> 10
    [] p = "staging" -> 11 [] p = "gates" -> 12 [] p = "creating" -> 13
    [] p = "saving" -> 14 [] p = "savingAuto" -> 15 [] p = "merging" -> 16
    [] p = "merged" -> 17 [] OTHER -> 0

\* The end, the next attempt, the next retry of this one, or further on in this
\* try.
GoesOn(r) ==
  \/ pc'[r] \in Ended
  \/ att'[r] > att[r]
  \/ att'[r] = att[r] /\ Tries(r)' > Tries(r)
  \/ att'[r] = att[r] /\ Tries(r)' = Tries(r) /\ Place(pc'[r]) > Place(pc[r])

LEMMA StepGoesOn ==
  ASSUME TypeOK, TypeOK', NEW r \in Runs, pc[r] \in Running,
         Moves(r)
  PROVE  GoesOn(r)
<1>a. /\ att[r] \in Nat /\ att'[r] \in Nat /\ flakes[r] \in Nat /\ flakes'[r] \in Nat
  BY RemediationAssumption DEF TypeOK
<1>1. CASE Start(r)
  BY <1>1 DEF Start, Goto, Running, Failable
<1>2. CASE \/ Queue(r) \/ Escape(r) \/ FollowLeader(r) \/ CommitRefused(r) \/ CiGivesUp(r)
           \/ AutoMergeThrows(r) \/ Complete(r) \/ Reverted(r) \/ Fail(r) \/ Crash(r)
  <2>1. pc'[r] \in Ended
    BY <1>2 DEF Queue, Escape, FollowLeader, CommitRefused, CiGivesUp, AutoMergeThrows, Complete,
       Reverted, Fail, Crash, Leave, Goto, TypeOK, Ended
  <2> QED
    BY <2>1 DEF GoesOn
<1>3. CASE \/ Analyze(r) \/ ReadCode(r) \/ CreateBranch(r) \/ AwaitCi(r) \/ PollSuccess(r)
           \/ PollEmpty(r) \/ StagingAnswers(r) \/ SkipE2E(r) \/ EvaluateGates(r)
           \/ CreatePR(r) \/ AutoMerge(r) \/ AgentFix(r) \/ GenerateFix(r) \/ BeginPush(r)
           \/ Commit(r) \/ E2E(r)
  <2>1. UNCHANGED <<att, flakes>>
    BY <1>3 DEF Analyze, ReadCode, CreateBranch, AwaitCi, PollSuccess, PollEmpty, StagingAnswers,
       SkipE2E, EvaluateGates, CreatePR, AutoMerge, AgentFix, GenerateFix, BeginPush, Commit, E2E,
       Conclude, run
  <2>2. <<pc[r], pc'[r]>> \in {<<"init", "context">>, <<"context", "loop">>,
          <<"generating", "reviewing">>, <<"reviewing", "pushed">>, <<"reviewing", "pushing">>,
          <<"reviewing", "committing">>, <<"pushing", "committing">>, <<"committing", "pushed">>,
          <<"pushed", "polling">>, <<"polling", "staging">>, <<"staging", "gates">>,
          <<"gates", "creating">>, <<"creating", "saving">>, <<"creating", "savingAuto">>,
          <<"merging", "merged">>}
    <3>1. CASE \/ Analyze(r) \/ ReadCode(r) \/ CreateBranch(r) \/ AwaitCi(r) \/ PollSuccess(r)
               \/ PollEmpty(r) \/ StagingAnswers(r) \/ SkipE2E(r) \/ E2E(r)
      BY <3>1 DEF Analyze, ReadCode, CreateBranch, AwaitCi, PollSuccess, PollEmpty, StagingAnswers,
         SkipE2E, E2E, Goto, TypeOK
    <3>2. CASE \/ EvaluateGates(r) \/ CreatePR(r) \/ AutoMerge(r) \/ AgentFix(r) \/ GenerateFix(r)
               \/ BeginPush(r) \/ Commit(r)
      BY <3>2 DEF EvaluateGates, CreatePR, AutoMerge, AgentFix, GenerateFix, BeginPush, Commit,
         Goto, TypeOK
    <3> QED BY <1>3, <3>1, <3>2
  <2>3. Tries(r)' = Tries(r)
    BY <2>1, <2>2 DEF Tries, Before
  <2>4. Place(pc'[r]) > Place(pc[r])
    BY <2>2 DEF Place
  <2> HIDE DEF Tries, Place
  <2> QED
    BY <2>1, <2>3, <2>4 DEF GoesOn
<1>4. CASE BeginAttempt(r)
  <2>1. pc[r] = "loop" /\ pc'[r] = "generating" /\ flakes'[r] = 0 /\ att' = att
    BY <1>4 DEF BeginAttempt, Fresh, Goto, TypeOK
  <2> QED
    BY <2>1 DEF GoesOn, Tries, Before, Place
<1>5. CASE InvalidFix(r) \/ CiRetry(r) \/ StagingRetry(r)
  <2>1. att'[r] = att[r] + 1
    BY <1>5 DEF InvalidFix, CiRetry, StagingRetry, NextAttempt, TypeOK
  <2> QED
    BY <1>a, <2>1 DEF GoesOn
<1>6. CASE FlakeRetry(r)
  <2>1. pc[r] = "polling" /\ pc'[r] = "committing" /\ flakes'[r] = flakes[r] + 1 /\ att' = att
    BY <1>6 DEF FlakeRetry, Goto, TypeOK
  <2> QED
    BY <1>a, <2>1 DEF GoesOn, Tries, Before
<1>7. CASE SavePR(r)
  <2>1. \/ pc'[r] = "ended"
        \/ /\ pc[r] = "savingAuto" /\ pc'[r] = "merging" /\ UNCHANGED <<att, flakes>>
    BY <1>7 DEF SavePR, Leave, Goto, TypeOK, run
  <2> QED
    BY <1>a, <2>1 DEF GoesOn, Tries, Before, Place, Ended
<1> QED
  BY <1>1, <1>2, <1>3, <1>4, <1>5, <1>6, <1>7 DEF Moves, Step

\* What bounds RunEnds: whatever a run that is alive does takes it to its next
\* attempt, to the next retry, or on within this try, and nobody else moves it.
\* Attempts and retries being limited (TypeOK), no loop of the engine is for ever.
THEOREM RunsOnlyGoOn ==
  Spec => [][\A r \in Runs : pc[r] \in Running =>
               GoesOn(r) \/ UNCHANGED <<pc[r], att[r], flakes[r]>>]_vars
<1>1. ASSUME TypeOK, TypeOK', Next, NEW q \in Runs, pc[q] \in Running
      PROVE  GoesOn(q) \/ UNCHANGED <<pc[q], att[q], flakes[q]>>
  <2>1. CASE \E r \in Runs : Moves(r)
    <3>1. PICK r \in Runs : Moves(r)
      BY <2>1
    <3>2. CASE r = q
      BY <1>1, <3>1, <3>2, StepGoesOn
    <3>3. CASE r # q
      BY <1>1, <3>1, <3>3, OtherRun
    <3> QED
      BY <3>2, <3>3
  <2>2. CASE Others \/ ResolvedByFollower
    BY <2>2, BudgetStays
  <2> QED
    BY <1>1, <2>1, <2>2 DEF Next, Moves
<1>2. TypeOK /\ TypeOK' /\ [Next]_vars =>
        [\A r \in Runs : pc[r] \in Running =>
           GoesOn(r) \/ UNCHANGED <<pc[r], att[r], flakes[r]>>]_vars
  BY <1>1, Zenon
<1> QED
  BY <1>2, TypeCorrect, PTL DEF Spec
=============================================================================
