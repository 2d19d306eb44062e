----------------------------- MODULE AutoMerge -----------------------------
(***************************************************************************)
(* What lets a fix be merged with nobody looking: the trust a project has  *)
(* earned (web/lib/ai/trust-level.ts), the settings of its administrators  *)
(* (projects.autoMergeConfig), the gates of remediate.ts, and the monitor  *)
(* that watches a merge and says whether it held.                          *)
(*                                                                         *)
(* One project.  Each session runs once (a second run of a row, branches,  *)
(* CI and attempts are in Remediation); what the runs share here is the    *)
(* table of sessions, which the level is computed from, and the settings,  *)
(* which a run reads at its start and uses at its end, and which jobs      *)
(* nobody waits for read and write back whole.                             *)
(***************************************************************************)
EXTENDS Naturals, Sequences, FiniteSets

CONSTANTS
  Session,      \* rows of remediationSessions of the project
  Legacy,       \* those of them from before the ladder was built in
  Touched,      \* bound: the rows that users cancel or give feedback on
  Writers,      \* read-modify-writes of the settings under way at a time
  Ladder,       \* the levels above Rookie, lowest first: what each asks for
  MaxAge,       \* bound: age of the first session, in the ladder's unit
  None

Rungs == 1 .. Len(Ladder)

ASSUME AutoMergeAssumption ==
  /\ IsFiniteSet(Session) /\ Legacy \subseteq Session /\ Touched \subseteq Session
  /\ MaxAge \in Nat
  /\ None \notin {"off", "on", "unwatched"}
  /\ Ladder \in Seq([fixes : Nat \ {0}, rate : 1 .. 100, age : Nat])
  /\ \A l, m \in Rungs : l < m => /\ Ladder[l].fixes <= Ladder[m].fixes
                                  /\ Ladder[l].rate <= Ladder[m].rate

VARIABLES
  status,       \* remediationSessions.status
  watch,        \* remediationSessions.monitoringStatus, "none" for NULL
  pr,           \* the session's pull request, and who merged it
  pc,           \* where the session's run is
  mine,         \* the settings that the run read at its start
  age,          \* days since the first session was created
  config,       \* the settings: off, on, or on without the monitor
  copy,         \* the settings as a writer read them
  approval,     \* an approval on the alert's page: of what, and how far
  vouched       \* history: what submit_feedback has said worked

table == <<status, watch, pr>>
runs  == <<pc, mine>>
knobs == <<config, copy>>
vars  == <<status, watch, pr, pc, mine, age, config, copy, approval, vouched>>

Configs == {"off", "on", "unwatched"}
Running == {"starting", "working", "trusted", "untrusted", "drafting", "opening",
            "merging", "merged", "watching"}

TypeOK ==
  /\ status \in [Session -> {"none", "active", "proposing", "merging",
                             "completed", "failed", "cancelled"}]
  /\ watch \in [Session -> {"none", "watching", "passed", "reverted"}]
  /\ pr \in [Session -> {"none", "open", "merged", "automerged"}]
  /\ pc \in [Session -> {"idle", "over"} \cup Running]
  /\ mine \in [Session -> Configs]
  /\ age \in 0 .. MaxAge
  /\ config \in Configs /\ copy \in [Writers -> Configs \cup {None}]
  /\ approval \in {None} \cup [of : Session, at : {"read", "marked", "merged"}]
  /\ vouched \subseteq Session
  /\ \A s \in Session : /\ status[s] = "none" => pc[s] = "idle" /\ pr[s] = "none"
                        /\ watch[s] # "none" => pr[s] = "automerged"

\* A project may have sessions that were merged and watched before the ladder
\* stood in front of the gates: without them nothing ever starts (NothingFromNothing).
Init ==
  \E old \in {{}, Legacy} :
    /\ status = [s \in Session |-> IF s \in old THEN "completed" ELSE "none"]
    /\ watch = [s \in Session |-> IF s \in old THEN "passed" ELSE "none"]
    /\ pr = [s \in Session |-> IF s \in old THEN "automerged" ELSE "none"]
    /\ pc = [s \in Session |-> IF s \in old THEN "over" ELSE "idle"]
    /\ mine = [s \in Session |-> "off"]
    /\ age = 0
    /\ config = "off" /\ copy = [w \in Writers |-> None]
    /\ approval = None
    /\ vouched = {}

-----------------------------------------------------------------------------
\* A defect: what is still under way is not counted.
RowsEnded == {s \in Session : status[s] \in {"completed", "failed"}}

\* The track record: every row counts as a fix, whatever became of it.
Rows == {s \in Session : status[s] # "none"}

Total == Cardinality(Rows)

\* A defect: what was never watched counts as having held.
SucceededUnwatched == {s \in Session : status[s] = "completed" /\ watch[s] # "reverted"}

\* status = 'completed' and monitoring_status != 'reverted': of what was
\* never watched the comparison is NULL, and the row is not counted.
Succeeded == {s \in Session : status[s] = "completed" /\ watch[s] \in {"watching", "passed"}}

Meets(l, total, good) ==
  /\ total >= Ladder[l].fixes
  /\ 100 * good >= Ladder[l].rate * total

Reaches(l, total, good) == Meets(l, total, good) /\ age >= Ladder[l].age

\* computeTrustLevel looks at the highest level first; Rookie is 0.
LevelFor(total, good) ==
  CHOOSE l \in {0} \cup Rungs :
    /\ l = 0 \/ Reaches(l, total, good)
    /\ \A m \in Rungs : m > l => ~Reaches(m, total, good)

Level == LevelFor(Total, Cardinality(Succeeded))

\* More than Rookie: applyTrustLevel leaves auto-merge as it is set.
Trusted == \E l \in Rungs : Reaches(l, Total, Cardinality(Succeeded))

\* Rounding up a percentage.
Percent(r, n) == (r * n + 99) \div 100

AtLeastZero(n, m) == IF n > m THEN n - m ELSE 0

\* A defect: the rate is taken of the sessions there are, not of those there will be.
FixesFrom(l, total, good) ==
  LET fixes == AtLeastZero(Ladder[l].fixes, total) IN
  fixes + AtLeastZero(Percent(Ladder[l].rate, total), good)

\* fixesToNextLevel, for the level l after the present one.
FixesTo(l, total, good) ==
  LET fixes == AtLeastZero(Ladder[l].fixes, total)
      rate  == AtLeastZero(Percent(Ladder[l].rate, total + fixes), good)
  IN  IF fixes > rate THEN fixes ELSE rate

-----------------------------------------------------------------------------
Goto(s, from, to) == pc[s] = from /\ pc' = [pc EXCEPT ![s] = to] /\ UNCHANGED mine

\* What the run had read goes with it.
Leave(s, from) ==
  /\ pc[s] = from /\ pc' = [pc EXCEPT ![s] = "over"]
  /\ mine' = [mine EXCEPT ![s] = "off"]

SetStatus(s, v) == status' = [status EXCEPT ![s] = v]
SetWatch(s, v)  == watch' = [watch EXCEPT ![s] = v]

Create(s) ==
  /\ s \notin Legacy
  /\ Goto(s, "idle", "starting")
  /\ SetStatus(s, "active")
  /\ UNCHANGED <<watch, pr, age, knobs, approval, vouched>>

\* proj, read before anything is analysed: it is what the gates are given.
ReadSettings(s) ==
  /\ pc[s] = "starting" /\ pc' = [pc EXCEPT ![s] = "working"]
  /\ mine' = [mine EXCEPT ![s] = config]
  /\ UNCHANGED <<table, age, knobs, approval, vouched>>

\* Attempts, pushes and CI: the row is written again and again, over a
\* cancellation too.
Work(s) ==
  /\ pc[s] = "working"
  /\ SetStatus(s, "active")
  /\ UNCHANGED <<watch, pr, runs, age, knobs, approval, vouched>>

\* The leader of its incident has fixed it.
Follow(s) ==
  /\ status[s] = "active"
  /\ Leave(s, "working")
  /\ SetStatus(s, "completed")
  /\ UNCHANGED <<watch, pr, age, knobs, approval, vouched>>

ReadTrust(s) ==
  /\ Goto(s, "working", IF Trusted THEN "trusted" ELSE "untrusted")
  /\ UNCHANGED <<table, age, knobs, approval, vouched>>

\* All the gates together: config.enabled, which needs trust and the setting,
\* and the others, which may say what they like.
EvaluateGates(s) ==
  /\ \/ Goto(s, "trusted", "opening") /\ mine[s] # "off"
     \/ \E from \in {"trusted", "untrusted"} : Goto(s, from, "drafting")
  /\ SetStatus(s, "proposing")
  /\ UNCHANGED <<watch, pr, age, knobs, approval, vouched>>

OpenPR(s) ==
  /\ Leave(s, "drafting") \/ Goto(s, "opening", "merging")
  /\ pr' = [pr EXCEPT ![s] = "open"]
  /\ UNCHANGED <<status, watch, age, knobs, approval, vouched>>

Merge(s) ==
  /\ Goto(s, "merging", "merged")
  /\ pr[s] = "open"
  /\ pr' = [pr EXCEPT ![s] = "automerged"]
  /\ UNCHANGED <<status, watch, age, knobs, approval, vouched>>

\* A defect: the watch begins while the merge is still to come.
StartWatchEarly(s) ==
  /\ mine[s] = "on"
  /\ \E from \in {"merging", "merged"} : Goto(s, from, "watching")
  /\ SetWatch(s, "watching")
  /\ UNCHANGED <<status, pr, age, knobs, approval, vouched>>

StartWatch(s) ==
  /\ mine[s] = "on"
  /\ Goto(s, "merged", "watching")
  /\ SetWatch(s, "watching")
  /\ UNCHANGED <<status, pr, age, knobs, approval, vouched>>

\* Without the monitor the session is done: monitoringStatus stays NULL.
Complete(s) ==
  /\ mine[s] # "on"
  /\ Leave(s, "merged")
  /\ SetStatus(s, "completed")
  /\ UNCHANGED <<watch, pr, age, knobs, approval, vouched>>

Pass(s) ==
  /\ Leave(s, "watching")
  /\ SetStatus(s, "completed") /\ SetWatch(s, "passed")
  /\ UNCHANGED <<pr, age, knobs, approval, vouched>>

Revert(s) ==
  /\ Leave(s, "watching")
  /\ SetStatus(s, "failed") /\ SetWatch(s, "reverted")
  /\ UNCHANGED <<pr, age, knobs, approval, vouched>>

\* Before there is a pull request, whatever throws ends in fail(); the PR may
\* have been opened when its number could not be saved.
Fail(s) ==
  /\ \E from \in {"starting", "working", "trusted", "untrusted", "drafting", "opening"} :
        /\ Leave(s, from)
        /\ from \in {"drafting", "opening"} \/ UNCHANGED pr
  /\ pr' \in {pr, [pr EXCEPT ![s] = "open"]}
  /\ SetStatus(s, "failed")
  /\ UNCHANGED <<watch, age, knobs, approval, vouched>>

\* The process ends, or after the pull request something throws (the merge
\* is refused, the monitor cannot reach the database): nothing is written.
Stop(s) ==
  /\ \E from \in Running : Leave(s, from)
  /\ UNCHANGED <<table, age, knobs, approval, vouched>>

-----------------------------------------------------------------------------
\* Jobs that are waited for by nobody read the settings ...
Reads == \E w \in Writers : copy[w] = None /\ copy' = [copy EXCEPT ![w] = config]

\* checkAndTuneConfidence, when the numbers call for it.
Tune == UNCHANGED copy \/ (config # "off" /\ Reads)

\* checkAndSuggestAutonomous too.
Suggest == UNCHANGED copy \/ Reads

\* ... and written back as they were then, but for one field.
WriteBack(w) ==
  /\ copy[w] # None
  /\ config' = copy[w]
  /\ copy' = [copy EXCEPT ![w] = None]
  /\ UNCHANGED <<table, runs, age, approval, vouched>>

\* updateConfigField: one field of an administrator, the same way.
Patch ==
  /\ Reads
  /\ UNCHANGED <<table, runs, age, config, approval, vouched>>

\* updateAutoMergeConfig: an administrator's form, all of it.
Save(c) ==
  /\ config' = c
  /\ UNCHANGED <<table, runs, age, copy, approval, vouched>>

-----------------------------------------------------------------------------
ApproveReads(s) ==
  /\ approval = None
  /\ status[s] = "proposing" /\ pr[s] # "none"
  /\ approval' = [of |-> s, at |-> "read"]
  /\ UNCHANGED <<table, runs, age, knobs, vouched>>

ApproveMarks ==
  /\ approval # None /\ approval.at = "read"
  /\ approval' = [approval EXCEPT !.at = "marked"]
  /\ SetStatus(approval.of, "merging")
  /\ UNCHANGED <<watch, pr, runs, age, knobs, vouched>>

ApproveMerges ==
  /\ approval # None /\ approval.at = "marked"
  /\ pr[approval.of] = "open"
  /\ pr' = [pr EXCEPT ![approval.of] = "merged"]
  /\ approval' = [approval EXCEPT !.at = "merged"]
  /\ UNCHANGED <<status, watch, runs, age, knobs, vouched>>

\* A defect: that it is merged already is taken for success.
ApproveEndsAnyhow ==
  /\ approval # None /\ approval.at \in {"marked", "merged"}
  /\ \/ /\ approval.at = "merged" \/ pr[approval.of] = "automerged"
        /\ SetStatus(approval.of, "completed") /\ Suggest
     \/ SetStatus(approval.of, "failed") /\ UNCHANGED copy
  /\ approval' = None
  /\ UNCHANGED <<watch, pr, runs, age, config, vouched>>

\* A merge that is refused, or anything that throws after it, is a failure.
ApproveEnds ==
  /\ approval # None /\ approval.at \in {"marked", "merged"}
  /\ \/ approval.at = "merged" /\ SetStatus(approval.of, "completed") /\ Suggest
     \/ SetStatus(approval.of, "failed") /\ UNCHANGED copy
  /\ approval' = None
  /\ UNCHANGED <<watch, pr, runs, age, config, vouched>>

\* cancelRemediation looks at nothing, and tells the run nothing.
Cancel(s) ==
  /\ s \in Touched /\ status[s] # "none"
  /\ SetStatus(s, "cancelled")
  /\ Tune
  /\ UNCHANGED <<watch, pr, runs, age, config, approval, vouched>>

\* submit_feedback: the row is what the user says, watched or not.
Feedback(s, worked) ==
  /\ s \in Touched /\ status[s] # "none"
  /\ SetStatus(s, IF worked THEN "completed" ELSE "failed")
  /\ vouched' = IF worked THEN vouched \cup {s} ELSE vouched
  /\ UNCHANGED <<watch, pr, runs, age, knobs, approval>>

Day ==
  /\ Rows # {} /\ age < MaxAge
  /\ age' = age + 1
  /\ UNCHANGED <<table, runs, knobs, approval, vouched>>

-----------------------------------------------------------------------------
Run(s) ==
  \/ Create(s) \/ ReadSettings(s) \/ Work(s) \/ Follow(s) \/ ReadTrust(s)
  \/ EvaluateGates(s) \/ OpenPR(s) \/ Merge(s) \/ StartWatch(s) \/ Complete(s)
  \/ Pass(s) \/ Revert(s) \/ Fail(s) \/ Stop(s)

Next ==
  \/ \E s \in Session : Run(s) \/ ApproveReads(s) \/ Cancel(s)
  \/ \E s \in Session, worked \in BOOLEAN : Feedback(s, worked)
  \/ ApproveMarks \/ ApproveMerges \/ ApproveEnds
  \/ \E w \in Writers : WriteBack(w)
  \/ \E c \in Configs : Save(c)
  \/ Patch \/ Day

Spec == Init /\ [][Next]_vars

-----------------------------------------------------------------------------
Unseen == {s \in Session : pr[s] = "automerged"}
Backed == {s \in Session : watch[s] = "passed"} \cup vouched

\* Of the fixes merged with nobody looking, together with those that are known
\* to have held, at least the share that the lowest level asks for is known to
\* have held: runs that finish at the same time cannot all spend the same
\* record, because each of them counts in the total as a fix that has not
\* succeeded (web/docs/trust-levels.md: "fixes that merged and passed
\* post-merge monitoring without revert").
TrustIsBacked ==
  Rungs # {} => Ladder[1].rate * Cardinality(Unseen \cup Backed) <= 100 * Cardinality(Backed)

\* docs/trust-levels.md says that projects earn higher levels by succeeding; a
\* new one cannot.  Where nothing was proven before the ladder and no user has
\* vouched for a watched fix, nothing is ever merged automatically: an approved fix is not
\* watched, what is not watched does not count, and only what is merged
\* automatically is watched.
NothingFromNothing ==
  (\A s \in Legacy : status[s] = "none") /\ vouched = {} => Unseen = {}

\* The level rises with a verdict of the monitor, a user's word, one more run
\* or a day (or when the watch begins of what a user has vouched for before);
\* no failure, cancellation, approval or unwatched merge raises it.
LevelIsEarned ==
  [][Level' > Level =>
       \/ Day
       \/ \E s \in Session : Create(s) \/ Pass(s) \/ Feedback(s, TRUE)
       \/ \E s \in vouched : StartWatch(s)]_<<table, age>>

\* The number shown as missing is needed: with fewer further successes no
\* higher level is reached, however old the project gets.
FixesAreNeeded ==
  LET total == Total
      good  == Cardinality(Succeeded)
      next  == Level + 1
  IN  next \in Rungs =>
        \A more \in 0 .. FixesTo(next, total, good) - 1, l \in next .. Len(Ladder) :
            ~Meets(l, total + more, good + more)

=============================================================================
