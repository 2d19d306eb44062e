----------------------------- MODULE FileLocks -----------------------------
(***************************************************************************)
(* File locks between remediation runs (web/lib/ai/concurrency.ts), as     *)
(* runRemediation takes them before it reads the files it will change and  *)
(* fail() gives them back.  A lock is a database row whose primary key is  *)
(* (repo, path); the repository is fixed here, so a row is named by its    *)
(* file.  Every query is one action: between two queries any other run, or *)
(* the clock, may move.                                                    *)
(*                                                                         *)
(* Times are kept as what is left of them, so that the clock needs no      *)
(* bound: a row's left counts down to 0 and then to -1, expired.           *)
(***************************************************************************)
EXTENDS Integers

CONSTANTS
  Runs,        \* calls of runRemediation
  Sessions,    \* rows of remediation_sessions
  SessionOf,   \* the session a run works for; two runs may share one
  Files,
  TTL,         \* LOCK_TTL_MS, in ticks
  Wait,        \* LOCK_WAIT_MS, in ticks
  Poll,        \* LOCK_POLL_MS, in ticks
  Flaky,       \* runs whose queries may fail
  NoSession, NoFile

ASSUME LocksAssumption ==
  /\ SessionOf \in [Runs -> Sessions]
  /\ NoSession \notin Sessions
  /\ NoFile \notin Files
  /\ TTL \in Nat \ {0} /\ Wait \in Nat \ {0} /\ Poll \in Nat \ {0}
  /\ Flaky \subseteq Runs

VARIABLES
  owner, left,   \* the rows: whose they are and what is left of expiresAt
  pc,            \* where each run is
  wants,         \* diagnosis.filesToRead
  cur,           \* the file the loop is at
  missed,        \* conflicted
  budget,        \* what is left of the deadline for this file
  nap,           \* what is left of the sleep between two polls
  exp,           \* what is left of the expiresAt the run computed once
  lease,         \* what is left of each lock the run acquired; NoLease if none
  releasing,     \* runs whose releaseFileLocks is on its way
  exposed        \* files whose lock a race may have voided (history)

rows   == <<owner, left>>
timers == <<left, budget, nap, exp, lease>>
local  == <<wants, cur, missed>>
vars   == <<owner, pc, local, timers, releasing, exposed>>

NoLease == -2
Locking == {"sweep", "stamp", "next", "try", "select", "force", "asleep"}
Ended   == {"done", "failed", "crashed"}

TypeOK ==
  /\ owner     \in [Files -> Sessions \cup {NoSession}]
  /\ left      \in [Files -> -1..TTL]
  /\ pc        \in [Runs -> {"idle", "editing"} \cup Locking \cup Ended]
  /\ wants     \in [Runs -> SUBSET Files]
  /\ cur       \in [Runs -> Files \cup {NoFile}]
  /\ missed    \in [Runs -> SUBSET Files]
  /\ budget    \in [Runs -> 0..Wait]
  /\ nap       \in [Runs -> 0..Poll]
  /\ exp       \in [Runs -> -1..TTL]
  /\ lease     \in [Runs -> [Files -> NoLease..TTL]]
  /\ releasing \in SUBSET Runs
  /\ exposed   \in SUBSET Files
  /\ \A r \in Runs : pc[r] \in {"try", "select", "force", "asleep"} => cur[r] \in Files

Init ==
  /\ owner     = [f \in Files |-> NoSession]
  /\ left      = [f \in Files |-> -1]
  /\ pc        = [r \in Runs |-> "idle"]
  /\ wants     = [r \in Runs |-> {}]
  /\ cur       = [r \in Runs |-> NoFile]
  /\ missed    = [r \in Runs |-> {}]
  /\ budget    = [r \in Runs |-> 0]
  /\ nap       = [r \in Runs |-> 0]
  /\ exp       = [r \in Runs |-> -1]
  /\ lease     = [r \in Runs |-> [f \in Files |-> NoLease]]
  /\ releasing = {}
  /\ exposed   = {}

-----------------------------------------------------------------------------
Goto(r, from, to) == pc[r] = from /\ pc' = [pc EXCEPT ![r] = to]

Free(f)     == owner[f] = NoSession
Expired(f)  == ~Free(f) /\ left[f] < 0
Acquired(r) == {f \in Files : lease[r][f] # NoLease}
Alive(r)    == pc[r] \notin {"idle"} \cup Ended
Holds(r, f) == Alive(r) /\ lease[r][f] >= 0

\* The AI diagnosed the alert and named the files.
Begin(r) ==
  /\ Goto(r, "idle", "sweep")
  /\ \E w \in SUBSET Files : wants' = [wants EXCEPT ![r] = w]
  /\ UNCHANGED <<owner, cur, missed, timers, releasing, exposed>>

\* A defect: a lock that has just reached its last tick is swept too.
SweepEarly(r) ==
  /\ Goto(r, "sweep", "stamp")
  /\ owner' = [f \in Files |-> IF left[f] <= 0 THEN NoSession ELSE owner[f]]
  /\ UNCHANGED <<local, timers, releasing, exposed>>

\* DELETE ... WHERE expires_at < now.
Sweep(r) ==
  /\ Goto(r, "sweep", "stamp")
  /\ owner' = [f \in Files |-> IF Expired(f) THEN NoSession ELSE owner[f]]
  /\ UNCHANGED <<local, timers, releasing, exposed>>

\* expiresAt is computed once, for all the files.
Stamp(r) ==
  /\ Goto(r, "stamp", "next")
  /\ exp' = [exp EXCEPT ![r] = TTL]
  /\ UNCHANGED <<owner, left, local, budget, nap, lease, releasing, exposed>>

PickFile(r) ==
  /\ Goto(r, "next", "try")
  /\ \E f \in wants[r] \ (Acquired(r) \cup missed[r]) : cur' = [cur EXCEPT ![r] = f]
  /\ budget' = [budget EXCEPT ![r] = Wait]
  /\ UNCHANGED <<owner, left, wants, missed, nap, exp, lease, releasing, exposed>>

\* An INSERT between another run's SELECT of an expired row and its DELETE.
InForceWindow(f) == \E q \in Runs : pc[q] = "force" /\ cur[q] = f

InsertRow(r, f) ==
  /\ owner' = [owner EXCEPT ![f] = SessionOf[r]]
  /\ left'  = [left EXCEPT ![f] = exp[r]]
  /\ exposed' = IF InForceWindow(f) THEN exposed \cup {f} ELSE exposed

\* A defect: the insert became an upsert.
Upsert(r) ==
  LET f == cur[r] IN
  /\ Goto(r, "try", "next")
  /\ budget[r] > 0
  /\ InsertRow(r, f)
  /\ lease' = [lease EXCEPT ![r][f] = exp[r]]
  /\ UNCHANGED <<local, budget, nap, exp, releasing>>

\* A defect: ON CONFLICT DO NOTHING, and nobody asks what the INSERT did.
InsertOrNothing(r) ==
  LET f == cur[r] IN
  /\ Goto(r, "try", "next")
  /\ budget[r] > 0
  /\ IF Free(f) THEN InsertRow(r, f) ELSE UNCHANGED <<rows, exposed>>
  /\ lease' = [lease EXCEPT ![r][f] = exp[r]]
  /\ UNCHANGED <<local, budget, nap, exp, releasing>>

Insert(r) ==
  LET f == cur[r] IN
  /\ Goto(r, "try", "next")
  /\ budget[r] > 0
  /\ Free(f)
  /\ InsertRow(r, f)
  /\ lease' = [lease EXCEPT ![r][f] = exp[r]]
  /\ UNCHANGED <<local, budget, nap, exp, releasing>>

\* The key exists, or the query failed; it may have failed after the
\* database had done it.
InsertThrows(r) ==
  LET f == cur[r] IN
  /\ Goto(r, "try", "select")
  /\ budget[r] > 0
  /\ ~Free(f) \/ r \in Flaky
  /\ \/ UNCHANGED <<rows, exposed>>
     \/ Free(f) /\ InsertRow(r, f)
  /\ UNCHANGED <<local, budget, nap, exp, lease, releasing>>

GiveUp(r) ==
  /\ Goto(r, "try", "next")
  /\ budget[r] = 0
  /\ missed' = [missed EXCEPT ![r] = @ \cup {cur[r]}]
  /\ UNCHANGED <<owner, wants, cur, timers, releasing, exposed>>

\* The row is gone: try again.
SeesFree(r) ==
  /\ Goto(r, "select", "try")
  /\ Free(cur[r])
  /\ UNCHANGED <<owner, local, timers, releasing, exposed>>

\* The row is this session's, from an earlier run or a lost answer: it is
\* taken as it stands, its expiry is not moved.
SeesOwn(r) ==
  LET f == cur[r] IN
  /\ Goto(r, "select", "next")
  /\ owner[f] = SessionOf[r]
  /\ lease' = [lease EXCEPT ![r][f] = left[f]]
  /\ UNCHANGED <<owner, left, local, budget, nap, exp, releasing, exposed>>

SeesExpired(r) ==
  /\ Goto(r, "select", "force")
  /\ owner[cur[r]] # SessionOf[r]
  /\ Expired(cur[r])
  /\ UNCHANGED <<owner, local, timers, releasing, exposed>>

SeesHeld(r) ==
  LET f == cur[r] IN
  /\ Goto(r, "select", "asleep")
  /\ ~Free(f) /\ ~Expired(f) /\ owner[f] # SessionOf[r]
  /\ nap' = [nap EXCEPT ![r] = Poll]
  /\ UNCHANGED <<owner, left, local, budget, exp, lease, releasing, exposed>>

\* A defect: only a row of the own session is deleted.
ForceReleaseOwn(r) ==
  /\ Goto(r, "force", "try")
  /\ owner' = IF owner[cur[r]] = SessionOf[r]
                THEN [owner EXCEPT ![cur[r]] = NoSession] ELSE owner
  /\ budget' = [budget EXCEPT ![r] = Wait]
  /\ UNCHANGED <<left, local, nap, exp, lease, releasing, exposed>>

\* DELETE by key, whoever owns the row by now; the deadline starts again.
ForceRelease(r) ==
  /\ Goto(r, "force", "try")
  /\ owner'  = [owner EXCEPT ![cur[r]] = NoSession]
  /\ budget' = [budget EXCEPT ![r] = Wait]
  /\ UNCHANGED <<left, local, nap, exp, lease, releasing, exposed>>

Wake(r) ==
  /\ Goto(r, "asleep", "try")
  /\ nap[r] = 0
  /\ UNCHANGED <<owner, local, timers, releasing, exposed>>

\* No lock at all and a conflict: fail().  Otherwise the run goes on with
\* what it acquired.
Settle(r) ==
  /\ wants[r] \subseteq Acquired(r) \cup missed[r]
  /\ IF missed[r] # {} /\ Acquired(r) = {}
       THEN Goto(r, "next", "failed") /\ releasing' = releasing \cup {r}
       ELSE Goto(r, "next", "editing") /\ UNCHANGED releasing
  /\ wants' = [wants EXCEPT ![r] = @ \cap Acquired(r)]
  /\ UNCHANGED <<owner, cur, missed, timers, exposed>>

\* A query throws: the run goes on, with every file it wanted and no lock.
Throws(r) ==
  /\ r \in Flaky
  /\ \E from \in {"sweep", "select", "force"} : Goto(r, from, "editing")
  /\ UNCHANGED <<owner, local, timers, releasing, exposed>>

\* Success, and CI that fails for the last time, keep the locks.
Finish(r) ==
  /\ Goto(r, "editing", "done")
  /\ UNCHANGED <<owner, local, timers, releasing, exposed>>

Fail(r) ==
  /\ Goto(r, "editing", "failed")
  /\ releasing' = releasing \cup {r}
  /\ UNCHANGED <<owner, local, timers, exposed>>

\* fail() does not wait for the DELETE, which names the session and not the
\* run: it may come late, and take the locks of another run of the session.
Release(r) ==
  LET mine == {f \in Files : owner[f] = SessionOf[r]} IN
  /\ r \in releasing
  /\ releasing' = releasing \ {r}
  /\ owner' = [f \in Files |-> IF f \in mine THEN NoSession ELSE owner[f]]
  /\ exposed' = exposed \cup {f \in mine : \E q \in Runs :
                                 SessionOf[q] = SessionOf[r] /\ Holds(q, f)}
  /\ UNCHANGED <<pc, local, timers>>

\* Its failure is ignored.
ReleaseLost(r) ==
  /\ r \in releasing /\ r \in Flaky
  /\ releasing' = releasing \ {r}
  /\ UNCHANGED <<owner, pc, local, timers, exposed>>

Crash(r) ==
  /\ Alive(r)
  /\ pc' = [pc EXCEPT ![r] = "crashed"]
  /\ UNCHANGED <<owner, local, timers, releasing, exposed>>

Down(n, floor) == IF n > floor THEN n - 1 ELSE n

Tick ==
  /\ left'   = [f \in Files |-> Down(left[f], -1)]
  /\ exp'    = [r \in Runs |-> Down(exp[r], -1)]
  /\ budget' = [r \in Runs |-> Down(budget[r], 0)]
  /\ nap'    = [r \in Runs |-> Down(nap[r], 0)]
  /\ lease'  = [r \in Runs |-> [f \in Files |-> Down(lease[r][f], -1)]]
  /\ UNCHANGED <<owner, pc, local, releasing, exposed>>

-----------------------------------------------------------------------------
Acquiring(r) ==
  \/ Sweep(r) \/ Stamp(r) \/ PickFile(r) \/ Insert(r) \/ InsertThrows(r)
  \/ GiveUp(r) \/ SeesFree(r) \/ SeesOwn(r) \/ SeesExpired(r) \/ SeesHeld(r)
  \/ ForceRelease(r) \/ Wake(r) \/ Settle(r) \/ Throws(r)

Next ==
  \/ \E r \in Runs : \/ Begin(r) \/ Acquiring(r) \/ Finish(r) \/ Fail(r)
                     \/ Release(r) \/ ReleaseLost(r) \/ Crash(r)
  \/ Tick

Spec == Init /\ [][Next]_vars

\* Queries answer and the clock runs; nothing ends a run that is editing.
Fairness == WF_vars(Tick) /\ \A r \in Runs : WF_vars(Acquiring(r))
FairSpec == Spec /\ Fairness

-----------------------------------------------------------------------------
\* Two sessions never hold a lock on one file that neither has let expire,
\* unless an INSERT fell into another run's force-release window or a late
\* release took the locks of a second run of the session.
Exclusive ==
  \A f \in Files \ exposed : \A r, q \in Runs :
    Holds(r, f) /\ Holds(q, f) => SessionOf[r] = SessionOf[q]

\* A row that has not expired goes only by its own session's release, or in
\* the two races above: neither the sweep of a third run nor a force-release
\* takes it.
ValidLockStays ==
  [][\A f \in Files : owner[f] # NoSession /\ left[f] >= 0 /\ owner'[f] # owner[f] =>
       f \in exposed' \/ \E r \in releasing : SessionOf[r] = owner[f]]_vars

\* The locks are an implementation of leases: a row that has expired is no
\* lease, and a session believes in one while a run of it holds the lock.
Lease == INSTANCE LeaseLocks WITH
  holder    <- [f \in Files |-> IF left[f] >= 0 THEN owner[f] ELSE NoSession],
  term      <- [f \in Files |-> IF owner[f] # NoSession THEN left[f] ELSE -1],
  believers <- [f \in Files |-> {SessionOf[r] : r \in {q \in Runs : Holds(q, f)}}],
  void      <- exposed
LeaseSpec == Lease!Spec

\* The locking phase ends, whatever the other runs do: waiting is bounded
\* although the deadline starts again with every force-release.
LockingEnds == \A r \in Runs : (pc[r] = "sweep") ~> (pc[r] \notin Locking)
=============================================================================
