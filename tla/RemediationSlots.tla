-------------------------- MODULE RemediationSlots --------------------------
(***************************************************************************)
(* The concurrency limit on remediations (canStartRemediation in           *)
(* web/lib/ai/concurrency.ts) among everything that creates, opens, ends   *)
(* and repairs sessions.  There is no queue and no lock: the limit is two  *)
(* counts over the rows, made one after the other by each run that starts, *)
(* and every start, cancellation and script moves the rows meanwhile.      *)
(*                                                                         *)
(* A page that is open on a session is a run of it; there can be several.  *)
(* The route that looks for an active session of the alert before it       *)
(* creates one is contained in Create, since other routes do not look.     *)
(***************************************************************************)
EXTENDS Naturals, FiniteSets

CONSTANTS
  Sessions, Runs, Projects,
  SessionOf,      \* the session of a run
  ProjectOf,      \* the project of a session
  PerProject,     \* MAX_CONCURRENT_PER_PROJECT
  Global          \* MAX_CONCURRENT_GLOBAL

ASSUME SlotsAssumption ==
  /\ IsFiniteSet(Sessions)
  /\ SessionOf \in [Runs -> Sessions] /\ ProjectOf \in [Sessions -> Projects]
  /\ PerProject \in Nat \ {0} /\ Global \in Nat \ {0}

VARIABLES
  status,         \* the session's row; "active" is any of activeStatuses,
                  \* "merging" also the approval in a chat
  pc,             \* where a run is
  listed,         \* the queued sessions that the restart script has read
  loose           \* history: sessions that run beside the protocol

vars == <<status, pc, listed, loose>>

Live     == {"asked", "counted", "refused", "admitted", "running"}
Admitted == {"counted", "admitted", "running"}    \* past the project's count

TypeOK ==
  /\ status \in [Sessions -> {"none", "active", "queued", "proposing", "merging", "over"}]
  /\ pc     \in [Runs -> {"idle"} \cup Live]
  /\ listed \subseteq Sessions /\ loose \subseteq Sessions
  /\ \A r \in Runs : pc[r] \in Live => status[SessionOf[r]] # "none"

Init ==
  /\ status = [s \in Sessions |-> "none"]
  /\ pc     = [r \in Runs |-> "idle"]
  /\ listed = {} /\ loose = {}

-----------------------------------------------------------------------------
RunsOf(s) == {r \in Runs : SessionOf[r] = s}
Alive(s)  == \E r \in RunsOf(s) : pc[r] \in Live

Active(p) == {s \in Sessions : status[s] = "active" /\ ProjectOf[s] = p}
AllActive == {s \in Sessions : status[s] = "active"}

Goto(r, from, to) == pc[r] = from /\ pc' = [pc EXCEPT ![r] = to]
SetStatus(s, v)   == status' = [status EXCEPT ![s] = v]

\* Whoever writes the row of a session from outside leaves its live runs
\* without the row they were counted by.
Disturb(s) == loose' = IF Alive(s) THEN loose \cup {s} ELSE loose

\* The row is inserted as analyzing: it is active before anybody counts.
Create(s) ==
  /\ status[s] = "none"
  /\ SetStatus(s, "active")
  /\ UNCHANGED <<pc, listed, loose>>

\* The stream of a page: only the row that it read decides.  A row that is
\* not active, or a second run, is not what the protocol counts.
Open(r) ==
  LET s == SessionOf[r] IN
    /\ Goto(r, "idle", "asked")
    /\ status[s] \in {"active", "queued", "merging"}
    /\ loose' = IF status[s] = "active" /\ ~Alive(s) THEN loose ELSE loose \cup {s}
    /\ UNCHANGED <<status, listed>>

\* A defect: the limit itself is let through.
CountProjectLoosely(r) ==
  LET p == ProjectOf[SessionOf[r]] IN
    /\ Cardinality(Active(p)) <= PerProject
    /\ Goto(r, "asked", "counted")
    /\ UNCHANGED <<status, listed, loose>>

\* canStartRemediation, the count of the project
CountProject(r) ==
  LET p == ProjectOf[SessionOf[r]] IN
    /\ Cardinality(Active(p)) < PerProject
    /\ Goto(r, "asked", "counted")
    /\ UNCHANGED <<status, listed, loose>>

\* canStartRemediation, the count of all
CountAll(r) ==
  /\ Cardinality(AllActive) < Global
  /\ Goto(r, "counted", "admitted")
  /\ UNCHANGED <<status, listed, loose>>

\* One of the counts says no,
Refuse(r) ==
  /\ \/ /\ Cardinality(Active(ProjectOf[SessionOf[r]])) >= PerProject
        /\ Goto(r, "asked", "refused")
     \/ Cardinality(AllActive) >= Global /\ Goto(r, "counted", "refused")
  /\ UNCHANGED <<status, listed, loose>>

\* and the row becomes queued under the eyes of every other run of the session.
Queue(r) ==
  /\ Goto(r, "refused", "idle")
  /\ SetStatus(SessionOf[r], "queued")
  /\ UNCHANGED <<listed, loose>>

\* updateSession with the next phase
Phase(r) ==
  /\ \E from \in {"admitted", "running"} : Goto(r, from, "running")
  /\ SetStatus(SessionOf[r], "active")
  /\ UNCHANGED <<listed, loose>>

\* The engine proposes a pull request, follows the leader of its incident or
\* fails; the rest of its work is not counted.
Finish(r) ==
  /\ \E from \in {"admitted", "running"} : Goto(r, from, "idle")
  /\ \E v \in {"proposing", "over"} : SetStatus(SessionOf[r], v)
  /\ UNCHANGED <<listed, loose>>

\* The process ends: the row stays as it is.
Crash(r) ==
  /\ pc[r] \in Live
  /\ pc' = [pc EXCEPT ![r] = "idle"]
  /\ UNCHANGED <<status, listed, loose>>

\* Closed from outside, whatever the row says: cancelRemediation, the answer
\* given through MCP, the leader of the incident for its followers, and
\* scripts/cleanup-stuck-remediations.ts for rows that nobody has written for
\* half an hour.  A run of the session goes on.
Close(s) ==
  /\ status[s] # "none"
  /\ SetStatus(s, "over") /\ Disturb(s)
  /\ UNCHANGED <<pc, listed>>

\* approveRemediation and its end, or the button in a chat: the row is neither
\* active nor final, so a page opened on it starts a run.
Approve(s) ==
  /\ \/ status[s] = "proposing" /\ SetStatus(s, "merging")
     \/ status[s] = "merging" /\ SetStatus(s, "over")
  /\ Disturb(s)
  /\ UNCHANGED <<pc, listed>>

\* scripts/restart-queued.ts: the rows that are queued
ReadQueued ==
  /\ listed = {}
  /\ listed' = {s \in Sessions : status[s] = "queued"}
  /\ UNCHANGED <<status, pc, loose>>

\* and, whatever has become of them, back to analyzing before they are run.
Requeue(s) ==
  /\ s \in listed /\ listed' = listed \ {s}
  /\ SetStatus(s, "active") /\ Disturb(s)
  /\ UNCHANGED pc

Next ==
  \/ \E s \in Sessions : Create(s) \/ Close(s) \/ Approve(s) \/ Requeue(s)
  \/ ReadQueued
  \/ \E r \in Runs : \/ Open(r) \/ CountProject(r) \/ CountAll(r) \/ Refuse(r) \/ Queue(r)
                     \/ Phase(r) \/ Finish(r) \/ Crash(r)

Spec == Init /\ [][Next]_vars

-----------------------------------------------------------------------------
\* The sessions that hold a slot by the protocol: one run, started on an
\* active row that nobody else wrote.
Holding(stages) ==
  {s \in Sessions \ loose : \E r \in RunsOf(s) : pc[r] \in stages}

\* The two counts are not atomic with anything, and the code calls the limit
\* soft for that.  Yet it is a hard one, whatever the interleaving, for
\* sessions that only their own run moves: the row is active before it is
\* counted.  And it is one less than the constant, since a session counts
\* itself.
WithinLimits ==
  /\ \A p \in Projects :
       Cardinality({s \in Holding(Admitted) : ProjectOf[s] = p}) < PerProject
  /\ Cardinality(Holding({"admitted", "running"})) < Global
=============================================================================
