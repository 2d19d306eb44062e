----------------------------- MODULE Incidents -----------------------------
(***************************************************************************)
(* Incident correlation (web/lib/ai/incident-correlation.ts): a session    *)
(* that starts while others of its project are active waits for one of     *)
(* them, and is completed with it.  There is no election and no lock: each *)
(* run picks whom to follow, reads the incident and writes it back on its  *)
(* own, so runs may follow one another in a circle, open two incidents,    *)
(* or join one whose leader has nothing to do with theirs.                 *)
(*                                                                         *)
(* One project, one run of a session at a time.  The engine asks with no   *)
(* files (remediate.ts:637), so sessions are related by time alone: the    *)
(* module has no overlap of files, and the window of 30 minutes, within    *)
(* which the 5 minutes lie, decides nothing.  Pools, locks and attempts    *)
(* are in the other modules: a run that need not wait is "working".        *)
(***************************************************************************)
EXTENDS Naturals, FiniteSets

CONSTANTS
  Session,
  Proposed,     \* sessions that have proposed a fix before the model starts
  Touched,      \* bound: the rows that users cancel, approve or give feedback on
  Unlucky,      \* bound: sessions whose queries throw, whose process ends, and
                \* whose pages are opened again
  Incident,     \* bound: the incidents of the project
  Near,         \* the 5 minutes in which sessions count as related, in ticks
  Patience,     \* the 5 minutes a follower waits, in ticks
  None

ASSUME IncidentsAssumption ==
  /\ Proposed \cup Touched \cup Unlucky \subseteq Session
  /\ Near \in Nat /\ Patience \in Nat
  /\ None \notin Session \cup Incident

VARIABLES
  status,       \* remediationSessions.status; "working": past the analysis;
                \* "failed": cancelled, too, which nothing here tells apart
  age,          \* ticks since the row was created, up to Near
  phase,        \* remediationIncidents.status; "none" if there is no such row
  lead,         \* leadSessionId
  ids,          \* sessionIds
  pc,           \* where the session's run is; "followed": it returned with its leader's fix
  leader,       \* whom the run follows
  inc,          \* the incident of the run
  read,         \* sessionIds, as the run read them
  left,         \* ticks until its waitDeadline
  fixed,        \* history: a session was completed by its own run or by a user
  erased        \* history: sessions dropped from an incident by another's write

rows      == <<status, age>>
incidents == <<phase, lead, ids>>
locals    == <<leader, inc, read, left>>
vars      == <<rows, incidents, pc, locals, fixed, erased>>

Ended     == {"completed", "failed"}
Early     == {"analyzing", "queued"}
Status    == {"none", "working", "proposing"} \cup Early \cup Ended
Resolving == {"resolving", "marking", "closing"}
Idle      == {"new", "over", "followed"}

TypeOK ==
  /\ status \in [Session -> Status] /\ age \in [Session -> 0 .. Near]
  /\ phase \in [Incident -> {"none", "open", "resolved_by_leader"}]
  /\ lead \in [Incident -> Session \cup {None}] /\ ids \in [Incident -> SUBSET Session]
  /\ pc \in [Session -> {"started", "detecting", "looked", "found", "waiting", "working"}
                         \cup Resolving \cup Idle]
  /\ leader \in [Session -> Session \cup {None}]
  /\ inc \in [Session -> Incident \cup {None}]
  /\ read \in [Session -> SUBSET Session] /\ left \in [Session -> 0 .. Patience]
  /\ fixed \in BOOLEAN /\ erased \subseteq Session

Init ==
  /\ status = [s \in Session |-> IF s \in Proposed THEN "proposing" ELSE "none"]
  /\ age = [s \in Session |-> 0]
  /\ phase = [i \in Incident |-> "none"]
  /\ lead = [i \in Incident |-> None] /\ ids = [i \in Incident |-> {}]
  /\ pc = [s \in Session |-> "new"]
  /\ leader = [s \in Session |-> None] /\ inc = [s \in Session |-> None]
  /\ read = [s \in Session |-> {}] /\ left = [s \in Session |-> 0]
  /\ fixed = FALSE /\ erased = {}

-----------------------------------------------------------------------------
Goto(s, from, to) == pc[s] = from /\ pc' = [pc EXCEPT ![s] = to]
SetStatus(s, v)   == status' = [status EXCEPT ![s] = v] /\ UNCHANGED age

\* The run goes on or ends: what it knew of an incident goes with it.
Forget(s) ==
  /\ leader' = [leader EXCEPT ![s] = None] /\ inc' = [inc EXCEPT ![s] = None]
  /\ read' = [read EXCEPT ![s] = {}] /\ left' = [left EXCEPT ![s] = 0]

Create(s) ==
  /\ status[s] = "none"
  /\ SetStatus(s, "analyzing")
  /\ UNCHANGED <<incidents, pc, locals, fixed, erased>>

\* The run starts, or has no slot and is started again some time.
Start(s) ==
  /\ pc[s] = "new" /\ status[s] \notin Ended \cup {"none", "proposing"}
  /\ \/ SetStatus(s, "queued") /\ UNCHANGED pc
     \/ UNCHANGED rows /\ pc' = [pc EXCEPT ![s] = "started"]
  /\ UNCHANGED <<incidents, locals, fixed, erased>>

\* Over whatever the row has become meanwhile.
Analyze(s) ==
  /\ Goto(s, "started", "detecting")
  /\ SetStatus(s, "analyzing")
  /\ UNCHANGED <<incidents, locals, fixed, erased>>

-----------------------------------------------------------------------------
(* detectIncident *)

\* timeCorrelated
Related(s) ==
  {q \in Session \ {s} : status[q] \notin Ended \cup {"none"} /\ age[q] < Near}

\* timeCorrelated[0] of a query without an order is any of them.
Look(s) ==
  /\ pc[s] = "detecting"
  /\ IF Cardinality(Related(s)) >= 2
       THEN /\ pc' = [pc EXCEPT ![s] = "looked"]
            /\ \E q \in Related(s) : leader' = [leader EXCEPT ![s] = q]
       ELSE pc' = [pc EXCEPT ![s] = "working"] /\ UNCHANGED leader
  /\ UNCHANGED <<rows, incidents, inc, read, left, fixed, erased>>

Open == {i \in Incident : phase[i] = "open"}

\* An open incident of the project, whosoever's it is and however old.
Find(s) ==
  /\ Goto(s, "looked", "found")
  /\ \/ \E i \in Open : inc' = [inc EXCEPT ![s] = i] /\ read' = [read EXCEPT ![s] = ids[i]]
     \/ Open = {} /\ UNCHANGED <<inc, read>>
  /\ UNCHANGED <<rows, incidents, leader, left, fixed, erased>>

Wait(s) ==
  /\ Goto(s, "found", "waiting")
  /\ left' = [left EXCEPT ![s] = Patience]
  /\ read' = [read EXCEPT ![s] = {}]
  /\ UNCHANGED <<rows, leader, fixed>>

\* The list is written as it was read, and s.
Join(s) ==
  /\ inc[s] # None
  /\ Wait(s)
  /\ IF s \in read[s]
       THEN UNCHANGED <<ids, erased>>
       ELSE /\ ids' = [ids EXCEPT ![inc[s]] = read[s] \cup {s}]
            /\ erased' = erased \cup (ids[inc[s]] \ (read[s] \cup {s}))
  /\ UNCHANGED <<phase, lead, inc>>

OpenIncident(s) ==
  /\ inc[s] = None
  /\ Wait(s)
  /\ \E i \in Incident :
       /\ phase[i] = "none"
       /\ phase' = [phase EXCEPT ![i] = "open"]
       /\ lead' = [lead EXCEPT ![i] = leader[s]]
       /\ ids' = [ids EXCEPT ![i] = {leader[s], s}]
       /\ inc' = [inc EXCEPT ![s] = i]
  /\ UNCHANGED erased

-----------------------------------------------------------------------------
(* The wait in runRemediation, and resolveIncidentFollowers *)

\* A defect: who follows waits for as long as it takes.
ProceedIfFailed(s) ==
  /\ Goto(s, "waiting", "working")
  /\ status[leader[s]] = "failed"
  /\ Forget(s)
  /\ UNCHANGED <<rows, incidents, fixed, erased>>

\* The leader failed, or is still at it and the time is over.
Proceed(s) ==
  /\ Goto(s, "waiting", "working")
  /\ \/ status[leader[s]] = "failed"
     \/ left[s] = 0 /\ status[leader[s]] # "completed"
  /\ Forget(s)
  /\ UNCHANGED <<rows, incidents, fixed, erased>>

\* A defect: a leader that has ended has fixed it.
FollowWhenEnded(s) ==
  /\ Goto(s, "waiting", "resolving")
  /\ status[leader[s]] \in Ended
  /\ UNCHANGED <<rows, incidents, locals, fixed, erased>>

Follow(s) ==
  /\ Goto(s, "waiting", "resolving")
  /\ status[leader[s]] = "completed"
  /\ UNCHANGED <<rows, incidents, locals, fixed, erased>>

Followers(s) == read[s] \ {lead[inc[s]]}

\* Nobody but the leader on the list: nothing to resolve.
ReadIncident(s) ==
  /\ pc[s] = "resolving"
  /\ read' = [read EXCEPT ![s] = ids[inc[s]]]
  /\ pc' = [pc EXCEPT ![s] = IF ids[inc[s]] \subseteq {lead[inc[s]]} THEN "followed" ELSE "marking"]
  /\ UNCHANGED <<rows, incidents, leader, inc, left, fixed, erased>>

\* A defect: an incident that is resolved is resolved for everybody.
MarkWhileOpen(s) ==
  /\ Goto(s, "marking", "closing")
  /\ status' = [q \in Session |->
                  IF q \in Followers(s) /\ status[q] \in Early /\ phase[inc[s]] = "open"
                    THEN "completed" ELSE status[q]]
  /\ UNCHANGED <<age, incidents, locals, fixed, erased>>

\* Those on the list who are not past their analysis, and not the session
\* whose run this is if it is not on the list.
MarkFollowers(s) ==
  /\ Goto(s, "marking", "closing")
  /\ status' = [q \in Session |->
                  IF q \in Followers(s) /\ status[q] \in Early THEN "completed" ELSE status[q]]
  /\ UNCHANGED <<age, incidents, locals, fixed, erased>>

CloseIncident(s) ==
  /\ Goto(s, "closing", "followed")
  /\ phase' = [phase EXCEPT ![inc[s]] = "resolved_by_leader"]
  /\ UNCHANGED <<rows, lead, ids, locals, fixed, erased>>

\* A query throws: the run goes on by itself, whatever has been written.
Throw(s) ==
  /\ s \in Unlucky /\ pc[s] \in {"detecting", "looked", "found", "waiting"} \cup Resolving
  /\ pc' = [pc EXCEPT ![s] = "working"]
  /\ Forget(s)
  /\ UNCHANGED <<rows, incidents, fixed, erased>>

-----------------------------------------------------------------------------
Work(s) ==
  /\ pc[s] = "working"
  /\ SetStatus(s, "working")
  /\ UNCHANGED <<incidents, pc, locals, fixed, erased>>

\* The run ends by itself: with a pull request that somebody has to approve,
\* with a merge, or in fail().
Finish(s, v) ==
  /\ \/ Goto(s, "working", "over") /\ v \in {"proposing", "completed", "failed"}
     \/ Goto(s, "detecting", "over") /\ v = "failed"
  /\ SetStatus(s, v)
  /\ fixed' = (fixed \/ v = "completed")
  /\ UNCHANGED <<incidents, locals, erased>>

\* An approval, feedback or a cancellation (bound: what has ended is left alone).
UserEnds(s, v) ==
  /\ s \in Touched /\ status[s] \notin Ended \cup {"none"}
  /\ SetStatus(s, v)
  /\ fixed' = (fixed \/ v = "completed")
  /\ UNCHANGED <<incidents, pc, locals, erased>>

\* The process ends.
Stop(s) ==
  /\ s \in Unlucky /\ pc[s] \notin Idle
  /\ pc' = [pc EXCEPT ![s] = "over"]
  /\ Forget(s)
  /\ UNCHANGED <<rows, incidents, fixed, erased>>

Tick ==
  /\ age' = [s \in Session |-> IF status[s] # "none" /\ age[s] < Near THEN age[s] + 1 ELSE age[s]]
  /\ left' = [s \in Session |-> IF left[s] > 0 THEN left[s] - 1 ELSE 0]
  /\ UNCHANGED <<status, incidents, pc, leader, inc, read, fixed, erased>>

-----------------------------------------------------------------------------
Poll(s) == Proceed(s) \/ Follow(s)

Next ==
  \/ \E s \in Session :
       \/ Create(s) \/ Start(s) \/ Analyze(s)
       \/ Look(s) \/ Find(s) \/ Join(s) \/ OpenIncident(s)
       \/ Poll(s) \/ ReadIncident(s) \/ MarkFollowers(s) \/ CloseIncident(s)
       \/ Throw(s) \/ Work(s) \/ Stop(s)
       \/ \E v \in Ended \cup {"proposing"} : Finish(s, v)
       \/ \E v \in Ended : UserEnds(s, v)
  \/ Tick

Spec == Init /\ [][Next]_vars

\* Time passes, and a run that waits polls every 30 seconds.
FairSpec == Spec /\ WF_vars(Tick) /\ \A s \in Session : WF_vars(Poll(s))

-----------------------------------------------------------------------------
\* Sessions that follow one another cannot complete one another: as long as
\* nobody has fixed anything no row is completed.
FixBehindIt == ~fixed => \A s \in Session : status[s] # "completed"

\* A run that returned with its leader's fix has its own row completed with
\* it, also if another run closed the incident before: unless another run's
\* write dropped it from the list, or the incident it joined has made it its
\* leader (both leave the row active with no run, and in its slot).
OnlyErasedAreLeft ==
  \A s \in Session : pc[s] = "followed" /\ status[s] \in Early =>
    s \in erased \/ lead[inc[s]] = s

\* Whoever follows whom, also in a circle, and whatever the followed session
\* does or does not do: every wait ends, and as a session waits but once there
\* comes a time when nobody waits.
WaitsEnd == <>[](\A s \in Session : pc[s] # "waiting")
=============================================================================
