-------------------------- MODULE Incidents_proofs --------------------------
(***************************************************************************)
(* What completes a row with its leader, for every number of sessions and  *)
(* incidents and every interleaving of their reads and writes.  The        *)
(* argument follows one session's name through the list: once its run has  *)
(* joined it is on the list unless another's write dropped it, so it is on *)
(* the list as its own run reads it, so its own run completes it.          *)
(***************************************************************************)
EXTENDS Incidents, TLAPS

Leading == {"looked", "found", "waiting"} \cup Resolving
Joined  == {"waiting", "followed"} \cup Resolving

\* A run that follows knows whom, and in which incident.
Knows ==
  \A s \in Session :
    /\ pc[s] \in Leading => leader[s] \in Session
    /\ pc[s] \in Joined => inc[s] \in Incident
    /\ inc[s] # None => phase[inc[s]] # "none"
    /\ pc[s] \in {"new", "started", "detecting", "looked"} => inc[s] = None
    /\ status[s] = "none" => pc[s] = "new"

\* Who resolves has seen a completed row.
ResolvingIsFixed == \A s \in Session : pc[s] \in Resolving => fixed

\* Its name is on the list, as it is and as its run reads it.
Listed ==
  \A s \in Session :
    /\ pc[s] \in Joined => s \in ids[inc[s]] \cup erased
    /\ pc[s] = "found" /\ inc[s] # None /\ s \in read[s] => s \in ids[inc[s]] \cup erased
    /\ pc[s] = "marking" => s \in read[s] \cup erased

\* Its own run completes it before it closes the incident.
Completed ==
  \A s \in Session :
    pc[s] \in {"closing", "followed"} /\ status[s] \in Early => s \in erased \/ lead[inc[s]] = s

IInv == TypeOK /\ Knows /\ FixBehindIt /\ ResolvingIsFixed /\ Listed /\ Completed

-----------------------------------------------------------------------------
LEMMA InitIInv == Init => IInv
<1> SUFFICES ASSUME Init PROVE IInv
  OBVIOUS
<1>1. TypeOK
  <2>1. 0 \in 0 .. Near /\ 0 \in 0 .. Patience
    BY IncidentsAssumption
  <2>2. age \in [Session -> 0 .. Near] /\ left \in [Session -> 0 .. Patience]
    BY <2>1 DEF Init
  <2>3. /\ status \in [Session -> Status]
        /\ phase \in [Incident -> {"none", "open", "resolved_by_leader"}]
        /\ lead \in [Incident -> Session \cup {None}] /\ ids \in [Incident -> SUBSET Session]
        /\ leader \in [Session -> Session \cup {None}]
        /\ inc \in [Session -> Incident \cup {None}]
        /\ read \in [Session -> SUBSET Session]
        /\ fixed \in BOOLEAN /\ erased \subseteq Session
    BY DEF Init, Status, Early, Ended
  <2> QED
    BY <2>2, <2>3 DEF Init, TypeOK, Idle
<1>2. Knows /\ FixBehindIt /\ ResolvingIsFixed /\ Listed /\ Completed
  BY DEF Init, Knows, FixBehindIt, ResolvingIsFixed, Listed, Completed, Leading, Joined, Resolving
<1> QED
  BY <1>1, <1>2 DEF IInv

LEMMA NextIInv == IInv /\ [Next]_vars => IInv'
<1> SUFFICES ASSUME IInv, [Next]_vars PROVE IInv'
  OBVIOUS
<1> USE IncidentsAssumption DEF IInv, TypeOK, Knows, FixBehindIt, ResolvingIsFixed, Listed, Completed,
      Leading, Joined, Resolving, Idle, Status, Early, Ended, Goto, SetStatus, Forget,
      rows, incidents, locals
<1>1. ASSUME NEW s \in Session, Create(s) PROVE IInv'
  BY <1>1 DEF Create
<1>2. ASSUME NEW s \in Session, Start(s) PROVE IInv'
  BY <1>2 DEF Start
<1>3. ASSUME NEW s \in Session, Analyze(s) PROVE IInv'
  BY <1>3 DEF Analyze
<1>4. ASSUME NEW s \in Session, Look(s) PROVE IInv'
  BY <1>4 DEF Look, Related
<1>5. ASSUME NEW s \in Session, Find(s) PROVE IInv'
  <2>1. /\ pc[s] = "looked" /\ pc' = [pc EXCEPT ![s] = "found"]
        /\ UNCHANGED <<status, age, phase, lead, ids, leader, left, fixed, erased>>
    BY <1>5 DEF Find
  <2>2. ASSUME NEW i \in Incident, phase[i] = "open",
               inc' = [inc EXCEPT ![s] = i], read' = [read EXCEPT ![s] = ids[i]]
        PROVE  IInv'
    BY <2>1, <2>2
  <2>3. CASE UNCHANGED <<inc, read>>
    BY <2>1, <2>3
  <2> QED
    BY <2>2, <2>3, <1>5 DEF Find, Open
<1>6. ASSUME NEW s \in Session, Join(s) PROVE IInv'
  BY <1>6 DEF Join, Wait
<1>7. ASSUME NEW s \in Session, OpenIncident(s) PROVE IInv'
  BY <1>7 DEF OpenIncident, Wait
<1>8. ASSUME NEW s \in Session, Proceed(s) PROVE IInv'
  BY <1>8 DEF Proceed
<1>9. ASSUME NEW s \in Session, Follow(s) PROVE IInv'
  BY <1>9 DEF Follow
<1>10. ASSUME NEW s \in Session, ReadIncident(s) PROVE IInv'
  BY <1>10 DEF ReadIncident
<1>11. ASSUME NEW s \in Session, MarkFollowers(s) PROVE IInv'
  BY <1>11 DEF MarkFollowers, Followers
<1>12. ASSUME NEW s \in Session, CloseIncident(s) PROVE IInv'
  BY <1>12 DEF CloseIncident
<1>13. ASSUME NEW s \in Session, Throw(s) PROVE IInv'
  BY <1>13 DEF Throw
<1>14. ASSUME NEW s \in Session, Work(s) PROVE IInv'
  BY <1>14 DEF Work
<1>15. ASSUME NEW s \in Session, Stop(s) PROVE IInv'
  BY <1>15 DEF Stop
<1>16. ASSUME NEW s \in Session, NEW v \in Ended \cup {"proposing"}, Finish(s, v) PROVE IInv'
  <2>1. /\ pc[s] \in {"working", "detecting"} /\ pc' = [pc EXCEPT ![s] = "over"]
        /\ status' = [status EXCEPT ![s] = v] /\ v \in {"proposing", "completed", "failed"}
        /\ UNCHANGED <<age, phase, lead, ids, leader, inc, read, left, erased>>
    BY <1>16 DEF Finish
  <2>2. CASE v = "completed"
    <3>1. fixed' = TRUE
      BY <1>16, <2>2 DEF Finish
    <3> QED
      BY <2>1, <2>2, <3>1
  <2>3. CASE v # "completed"
    <3>1. UNCHANGED fixed
      BY <1>16, <2>3 DEF Finish
    <3> QED
      BY <2>1, <2>3, <3>1
  <2> QED
    BY <2>2, <2>3
<1>17. ASSUME NEW s \in Session, NEW v \in Ended, UserEnds(s, v) PROVE IInv'
  BY <1>17 DEF UserEnds
<1>18. CASE Tick
  <2>1. age' \in [Session -> 0 .. Near]
    BY <1>18 DEF Tick
  <2>2. left' \in [Session -> 0 .. Patience]
    BY <1>18 DEF Tick
  <2>3. UNCHANGED <<status, phase, lead, ids, pc, leader, inc, read, fixed, erased>>
    BY <1>18 DEF Tick
  <2> QED
    BY <2>1, <2>2, <2>3
<1>19. CASE UNCHANGED vars
  BY <1>19 DEF vars
<1> QED
  BY <1>1, <1>2, <1>3, <1>4, <1>5, <1>6, <1>7, <1>8, <1>9, <1>10, <1>11, <1>12, <1>13, <1>14,
     <1>15, <1>16, <1>17, <1>18, <1>19 DEF Next, Poll

\* The variables keep to their values.
THEOREM IncidentsTypeCorrect == Spec => []TypeOK
<1>1. IInv => TypeOK
  BY DEF IInv
<1> QED
  BY InitIInv, NextIInv, <1>1, PTL DEF Spec

\* Followers, however many and in whatever circles, complete nobody before
\* somebody has fixed something.
THEOREM CompletionHasAFix == Spec => []FixBehindIt
<1>1. IInv => FixBehindIt
  BY DEF IInv
<1> QED
  BY InitIInv, NextIInv, <1>1, PTL DEF Spec

\* The rows left active by a run that returned with its leader's fix are those
\* that a concurrent write dropped from the list, and the leaders of incidents.
THEOREM LeftAreErased == Spec => []OnlyErasedAreLeft
<1>1. IInv => OnlyErasedAreLeft
  BY DEF IInv, Completed, OnlyErasedAreLeft
<1> QED
  BY InitIInv, NextIInv, <1>1, PTL DEF Spec
=============================================================================
