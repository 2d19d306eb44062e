---------------------- MODULE RemediationSlots_proofs ----------------------
(***************************************************************************)
(* The limits hold for every number of sessions, runs and projects and for *)
(* every limit.                                                            *)
(***************************************************************************)
EXTENDS RemediationSlots, FiniteSetTheorems, TLAPS

\* The limits alone are not inductive.  A session that holds a slot keeps its
\* row active from before its own count on, and no second run of it can take
\* the row away; so whoever counts, counts all the others.
Counted ==
  /\ \A r \in Runs : pc[r] \in Live /\ SessionOf[r] \notin loose => status[SessionOf[r]] = "active"
  /\ \A r, q \in Runs :
       /\ pc[r] \in Live /\ pc[q] \in Live
       /\ SessionOf[r] = SessionOf[q] /\ SessionOf[r] \notin loose
       => r = q

Here(p) == {s \in Holding(Admitted) : ProjectOf[s] = p}
All     == Holding({"admitted", "running"})

LEMMA InitTypeOK == Init => TypeOK
BY DEF Init, TypeOK, Live

LEMMA NextType == TypeOK /\ [Next]_vars => TypeOK'
<1> SUFFICES ASSUME TypeOK, [Next]_vars PROVE TypeOK'
  OBVIOUS
<1> USE SlotsAssumption DEF TypeOK, Live, Goto, SetStatus, Disturb
<1>1. ASSUME NEW s \in Sessions, Create(s) \/ Close(s) \/ Approve(s) \/ Requeue(s)
      PROVE  TypeOK'
  BY <1>1 DEF Create, Close, Approve, Requeue
<1>2. CASE ReadQueued
  BY <1>2 DEF ReadQueued
<1>3. ASSUME NEW r \in Runs, Open(r)
      PROVE  TypeOK'
  BY <1>3 DEF Open
<1>4. ASSUME NEW r \in Runs, CountProject(r) \/ CountAll(r) \/ Refuse(r) \/ Queue(r)
      PROVE  TypeOK'
  BY <1>4 DEF CountProject, CountAll, Refuse, Queue
<1>5. ASSUME NEW r \in Runs, Phase(r) \/ Finish(r) \/ Crash(r)
      PROVE  TypeOK'
  BY <1>5 DEF Phase, Finish, Crash
<1>6. CASE UNCHANGED vars
  BY <1>6 DEF vars
<1> QED BY <1>1, <1>2, <1>3, <1>4, <1>5, <1>6 DEF Next

\* The variables keep to their values, and a session that runs has a row.
THEOREM SlotsTypeCorrect == Spec => []TypeOK
BY InitTypeOK, NextType, PTL DEF Spec

-----------------------------------------------------------------------------
LEMMA NextCounted == TypeOK /\ Counted /\ [Next]_vars => Counted'
<1> SUFFICES ASSUME TypeOK, Counted, [Next]_vars PROVE Counted'
  OBVIOUS
<1> USE SlotsAssumption DEF TypeOK, Live, Goto, SetStatus, Counted
<1>1. ASSUME NEW s \in Sessions, Create(s)
      PROVE  Counted'
  BY <1>1 DEF Create
<1>2. ASSUME NEW s \in Sessions, Close(s) \/ Approve(s) \/ Requeue(s)
      PROVE  Counted'
  <2>1. /\ UNCHANGED pc
        /\ \E v : status' = [status EXCEPT ![s] = v]
        /\ loose \subseteq loose' /\ (Alive(s) => s \in loose')
    BY <1>2 DEF Close, Approve, Requeue, Disturb
  <2>2. \A r \in Runs : pc[r] \in Live /\ SessionOf[r] = s => s \in loose'
    BY <2>1 DEF Alive, RunsOf
  <2> QED BY <2>1, <2>2
<1>3. CASE ReadQueued
  BY <1>3 DEF ReadQueued
<1>4. ASSUME NEW r \in Runs, Open(r)
      PROVE  Counted'
  BY <1>4 DEF Open, Alive, RunsOf
<1>5. ASSUME NEW r \in Runs, CountProject(r) \/ CountAll(r) \/ Refuse(r) \/ Crash(r)
      PROVE  Counted'
  BY <1>5 DEF CountProject, CountAll, Refuse, Crash
<1>6. ASSUME NEW r \in Runs, Queue(r) \/ Phase(r) \/ Finish(r)
      PROVE  Counted'
  <2>1. CASE Queue(r)
    BY <2>1 DEF Queue
  <2>2. CASE Phase(r)
    BY <2>2 DEF Phase
  <2>3. CASE Finish(r)
    BY <2>3 DEF Finish
  <2> QED BY <1>6, <2>1, <2>2, <2>3
<1>7. CASE UNCHANGED vars
  BY <1>7 DEF vars
<1> QED BY <1>1, <1>2, <1>3, <1>4, <1>5, <1>6, <1>7 DEF Next

\* Nobody gets past a count but by counting, and nobody stops being loose.
LEMMA OnlyCountsAdmit ==
  ASSUME TypeOK, [Next]_vars
  PROVE  /\ loose \subseteq loose'
         /\ (\A r \in Runs : ~CountProject(r)) =>
              \A r \in Runs : pc'[r] \in Admitted => pc[r] \in Admitted
         /\ (\A r \in Runs : ~CountAll(r)) =>
              \A r \in Runs : pc'[r] \in {"admitted", "running"} => pc[r] \in {"admitted", "running"}
<1> USE DEF TypeOK, Live, Admitted, Goto
<1>1. loose \subseteq loose'
  BY DEF Next, vars, Create, Close, Approve, Requeue, ReadQueued, Open, CountProject,
     CountAll, Refuse, Queue, Phase, Finish, Crash, Disturb
<1>2. \/ UNCHANGED pc
      \/ \E r \in Runs : \/ CountProject(r) \/ CountAll(r)
                         \/ pc' = [pc EXCEPT ![r] = "idle"] \/ pc' = [pc EXCEPT ![r] = "asked"]
                         \/ pc' = [pc EXCEPT ![r] = "refused"]
                         \/ pc[r] \in {"admitted", "running"} /\ pc' = [pc EXCEPT ![r] = "running"]
  BY DEF Next, vars, Create, Close, Approve, Requeue, ReadQueued, Open,
     Refuse, Queue, Phase, Finish, Crash
<1>3. ASSUME \A r \in Runs : ~CountProject(r)
      PROVE  \A r \in Runs : pc'[r] \in Admitted => pc[r] \in Admitted
  BY <1>2, <1>3 DEF CountAll
<1>4. ASSUME \A r \in Runs : ~CountAll(r)
      PROVE  \A r \in Runs : pc'[r] \in {"admitted", "running"} => pc[r] \in {"admitted", "running"}
  BY <1>2, <1>4 DEF CountProject
<1> QED BY <1>1, <1>3, <1>4

LEMMA InitLimits == Init => Counted /\ WithinLimits
<1> SUFFICES ASSUME Init PROVE Counted /\ WithinLimits
  OBVIOUS
<1>1. Counted
  BY DEF Init, Counted, Live
<1>2. Holding(Admitted) = {} /\ Holding({"admitted", "running"}) = {}
  BY DEF Init, Holding, RunsOf, Admitted
<1>3. \A p \in Projects : {s \in Holding(Admitted) : ProjectOf[s] = p} = {}
  BY <1>2
<1> QED BY <1>1, <1>2, <1>3, FS_EmptySet, SlotsAssumption DEF WithinLimits

\* Whoever counts less than the limit finds every holder among the counted.
LEMMA NextLimits == TypeOK /\ Counted /\ WithinLimits /\ [Next]_vars => WithinLimits'
<1> SUFFICES ASSUME TypeOK, Counted, WithinLimits, [Next]_vars PROVE WithinLimits'
  OBVIOUS
<1> USE SlotsAssumption
<1>a. Counted'
  BY NextCounted
<1>b. TypeOK'
  BY NextType
<1>1. ASSUME NEW p \in Projects PROVE Cardinality(Here(p)') < PerProject
  <2>0. IsFiniteSet(Here(p)) /\ Cardinality(Here(p)) < PerProject
    <3>1. Here(p) \subseteq Sessions
      BY DEF Here, Holding
    <3> QED BY <3>1, FS_Subset DEF Here, WithinLimits
  <2>1. CASE \A r \in Runs : ~CountProject(r)
    <3>1. Here(p)' \subseteq Here(p)
      BY <2>1, OnlyCountsAdmit DEF Here, Holding, RunsOf
    <3>2. Cardinality(Here(p)') <= Cardinality(Here(p)) /\ Cardinality(Here(p)') \in Nat
      BY <2>0, <3>1, FS_Subset, FS_CardinalityType
    <3>3. Cardinality(Here(p)) \in Nat
      BY <2>0, FS_CardinalityType
    <3> QED BY <2>0, <3>2, <3>3
  <2>2. ASSUME NEW r \in Runs, CountProject(r) PROVE Cardinality(Here(p)') < PerProject
    <3>1. UNCHANGED <<status, loose>> /\ pc' = [pc EXCEPT ![r] = "counted"] /\ pc[r] = "asked"
      BY <2>2 DEF CountProject, Goto
    <3>2. CASE ProjectOf[SessionOf[r]] = p
      <4>1. Here(p)' \subseteq Active(p)
        BY <1>a, <3>1 DEF Here, Holding, RunsOf, Active, Counted, Live, Admitted, TypeOK
      <4>2. Active(p) \subseteq Sessions
        BY DEF Active
      <4>3. IsFiniteSet(Active(p))
        BY <4>2, FS_Subset
      <4>4. Cardinality(Active(p)) < PerProject
        BY <2>2, <3>2 DEF CountProject
      <4>5. Cardinality(Here(p)') <= Cardinality(Active(p)) /\ IsFiniteSet(Here(p)')
        BY <4>1, <4>3, FS_Subset
      <4> QED BY <4>3, <4>4, <4>5, FS_CardinalityType
    <3>3. CASE ProjectOf[SessionOf[r]] # p
      <4>1. Here(p)' \subseteq Here(p)
        BY <3>1, <3>3 DEF Here, Holding, RunsOf, TypeOK
      <4>2. Cardinality(Here(p)') <= Cardinality(Here(p)) /\ IsFiniteSet(Here(p)')
        BY <2>0, <4>1, FS_Subset
      <4> QED BY <2>0, <4>2, FS_CardinalityType
    <3> QED BY <3>2, <3>3
  <2> QED BY <2>1, <2>2
<1>2. Cardinality(All') < Global
  <2>0. IsFiniteSet(All) /\ Cardinality(All) < Global
    <3>1. All \subseteq Sessions
      BY DEF All, Holding
    <3> QED BY <3>1, FS_Subset DEF All, WithinLimits
  <2>1. CASE \A r \in Runs : ~CountAll(r)
    <3>1. All' \subseteq All
      BY <2>1, OnlyCountsAdmit DEF All, Holding, RunsOf
    <3>2. Cardinality(All') <= Cardinality(All) /\ IsFiniteSet(All')
      BY <2>0, <3>1, FS_Subset
    <3> QED BY <2>0, <3>2, FS_CardinalityType
  <2>2. ASSUME NEW r \in Runs, CountAll(r) PROVE Cardinality(All') < Global
    <3>1. UNCHANGED <<status, loose>> /\ pc' = [pc EXCEPT ![r] = "admitted"] /\ pc[r] = "counted"
      BY <2>2 DEF CountAll, Goto
    <3>2. All' \subseteq AllActive
      BY <1>a, <3>1 DEF All, Holding, RunsOf, AllActive, Counted, Live, TypeOK
    <3>3. AllActive \subseteq Sessions
      BY DEF AllActive
    <3>4. IsFiniteSet(AllActive)
      BY <3>3, FS_Subset
    <3>5. Cardinality(AllActive) < Global
      BY <2>2 DEF CountAll
    <3>6. Cardinality(All') <= Cardinality(AllActive) /\ IsFiniteSet(All')
      BY <3>2, <3>4, FS_Subset
    <3> QED BY <3>4, <3>5, <3>6, FS_CardinalityType
  <2> QED BY <2>1, <2>2
<1> QED BY <1>1, <1>2 DEF WithinLimits, Here, All

\* However the counts interleave with starts, crashes, cancellations and the
\* scripts, fewer than PerProject sessions of a project, and fewer than Global
\* of all, are past their counts, those that run beside the protocol aside.
THEOREM LimitsHold == Spec => []WithinLimits
BY InitTypeOK, NextType, InitLimits, NextCounted, NextLimits, PTL DEF Spec
=============================================================================
