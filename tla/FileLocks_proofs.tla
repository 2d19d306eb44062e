-------------------------- MODULE FileLocks_proofs --------------------------
(***************************************************************************)
(* What FileLocks guarantees for any number of runs, sessions and files    *)
(* and any TTL: a lock that has not expired is exclusive, but for the two  *)
(* races recorded in exposed.                                              *)
(***************************************************************************)
EXTENDS FileLocks, TLAPS

\* An unexpired lease is backed by a row of the run's session that has as
\* long to live.
LeaseBacked ==
  \A r \in Runs, f \in Files : Holds(r, f) /\ f \notin exposed =>
    owner[f] = SessionOf[r] /\ left[f] = lease[r][f]

\* What a run is about to force-release is free or has expired.
ForceSound ==
  \A r \in Runs : pc[r] = "force" /\ cur[r] \notin exposed =>
    owner[cur[r]] = NoSession \/ left[cur[r]] < 0

\* A run that has not begun holds nothing.
IdleClean == \A r \in Runs : pc[r] = "idle" => \A f \in Files : lease[r][f] = NoLease

IInv == TypeOK /\ LeaseBacked /\ ForceSound /\ IdleClean

-----------------------------------------------------------------------------
\* A countdown stays in its range.
LEMMA DownType ==
  ASSUME NEW hi \in Nat, NEW low \in Int, NEW n \in low..hi, NEW floor \in Int,
         floor >= low
  PROVE  Down(n, floor) \in low..hi
  BY DEF Down

\* The type invariant is inductive.
LEMMA TypeStep == TypeOK /\ [Next]_vars => TypeOK'
<1> SUFFICES ASSUME TypeOK, [Next]_vars PROVE TypeOK'
  OBVIOUS
<1> USE LocksAssumption
<1>1. ASSUME NEW r \in Runs, Begin(r) PROVE TypeOK'
  BY TypeOK, <1>1 DEF TypeOK, Begin, Goto, Locking, Ended, timers
<1>2. ASSUME NEW r \in Runs, Sweep(r) PROVE TypeOK'
  BY TypeOK, <1>2 DEF TypeOK, Sweep, Goto, Locking, Ended, timers, local
<1>3. ASSUME NEW r \in Runs, Stamp(r) PROVE TypeOK'
  BY TypeOK, <1>3 DEF TypeOK, Stamp, Goto, Locking, Ended, local
<1>4. ASSUME NEW r \in Runs, PickFile(r) PROVE TypeOK'
  BY TypeOK, <1>4 DEF TypeOK, PickFile, Goto, Locking, Ended
<1>5. ASSUME NEW r \in Runs, Insert(r) PROVE TypeOK'
  <2>1. /\ cur[r] \in Files
        /\ exp[r] \in NoLease..TTL
    BY TypeOK, <1>5 DEF TypeOK, Insert, Goto, NoLease
  <2> QED BY TypeOK, <1>5, <2>1 DEF TypeOK, Insert, InsertRow, Goto, Locking, Ended, local
<1>6. ASSUME NEW r \in Runs, InsertThrows(r) PROVE TypeOK'
  <2>1. cur[r] \in Files
    BY TypeOK, <1>6 DEF TypeOK, InsertThrows, Goto
  <2> QED BY TypeOK, <1>6, <2>1 DEF TypeOK, InsertThrows, InsertRow, Goto, Locking, Ended, local, rows
<1>7. ASSUME NEW r \in Runs, GiveUp(r) PROVE TypeOK'
  BY TypeOK, <1>7 DEF TypeOK, GiveUp, Goto, Locking, Ended, timers
<1>8. ASSUME NEW r \in Runs, SeesFree(r) PROVE TypeOK'
  BY TypeOK, <1>8 DEF TypeOK, SeesFree, Goto, Locking, Ended, timers, local
<1>9. ASSUME NEW r \in Runs, SeesOwn(r) PROVE TypeOK'
  <2>1. /\ cur[r] \in Files
        /\ left[cur[r]] \in NoLease..TTL
    BY TypeOK, <1>9 DEF TypeOK, SeesOwn, Goto, NoLease
  <2> QED BY TypeOK, <1>9, <2>1 DEF TypeOK, SeesOwn, Goto, Locking, Ended, local
<1>10. ASSUME NEW r \in Runs, SeesExpired(r) PROVE TypeOK'
  BY TypeOK, <1>10 DEF TypeOK, SeesExpired, Goto, Locking, Ended, timers, local
<1>11. ASSUME NEW r \in Runs, SeesHeld(r) PROVE TypeOK'
  <2>1. nap' \in [Runs -> 0..Poll]
    BY TypeOK, <1>11 DEF TypeOK, SeesHeld
  <2> QED BY TypeOK, <1>11, <2>1 DEF TypeOK, SeesHeld, Goto, Locking, Ended, local
<1>12. ASSUME NEW r \in Runs, ForceRelease(r) PROVE TypeOK'
  BY TypeOK, <1>12 DEF TypeOK, ForceRelease, Goto, Locking, Ended, local
<1>13. ASSUME NEW r \in Runs, Wake(r) PROVE TypeOK'
  BY TypeOK, <1>13 DEF TypeOK, Wake, Goto, Locking, Ended, timers, local
<1>14. ASSUME NEW r \in Runs, Settle(r) PROVE TypeOK'
  <2>1. wants' \in [Runs -> SUBSET Files]
    BY TypeOK, <1>14 DEF TypeOK, Settle
  <2>2. releasing' \in SUBSET Runs
    BY TypeOK, <1>14 DEF TypeOK, Settle
  <2>3. \E to \in {"failed", "editing"} : Goto(r, "next", to)
    BY TypeOK, <1>14 DEF Settle
  <2>4. UNCHANGED <<owner, cur, missed, timers, exposed>>
    BY TypeOK, <1>14 DEF Settle
  <2> QED BY TypeOK, <1>14, <2>1, <2>2, <2>3, <2>4 DEF TypeOK, Goto, Locking, Ended, timers
<1>15. ASSUME NEW r \in Runs, Throws(r) PROVE TypeOK'
  BY TypeOK, <1>15 DEF TypeOK, Throws, Goto, Locking, Ended, timers, local
<1>16. ASSUME NEW r \in Runs, Finish(r) PROVE TypeOK'
  BY TypeOK, <1>16 DEF TypeOK, Finish, Goto, Locking, Ended, timers, local
<1>17. ASSUME NEW r \in Runs, Fail(r) PROVE TypeOK'
  BY TypeOK, <1>17 DEF TypeOK, Fail, Goto, Locking, Ended, timers, local
<1>18. ASSUME NEW r \in Runs, Release(r) PROVE TypeOK'
  BY TypeOK, <1>18 DEF TypeOK, Release, timers, local
<1>19. ASSUME NEW r \in Runs, ReleaseLost(r) PROVE TypeOK'
  BY TypeOK, <1>19 DEF TypeOK, ReleaseLost, timers, local
<1>20. ASSUME NEW r \in Runs, Crash(r) PROVE TypeOK'
  BY TypeOK, <1>20 DEF TypeOK, Crash, Locking, Ended, timers, local
<1>21. ASSUME Tick PROVE TypeOK'
  <2>1. left' \in [Files -> -1..TTL]
    BY TypeOK, <1>21, DownType DEF TypeOK, Tick
  <2>2. exp' \in [Runs -> -1..TTL]
    BY TypeOK, <1>21, DownType DEF TypeOK, Tick
  <2>3. budget' \in [Runs -> 0..Wait]
    BY TypeOK, <1>21, DownType DEF TypeOK, Tick
  <2>4. nap' \in [Runs -> 0..Poll]
    BY TypeOK, <1>21, DownType DEF TypeOK, Tick
  <2>5. lease' \in [Runs -> [Files -> NoLease..TTL]]
    <3> SUFFICES ASSUME NEW r \in Runs, NEW f \in Files
                 PROVE  Down(lease[r][f], -1) \in NoLease..TTL
      BY TypeOK, <1>21 DEF Tick
    <3>1. lease[r][f] \in NoLease..TTL
      BY TypeOK, <1>21 DEF TypeOK
    <3> QED BY <3>1 DEF Down, NoLease
  <2> QED BY TypeOK, <1>21, <2>1, <2>2, <2>3, <2>4, <2>5 DEF TypeOK, Tick, local
<1>22. ASSUME UNCHANGED vars PROVE TypeOK'
  BY TypeOK, <1>22 DEF TypeOK, vars, local, timers
<1>23. ASSUME NEW r \in Runs, Acquiring(r) PROVE TypeOK'
  BY <1>23, <1>2, <1>3, <1>4, <1>5, <1>6, <1>7, <1>8, <1>9, <1>10, <1>11, <1>12, <1>13,
     <1>14, <1>15 DEF Acquiring
<1> HIDE LocksAssumption
<1> QED
  BY <1>1, <1>23, <1>16, <1>17, <1>18, <1>19, <1>20, <1>21, <1>22 DEF Next

\* The files, runs, rows and clocks stay what they are whatever a run does.
THEOREM TypeCorrect == Spec => []TypeOK
<1>1. Init => TypeOK
  BY LocksAssumption DEF Init, TypeOK, NoLease
<1> QED BY <1>1, TypeStep, PTL DEF Spec

-----------------------------------------------------------------------------
\* A step that only moves a run, not into the force-release and not out of
\* the end, keeps the invariant.
LEMMA Quiet ==
  ASSUME IInv, TypeOK', NEW r \in Runs, NEW to,
         pc' = [pc EXCEPT ![r] = to],
         to \notin {"idle", "force"},
         pc[r] \in Ended => to \in Ended,
         UNCHANGED <<owner, left, lease, exposed>>,
         \A q \in Runs : q # r => cur'[q] = cur[q]
  PROVE  IInv'
<1>1. \A q \in Runs, f \in Files : Holds(q, f)' => Holds(q, f)
  BY DEF IInv, TypeOK, Holds, Alive, Ended, IdleClean, NoLease
<1>2. LeaseBacked'
  BY <1>1 DEF IInv, LeaseBacked
<1>3. ForceSound'
  BY DEF IInv, TypeOK, ForceSound
<1>4. IdleClean'
  BY DEF IInv, TypeOK, IdleClean
<1> QED BY <1>2, <1>3, <1>4 DEF IInv

\* A step of a live run that takes away rows, each of them expired, free or
\* exposed, keeps the invariant.
LEMMA RowsGo ==
  ASSUME IInv, TypeOK', NEW r \in Runs, NEW to,
         pc' = [pc EXCEPT ![r] = to],
         to \notin {"idle", "force"},
         pc[r] \notin Ended \cup {"idle"},
         UNCHANGED <<left, lease, cur, exposed>>,
         \A f \in Files : owner'[f] # owner[f] =>
           owner'[f] = NoSession /\ (f \in exposed \/ owner[f] = NoSession \/ left[f] < 0)
  PROVE  IInv'
<1>0. /\ \A q \in Runs, f \in Files : Holds(q, f)' => Holds(q, f)
      /\ \A q \in Runs : pc'[q] \in {"force", "idle"} => pc'[q] = pc[q]
  BY DEF IInv, TypeOK, Holds, Alive
<1>1. LeaseBacked'
  <2> SUFFICES ASSUME NEW q \in Runs, NEW f \in Files, Holds(q, f)', f \notin exposed'
               PROVE  owner'[f] = SessionOf[q] /\ left'[f] = lease'[q][f]
    BY DEF LeaseBacked
  <2>1. Holds(q, f) /\ owner[f] = SessionOf[q] /\ left[f] = lease[q][f]
    BY <1>0 DEF IInv, LeaseBacked
  <2>2. left[f] >= 0 /\ left[f] \in Int
    BY <2>1 DEF IInv, TypeOK, Holds
  <2>3. owner[f] # NoSession
    BY <2>1, LocksAssumption
  <2> QED BY <2>1, <2>2, <2>3
<1>2. ForceSound'
  <2> SUFFICES ASSUME NEW q \in Runs, pc'[q] = "force", cur'[q] \notin exposed'
               PROVE  owner'[cur'[q]] = NoSession \/ left'[cur'[q]] < 0
    BY DEF ForceSound
  <2>1. cur'[q] = cur[q] /\ pc[q] = "force" /\ cur[q] \in Files
    BY <1>0 DEF IInv, TypeOK
  <2> QED BY <2>1 DEF IInv, ForceSound
<1>3. IdleClean'
  BY <1>0 DEF IInv, IdleClean
<1> QED BY <1>1, <1>2, <1>3 DEF IInv

\* A step that fills a free row, and leases it or not, keeps the invariant.
LEMMA RowFilled ==
  ASSUME IInv, TypeOK', NEW r \in Runs, NEW f \in Files, pc[r] = "try", Free(f),
         NEW to \in {"next", "select"}, pc' = [pc EXCEPT ![r] = to],
         UNCHANGED cur, InsertRow(r, f),
         \/ lease' = [lease EXCEPT ![r][f] = exp[r]]
         \/ lease' = lease
  PROVE  IInv'
<1>1. \A q \in Runs, g \in Files : g # f =>
        lease'[q][g] = lease[q][g] /\ owner'[g] = owner[g] /\ left'[g] = left[g]
  BY DEF IInv, TypeOK, InsertRow
<1>2. \A q \in Runs : q # r => lease'[q] = lease[q]
  BY DEF IInv, TypeOK
<1>3. owner'[f] = SessionOf[r] /\ left'[f] = exp[r]
  BY DEF IInv, TypeOK, InsertRow
<1>4. exposed \subseteq exposed'
  BY DEF InsertRow
<1>5. \A q \in Runs : Holds(q, f) => f \in exposed
  BY LocksAssumption DEF IInv, LeaseBacked, Free
<1>6. Alive(r) /\ \A q \in Runs : Alive(q)' <=> Alive(q)
  BY DEF IInv, TypeOK, Alive, Ended
<1>7. LeaseBacked'
  <2> SUFFICES ASSUME NEW q \in Runs, NEW g \in Files, Holds(q, g)', g \notin exposed'
               PROVE  owner'[g] = SessionOf[q] /\ left'[g] = lease'[q][g]
    BY DEF LeaseBacked
  <2>1. CASE g # f
    BY <2>1, <1>1, <1>4, <1>6 DEF IInv, LeaseBacked, Holds
  <2>2. CASE g = f /\ lease'[q][f] = lease[q][f]
    BY <2>2, <1>4, <1>5, <1>6 DEF Holds
  <2>3. CASE g = f /\ lease'[q][f] # lease[q][f]
    <3>1. q = r /\ lease'[r][f] = exp[r]
      BY <2>3, <1>2 DEF IInv, TypeOK
    <3> QED BY <2>3, <3>1, <1>3
  <2> QED BY <2>1, <2>2, <2>3
<1>8. ForceSound'
  <2> SUFFICES ASSUME NEW q \in Runs, pc'[q] = "force", cur'[q] \notin exposed'
               PROVE  owner'[cur'[q]] = NoSession \/ left'[cur'[q]] < 0
    BY DEF ForceSound
  <2>1. pc[q] = "force" /\ cur'[q] = cur[q] /\ cur[q] \in Files
    BY DEF IInv, TypeOK
  <2>2. cur[q] # f
    BY <2>1 DEF InsertRow, InForceWindow
  <2> QED BY <2>1, <2>2, <1>1, <1>4 DEF IInv, ForceSound
<1>9. IdleClean'
  BY <1>2, pc[r] # "idle" DEF IInv, TypeOK, IdleClean
<1> QED BY <1>7, <1>8, <1>9 DEF IInv

\* One step per action: what each does to rows and leases.
LEMMA InvStep == IInv /\ [Next]_vars => IInv'
<1> SUFFICES ASSUME IInv, [Next]_vars PROVE IInv'
  OBVIOUS
<1>0. TypeOK /\ TypeOK'
  BY TypeStep DEF IInv
<1>1. ASSUME NEW r \in Runs, Begin(r) PROVE IInv'
  <2>1. /\ pc[r] = "idle" /\ pc' = [pc EXCEPT ![r] = "sweep"]
        /\ UNCHANGED <<owner, left, lease, cur, exposed>>
    BY <1>1 DEF Begin, Goto, timers
  <2> QED BY <1>0, <2>1, Quiet DEF Ended
<1>2. ASSUME NEW r \in Runs, Sweep(r) PROVE IInv'
  <2>1. /\ pc' = [pc EXCEPT ![r] = "stamp"] /\ pc[r] = "sweep"
        /\ UNCHANGED <<left, lease, cur, exposed>>
    BY <1>2 DEF Sweep, Goto, timers, local
  <2>2. \A f \in Files : owner'[f] # owner[f] => owner'[f] = NoSession /\ left[f] < 0
    BY <1>2 DEF Sweep, Expired
  <2> QED BY <1>0, <2>1, <2>2, RowsGo DEF Ended
<1>3. ASSUME NEW r \in Runs, Stamp(r) PROVE IInv'
  BY <1>0, <1>3, Quiet DEF Stamp, Goto, Ended, local
<1>4. ASSUME NEW r \in Runs, PickFile(r) PROVE IInv'
  <2>1. \A q \in Runs : q # r => cur'[q] = cur[q]
    BY <1>0, <1>4 DEF TypeOK, PickFile
  <2> QED BY <1>0, <1>4, <2>1, Quiet DEF PickFile, Goto, Ended
<1>5. ASSUME NEW r \in Runs, Insert(r) PROVE IInv'
  <2>1. cur[r] \in Files
    BY <1>0, <1>5 DEF TypeOK, Insert, Goto
  <2> QED BY <1>0, <1>5, <2>1, RowFilled DEF Insert, Goto, local
<1>6. ASSUME NEW r \in Runs, InsertThrows(r) PROVE IInv'
  <2>1. CASE UNCHANGED <<rows, exposed>>
    BY <1>0, <1>6, <2>1, Quiet DEF InsertThrows, Goto, Ended, rows, local
  <2>2. CASE Free(cur[r]) /\ InsertRow(r, cur[r])
    <3>1. cur[r] \in Files
      BY <1>0, <1>6 DEF TypeOK, InsertThrows, Goto
    <3> QED BY <1>0, <1>6, <2>2, <3>1, RowFilled DEF InsertThrows, Goto, local
  <2> QED BY <1>6, <2>1, <2>2 DEF InsertThrows
<1>7. ASSUME NEW r \in Runs, GiveUp(r) PROVE IInv'
  BY <1>0, <1>7, Quiet DEF GiveUp, Goto, Ended, timers
<1>8. ASSUME NEW r \in Runs, SeesFree(r) PROVE IInv'
  BY <1>0, <1>8, Quiet DEF SeesFree, Goto, Ended, timers, local
<1>9. ASSUME NEW r \in Runs, SeesOwn(r) PROVE IInv'
  <2> DEFINE f == cur[r]
  <2>1. f \in Files /\ owner[f] = SessionOf[r]
    BY <1>0, <1>9 DEF TypeOK, SeesOwn, Goto
  <2>2. /\ lease' = [lease EXCEPT ![r][f] = left[f]]
        /\ pc' = [pc EXCEPT ![r] = "next"] /\ pc[r] = "select"
        /\ UNCHANGED <<owner, left, cur, exposed>>
    BY <1>9 DEF SeesOwn, Goto, local
  <2> HIDE DEF f
  <2>3. \A q \in Runs, g \in Files :
          Holds(q, g)' => \/ Holds(q, g) /\ lease'[q][g] = lease[q][g]
                          \/ q = r /\ g = f
    <3> SUFFICES ASSUME NEW q \in Runs, NEW g \in Files, Holds(q, g)', ~(q = r /\ g = f)
                 PROVE  Holds(q, g) /\ lease'[q][g] = lease[q][g]
      OBVIOUS
    <3>1. lease'[q][g] = lease[q][g]
      BY <1>0, <2>1, <2>2 DEF TypeOK
    <3>2. Alive(q)
      BY <1>0, <2>2 DEF TypeOK, Holds, Alive, Ended
    <3> QED BY <3>1, <3>2 DEF Holds
  <2>4. lease'[r][f] = left[f]
    BY <1>0, <2>1, <2>2 DEF TypeOK
  <2>5. LeaseBacked'
    BY <2>1, <2>2, <2>3, <2>4 DEF IInv, LeaseBacked
  <2>6. ForceSound' /\ IdleClean'
    BY <1>0, <2>1, <2>2 DEF IInv, TypeOK, ForceSound, IdleClean
  <2> QED BY <1>0, <2>5, <2>6 DEF IInv
<1>10. ASSUME NEW r \in Runs, SeesExpired(r) PROVE IInv'
  <2>1. /\ pc' = [pc EXCEPT ![r] = "force"] /\ pc[r] = "select"
        /\ UNCHANGED <<owner, left, lease, cur, exposed>>
        /\ left[cur[r]] < 0
    BY <1>10 DEF SeesExpired, Goto, timers, local, Expired
  <2>2. LeaseBacked' /\ IdleClean'
    BY <1>0, <2>1 DEF IInv, TypeOK, LeaseBacked, IdleClean, Holds, Alive, Ended
  <2>3. ForceSound'
    BY <1>0, <2>1 DEF IInv, TypeOK, ForceSound
  <2> QED BY <1>0, <2>2, <2>3 DEF IInv
<1>11. ASSUME NEW r \in Runs, SeesHeld(r) PROVE IInv'
  BY <1>0, <1>11, Quiet DEF SeesHeld, Goto, Ended, local
<1>12. ASSUME NEW r \in Runs, ForceRelease(r) PROVE IInv'
  <2>1. /\ pc[r] = "force" /\ pc' = [pc EXCEPT ![r] = "try"]
        /\ UNCHANGED <<left, lease, cur, exposed>>
    BY <1>12 DEF ForceRelease, Goto, local
  <2>2. \A f \in Files : owner'[f] # owner[f] => owner'[f] = NoSession /\ f = cur[r]
    BY <1>0, <1>12 DEF TypeOK, ForceRelease
  <2>3. cur[r] \in exposed \/ owner[cur[r]] = NoSession \/ left[cur[r]] < 0
    BY <2>1 DEF IInv, ForceSound
  <2>4. \A f \in Files : owner'[f] # owner[f] =>
          owner'[f] = NoSession /\ (f \in exposed \/ owner[f] = NoSession \/ left[f] < 0)
    BY <2>2, <2>3
  <2>5. pc[r] \notin Ended \cup {"idle"}
    BY <2>1 DEF Ended
  <2>6. "try" \notin {"idle", "force"}
    OBVIOUS
  <2>7. UNCHANGED <<left, lease, cur, exposed>> /\ pc' = [pc EXCEPT ![r] = "try"]
    BY <2>1
  <2>8. IInv /\ TypeOK'
    BY <1>0
  <2> QED BY <2>4, <2>5, <2>6, <2>7, <2>8, RowsGo
<1>13. ASSUME NEW r \in Runs, Wake(r) PROVE IInv'
  BY <1>0, <1>13, Quiet DEF Wake, Goto, Ended, timers, local
<1>14. ASSUME NEW r \in Runs, Settle(r) PROVE IInv'
  <2>1. PICK to \in {"failed", "editing"} : Goto(r, "next", to)
    BY <1>14 DEF Settle
  <2>2. UNCHANGED <<owner, cur, timers, exposed>>
    BY <1>14 DEF Settle
  <2>3. pc' = [pc EXCEPT ![r] = to] /\ pc[r] \notin Ended /\ to \notin {"idle", "force"}
    BY <2>1 DEF Goto, Ended
  <2>4. UNCHANGED <<owner, left, lease, exposed>> /\ \A q \in Runs : q # r => cur'[q] = cur[q]
    BY <2>2 DEF timers
  <2> QED BY <1>0, <2>3, <2>4, Quiet
<1>15. ASSUME NEW r \in Runs, Throws(r) PROVE IInv'
  <2>1. PICK from \in {"sweep", "select", "force"} : Goto(r, from, "editing")
    BY <1>15 DEF Throws
  <2>2. UNCHANGED <<owner, left, lease, cur, exposed>>
    BY <1>15 DEF Throws, timers, local
  <2>3. pc' = [pc EXCEPT ![r] = "editing"] /\ pc[r] \notin Ended
    BY <2>1 DEF Goto, Ended
  <2>4. UNCHANGED <<owner, left, lease, exposed>> /\ \A q \in Runs : q # r => cur'[q] = cur[q]
    BY <2>2
  <2> QED BY <1>0, <2>3, <2>4, Quiet
<1>16. ASSUME NEW r \in Runs, Finish(r) PROVE IInv'
  BY <1>0, <1>16, Quiet DEF Finish, Goto, Ended, timers, local
<1>17. ASSUME NEW r \in Runs, Fail(r) PROVE IInv'
  BY <1>0, <1>17, Quiet DEF Fail, Goto, Ended, timers, local
<1>18. ASSUME NEW r \in Runs, Release(r) PROVE IInv'
  <2>1. UNCHANGED <<pc, cur, left, lease>> /\ exposed \subseteq exposed'
    BY <1>18 DEF Release, local, timers
  <2>2. \A f \in Files : owner'[f] = IF owner[f] = SessionOf[r] THEN NoSession ELSE owner[f]
    BY <1>18 DEF Release
  <2>3. \A f \in Files, q \in Runs :
          owner[f] = SessionOf[r] /\ SessionOf[q] = SessionOf[r] /\ Holds(q, f) => f \in exposed'
    BY <1>18 DEF Release
  <2>4. LeaseBacked'
    BY <2>1, <2>2, <2>3 DEF IInv, LeaseBacked, Holds, Alive
  <2>5. ForceSound'
    BY <1>0, <2>1, <2>2 DEF IInv, TypeOK, ForceSound
  <2>6. IdleClean'
    BY <2>1 DEF IInv, IdleClean
  <2> QED BY <1>0, <2>4, <2>5, <2>6 DEF IInv
<1>19. ASSUME NEW r \in Runs, ReleaseLost(r) PROVE IInv'
  BY <1>0, <1>19 DEF ReleaseLost, timers, local, IInv, LeaseBacked, ForceSound, IdleClean,
     Holds, Alive
<1>20. ASSUME NEW r \in Runs, Crash(r) PROVE IInv'
  BY <1>0, <1>20, Quiet DEF Crash, Alive, Ended, timers, local
<1>21. ASSUME Tick PROVE IInv'
  <2>1. UNCHANGED <<owner, pc, cur, exposed>>
    BY <1>21 DEF Tick, local
  <2>2. \A f \in Files : left'[f] = Down(left[f], -1)
    BY <1>21 DEF Tick
  <2>3. \A q \in Runs, f \in Files : lease'[q][f] = Down(lease[q][f], -1)
    BY <1>21 DEF Tick
  <2>4. LeaseBacked'
    <3> SUFFICES ASSUME NEW q \in Runs, NEW f \in Files, Holds(q, f)', f \notin exposed
                 PROVE  owner[f] = SessionOf[q] /\ left'[f] = lease'[q][f]
      BY <2>1 DEF LeaseBacked
    <3>1. Holds(q, f)
      BY <1>0, <2>1, <2>3 DEF TypeOK, Holds, Alive, Down, NoLease
    <3> QED BY <3>1, <2>2, <2>3 DEF IInv, LeaseBacked
  <2>5. ForceSound'
    BY <1>0, <2>1, <2>2 DEF IInv, TypeOK, ForceSound, Down
  <2>6. IdleClean'
    BY <2>1, <2>3 DEF IInv, IdleClean, Down, NoLease
  <2> QED BY <1>0, <2>4, <2>5, <2>6 DEF IInv
<1>22. ASSUME UNCHANGED vars PROVE IInv'
  BY <1>0, <1>22 DEF vars, local, timers, IInv, LeaseBacked, ForceSound, IdleClean, Holds, Alive
<1>23. ASSUME NEW r \in Runs, Acquiring(r) PROVE IInv'
  BY <1>23, <1>2, <1>3, <1>4, <1>5, <1>6, <1>7, <1>8, <1>9, <1>10, <1>11, <1>12, <1>13,
     <1>14, <1>15 DEF Acquiring
<1> QED
  BY <1>1, <1>23, <1>16, <1>17, <1>18, <1>19, <1>20, <1>21, <1>22 DEF Next

LEMMA InvCorrect == Spec => []IInv
<1>1. Init => IInv
  BY LocksAssumption DEF Init, IInv, TypeOK, NoLease, LeaseBacked, ForceSound, IdleClean,
     Holds, Alive
<1> QED BY <1>1, InvStep, PTL DEF Spec

\* A lock that has not expired is exclusive between sessions, on every file
\* whose lock no race has voided.
THEOREM ExclusiveCorrect == Spec => []Exclusive
<1>1. IInv => Exclusive
  BY DEF IInv, LeaseBacked, Exclusive
<1> QED BY <1>1, InvCorrect, PTL

\* A valid row is only taken by its session's release or in a recorded race.
THEOREM ValidLockStaysCorrect == Spec => ValidLockStays
<1> DEFINE Stays == \A f \in Files : owner[f] # NoSession /\ left[f] >= 0 /\ owner'[f] # owner[f] =>
                      f \in exposed' \/ \E r \in releasing : SessionOf[r] = owner[f]
<1>1. IInv /\ [Next]_vars => [Stays]_vars
  <2> SUFFICES ASSUME IInv, Next, NEW f \in Files,
                      owner[f] # NoSession, left[f] >= 0, owner'[f] # owner[f]
               PROVE  f \in exposed' \/ \E r \in releasing : SessionOf[r] = owner[f]
    OBVIOUS
  <2>1. TypeOK
    BY DEF IInv
  <2>2. ~Free(f) /\ ~Expired(f)
    BY <2>1 DEF Free, Expired, TypeOK
  <2>3. ASSUME NEW r \in Runs, Sweep(r) PROVE FALSE
    BY <2>2, <2>3 DEF Sweep
  <2>4. ASSUME NEW r \in Runs, Insert(r) \/ InsertThrows(r) PROVE FALSE
    BY <2>1, <2>2, <2>4 DEF Insert, InsertThrows, InsertRow, Free, rows, TypeOK
  <2>5. ASSUME NEW r \in Runs, ForceRelease(r) PROVE f \in exposed'
    <3>1. f = cur[r] /\ pc[r] = "force" /\ exposed' = exposed
      BY <2>1, <2>5 DEF ForceRelease, Goto, TypeOK
    <3> QED BY <2>2, <3>1 DEF IInv, ForceSound, Free, Expired
  <2>6. ASSUME NEW r \in Runs, Release(r) PROVE \E q \in releasing : SessionOf[q] = owner[f]
    BY <2>6 DEF Release
  <2>7. ASSUME NEW r \in Runs, Acquiring(r) PROVE f \in exposed'
    BY <2>3, <2>4, <2>5, <2>7 DEF Acquiring, Stamp, PickFile, GiveUp, SeesFree, SeesOwn,
       SeesExpired, SeesHeld, Wake, Settle, Throws
  <2> QED BY <2>6, <2>7 DEF Next, Begin, Finish, Fail, ReleaseLost, Crash, Tick
<1> QED BY <1>1, InvCorrect, PTL DEF Spec, ValidLockStays

-----------------------------------------------------------------------------
(* The leases that the rows and the runs are seen as                       *)

HolderOf(f)    == IF left[f] >= 0 THEN owner[f] ELSE NoSession
TermOf(f)      == IF owner[f] # NoSession THEN left[f] ELSE -1
BelieversOf(f) == {SessionOf[r] : r \in {q \in Runs : Holds(q, f)}}

\* Only the holder of a lease believes in it.
LEMMA BelieversHold ==
  ASSUME IInv, NEW f \in Files \ exposed
  PROVE  /\ BelieversOf(f) \subseteq {HolderOf(f)}
         /\ HolderOf(f) = NoSession => BelieversOf(f) = {}
<1>1. ASSUME NEW q \in Runs, Holds(q, f)
      PROVE  SessionOf[q] = HolderOf(f) /\ HolderOf(f) # NoSession
  BY <1>1, LocksAssumption DEF IInv, LeaseBacked, Holds, HolderOf
<1> QED
  BY <1>1 DEF BelieversOf

\* What happens to the lease of one file in a step.
Same(f)  == HolderOf(f)' = HolderOf(f) /\ TermOf(f)' = TermOf(f)
Moves(f) ==
  \/ /\ HolderOf(f) = NoSession
     /\ \E s \in Sessions : HolderOf(f)' = s /\ BelieversOf(f)' \in {{}, {s}}
     /\ TermOf(f)' \in 0..TTL
  \/ /\ HolderOf(f) # NoSession
     /\ BelieversOf(f)' = {HolderOf(f)} /\ Same(f)
  \/ BelieversOf(f)' \in {{}, BelieversOf(f)} /\ Same(f)
  \/ /\ BelieversOf(f) = {} /\ BelieversOf(f)' = {}
     /\ HolderOf(f)' = NoSession /\ TermOf(f)' = -1

LEMMA LeaseMove ==
  ASSUME exposed \subseteq exposed', \A f \in Files \ exposed' : Moves(f)
  PROVE  Lease!Next
BY DEF Moves, Same, HolderOf, TermOf, BelieversOf, Lease!Next, Lease!Move, Lease!Grant,
   Lease!Learn, Lease!Forget, Lease!GiveBack, Lease!Rest, Lease!Keeps

\* A step that leaves a lease as it is and that lets no run count on a lock
\* it did not count on: at most the last that did ends.
LEMMA NobodyNew ==
  ASSUME IInv, NEW f \in Files \ exposed, Same(f),
         \A q \in Runs : Holds(q, f)' => Holds(q, f)
  PROVE  Moves(f)
<1>1. BelieversOf(f)' \subseteq BelieversOf(f)
  BY DEF BelieversOf
<1>2. BelieversOf(f) \subseteq {HolderOf(f)}
  BY BelieversHold
<1> QED
  BY <1>1, <1>2 DEF Moves

\* Rows that have expired come and go unseen.
LEMMA RowsUnseen ==
  ASSUME IInv, NEW f \in Files, left'[f] = left[f],
         \/ owner'[f] = owner[f]
         \/ left[f] < 0
  PROVE  Same(f)
BY DEF IInv, TypeOK, Same, HolderOf, TermOf

\* A step that leaves the rows that count as they are, and the leases with
\* them, is one of the abstract specification.
LEMMA QuietMove ==
  ASSUME IInv, UNCHANGED <<left, lease, exposed>>,
         \A q \in Runs : Alive(q)' => Alive(q) \/ pc[q] = "idle",
         \A f \in Files \ exposed : owner'[f] = owner[f] \/ left[f] < 0
  PROVE  Lease!Next
<1>1. ASSUME NEW q \in Runs, NEW f \in Files, Holds(q, f)' PROVE Holds(q, f)
  BY <1>1 DEF IInv, IdleClean, Holds, NoLease
<1>2. \A f \in Files \ exposed : Same(f)
  BY RowsUnseen
<1> QED
  BY <1>1, <1>2, NobodyNew, LeaseMove

\* Filling a free row grants a lease, whether its session learns of it or
\* not; unless what the run had stamped has expired by then.
LEMMA FilledMove ==
  ASSUME IInv, LeaseBacked', NEW r \in Runs, NEW f \in Files, Free(f), InsertRow(r, f),
         \A q \in Runs : Alive(q)' <=> Alive(q),
         \/ lease' = [lease EXCEPT ![r][f] = exp[r]]
         \/ lease' = lease
  PROVE  Lease!Next
<1>1. /\ HolderOf(f) = NoSession /\ TermOf(f) = -1
      /\ owner'[f] = SessionOf[r] /\ left'[f] = exp[r] /\ exp[r] \in -1..TTL
      /\ SessionOf[r] \in Sessions /\ SessionOf[r] # NoSession
  BY LocksAssumption DEF IInv, TypeOK, Free, InsertRow, HolderOf, TermOf
<1>2. \A q \in Runs, g \in Files : g # f =>
        lease'[q][g] = lease[q][g] /\ owner'[g] = owner[g] /\ left'[g] = left[g]
  <2>1. /\ owner \in [Files -> Sessions \cup {NoSession}] /\ left \in [Files -> -1..TTL]
        /\ lease \in [Runs -> [Files -> NoLease..TTL]]
    BY DEF IInv, TypeOK
  <2>2. owner' = [owner EXCEPT ![f] = SessionOf[r]] /\ left' = [left EXCEPT ![f] = exp[r]]
    BY DEF InsertRow
  <2> QED
    BY <2>1, <2>2
<1>3. exposed \subseteq exposed'
  BY DEF InsertRow
<1>4. ASSUME NEW g \in Files \ exposed', g # f PROVE Moves(g)
  <2>1. \A q \in Runs : Holds(q, g)' => Holds(q, g)
    BY <1>2, <1>4 DEF Holds
  <2>2. Same(g)
    BY <1>2, <1>4, RowsUnseen
  <2> QED
    BY <1>3, <1>4, <2>1, <2>2, NobodyNew
<1>5. f \notin exposed' => Moves(f)
  <2> SUFFICES ASSUME f \notin exposed' PROVE Moves(f)
    OBVIOUS
  <2>1. BelieversOf(f)' \subseteq {HolderOf(f)'} /\ (HolderOf(f)' = NoSession => BelieversOf(f)' = {})
    <3>1. ASSUME NEW q \in Runs, Holds(q, f)'
          PROVE  SessionOf[q] = HolderOf(f)' /\ HolderOf(f)' # NoSession
      BY <3>1, LocksAssumption DEF LeaseBacked, Holds, HolderOf
    <3> QED
      BY <3>1 DEF BelieversOf
  <2>2. BelieversOf(f) = {}
    BY <1>1, <1>3, BelieversHold
  <2>3. CASE exp[r] >= 0
    <3>1. HolderOf(f)' = SessionOf[r] /\ TermOf(f)' = exp[r]
      BY <1>1, <2>3 DEF HolderOf, TermOf
    <3>2. BelieversOf(f)' \in {{}, {SessionOf[r]}} /\ exp[r] \in 0..TTL
      BY <1>1, <2>1, <2>3, <3>1
    <3> QED
      BY <1>1, <3>1, <3>2 DEF Moves
  <2>4. CASE exp[r] < 0
    <3>1. HolderOf(f)' = NoSession /\ TermOf(f)' = -1
      BY <1>1, <2>4 DEF HolderOf, TermOf
    <3> QED
      BY <1>1, <2>1, <2>2, <3>1 DEF Moves, Same
  <2> QED
    BY <1>1, <2>3, <2>4
<1> QED
  BY <1>3, <1>4, <1>5, LeaseMove

\* A run that finds its session's row learns of the lease, unless it expired.
LEMMA OwnMove == ASSUME IInv, LeaseBacked', NEW r \in Runs, SeesOwn(r) PROVE Lease!Next
<1>1. PICK f \in Files : f = cur[r] /\ owner[f] = SessionOf[r] /\ owner[f] # NoSession
  <2>1. pc[r] = "select" /\ owner[cur[r]] = SessionOf[r]
    BY DEF SeesOwn, Goto
  <2>2. cur[r] \in Files
    BY <2>1 DEF IInv, TypeOK
  <2>3. SessionOf[r] # NoSession
    BY LocksAssumption
  <2> QED
    BY <2>1, <2>2, <2>3
<1>2. /\ lease' = [lease EXCEPT ![r][f] = left[f]]
      /\ pc' = [pc EXCEPT ![r] = "next"] /\ pc[r] = "select"
      /\ UNCHANGED <<owner, left, exposed>>
  BY <1>1 DEF SeesOwn, Goto
<1>3. \A g \in Files : Same(g)
  BY <1>2, RowsUnseen
<1>4. \A q \in Runs : Alive(q)' <=> Alive(q)
  BY <1>2 DEF IInv, TypeOK, Alive, Ended
<1>5. \A q \in Runs, g \in Files : ~(q = r /\ g = f) => lease'[q][g] = lease[q][g]
  BY <1>1, <1>2 DEF IInv, TypeOK
<1>6. lease'[r][f] = left[f] /\ Alive(r) /\ left[f] \in -1..TTL
  BY <1>1, <1>2 DEF IInv, TypeOK, Alive, Ended
<1>7. ASSUME NEW g \in Files \ exposed, g # f \/ left[f] < 0 PROVE Moves(g)
  BY <1>3, <1>4, <1>5, <1>6, <1>7, NobodyNew DEF Holds
<1>8. ASSUME f \notin exposed, left[f] >= 0 PROVE Moves(f)
  <2>1. HolderOf(f) = SessionOf[r] /\ HolderOf(f)' = SessionOf[r]
    BY <1>1, <1>2, <1>8 DEF HolderOf
  <2>2. Holds(r, f)'
    BY <1>4, <1>6, <1>8 DEF Holds
  <2>3. \A q \in Runs : Holds(q, f)' => SessionOf[q] = SessionOf[r]
    BY <1>1, <1>2, <1>8 DEF LeaseBacked
  <2>4. BelieversOf(f)' = {HolderOf(f)}
    BY <2>1, <2>2, <2>3 DEF BelieversOf
  <2> QED
    BY <1>1, <1>3, <2>1, <2>4 DEF Moves
<1>9. left[f] < 0 \/ left[f] >= 0
  BY <1>6
<1> QED
  BY <1>1, <1>2, <1>7, <1>8, <1>9, LeaseMove

\* A release gives back the leases of its session that no run counts on, and
\* voids the others.
LEMMA ReleaseMove == ASSUME IInv, NEW r \in Runs, Release(r) PROVE Lease!Next
<1>1. UNCHANGED <<pc, left, lease>> /\ exposed \subseteq exposed'
  BY DEF Release, timers
<1>2. \A f \in Files : owner'[f] = IF owner[f] = SessionOf[r] THEN NoSession ELSE owner[f]
  BY DEF Release
<1>3. \A f \in Files, q \in Runs :
        owner[f] = SessionOf[r] /\ SessionOf[q] = SessionOf[r] /\ Holds(q, f) => f \in exposed'
  BY DEF Release
<1>4. \A q \in Runs, f \in Files : Holds(q, f)' <=> Holds(q, f)
  BY <1>1 DEF Holds, Alive
<1>5. ASSUME NEW f \in Files \ exposed', owner[f] # SessionOf[r] PROVE Moves(f)
  BY <1>1, <1>2, <1>4, <1>5, NobodyNew, RowsUnseen
<1>6. ASSUME NEW f \in Files \ exposed', owner[f] = SessionOf[r] PROVE Moves(f)
  <2>1. \A q \in Runs : ~Holds(q, f)
    BY <1>1, <1>3, <1>6 DEF IInv, LeaseBacked
  <2>2. BelieversOf(f) = {} /\ BelieversOf(f)' = {}
    BY <1>4, <2>1 DEF BelieversOf
  <2>3. HolderOf(f)' = NoSession /\ TermOf(f)' = -1
    BY <1>2, <1>6 DEF HolderOf, TermOf
  <2> QED
    BY <2>2, <2>3 DEF Moves
<1> QED
  BY <1>1, <1>5, <1>6, LeaseMove

\* The clock runs for rows and runs alike.
LEMMA TickMove == ASSUME IInv, Tick PROVE Lease!Next
<1>1. UNCHANGED <<owner, pc, exposed>>
  BY DEF Tick
<1>2. \A f \in Files : left[f] \in -1..TTL /\ left'[f] = Down(left[f], -1)
  BY DEF Tick, IInv, TypeOK
<1>3. \A q \in Runs, f \in Files :
        lease[q][f] \in NoLease..TTL /\ lease'[q][f] = Down(lease[q][f], -1)
  BY DEF Tick, IInv, TypeOK
<1>4. ASSUME NEW q \in Runs, NEW f \in Files
      PROVE  Holds(q, f)' <=> Holds(q, f) /\ lease[q][f] > 0
  <2>1. lease'[q][f] >= 0 <=> lease[q][f] > 0
    BY <1>3 DEF Down, NoLease
  <2>2. lease[q][f] > 0 => lease[q][f] >= 0
    BY <1>3 DEF NoLease
  <2> QED
    BY <1>1, <2>1, <2>2 DEF Holds, Alive
<1>5. ASSUME NEW f \in Files \ exposed
      PROVE  \/ /\ TermOf(f) = 0 /\ TermOf(f)' = -1
                /\ HolderOf(f)' = NoSession /\ BelieversOf(f)' = {}
             \/ /\ TermOf(f) > 0 /\ TermOf(f)' = TermOf(f) - 1
                /\ HolderOf(f)' = HolderOf(f) /\ BelieversOf(f)' = BelieversOf(f)
             \/ /\ TermOf(f) < 0 /\ Same(f) /\ BelieversOf(f)' = BelieversOf(f)
  <2>1. \A q \in Runs : Holds(q, f) => owner[f] = SessionOf[q] /\ left[f] = lease[q][f]
    BY DEF IInv, LeaseBacked
  <2>2. CASE left[f] > 0 \/ (owner[f] = NoSession /\ left[f] <= 0) \/ left[f] < 0
    <3>1. \A q \in Runs : Holds(q, f)' <=> Holds(q, f)
      BY <1>2, <1>4, <2>1, <2>2, LocksAssumption DEF Holds
    <3>2. BelieversOf(f)' = BelieversOf(f)
      BY <3>1 DEF BelieversOf
    <3> QED
      BY <1>1, <1>2, <2>2, <3>2 DEF HolderOf, TermOf, Same, Down
  <2>3. CASE owner[f] # NoSession /\ left[f] = 0
    <3>1. \A q \in Runs : ~Holds(q, f)'
      BY <1>4, <2>1, <2>3
    <3>2. BelieversOf(f)' = {}
      BY <3>1 DEF BelieversOf
    <3> QED
      BY <1>1, <1>2, <2>3, <3>2 DEF HolderOf, TermOf, Down
  <2> QED
    BY <1>2, <2>2, <2>3
<1>6. Lease!Tick
  BY <1>1, <1>5 DEF Lease!Tick, Lease!Expire, Lease!RunDown, Lease!Rest, Lease!Keeps,
     HolderOf, TermOf, BelieversOf, Same
<1> QED
  BY <1>6 DEF Lease!Next

\* Every step is one of the abstract specification, or one it does not see.
LEMMA LeaseStep == ASSUME IInv, [Next]_vars PROVE [Lease!Next]_(Lease!vars)
<1>1. IInv' /\ LeaseBacked'
  BY InvStep DEF IInv
<1>2. TypeOK
  BY DEF IInv
<1>3. ASSUME NEW r \in Runs, NEW to, pc' = [pc EXCEPT ![r] = to],
             pc[r] \notin Ended \/ to \in Ended \cup {"idle"},
             UNCHANGED <<left, lease, exposed>>,
             \A f \in Files \ exposed : owner'[f] = owner[f] \/ left[f] < 0
      PROVE  Lease!Next
  BY <1>2, <1>3, QuietMove DEF TypeOK, Alive
<1>4. ASSUME NEW r \in Runs, Sweep(r) PROVE Lease!Next
  <2>1. \A f \in Files : owner'[f] = owner[f] \/ left[f] < 0
    BY <1>4 DEF Sweep, Expired
  <2> QED
    BY <1>3, <1>4, <2>1 DEF Sweep, Goto, Ended, timers
<1>5. ASSUME NEW r \in Runs, ForceRelease(r) PROVE Lease!Next
  <2>1. \A f \in Files : owner'[f] = owner[f] \/ f = cur[r]
    BY <1>2, <1>5 DEF TypeOK, ForceRelease
  <2>2. cur[r] \in exposed \/ owner[cur[r]] = NoSession \/ left[cur[r]] < 0
    BY <1>5 DEF IInv, ForceSound, ForceRelease, Goto
  <2>3. \A f \in Files \ exposed : owner'[f] = owner[f] \/ left[f] < 0
    BY <1>2, <1>5, <2>1, <2>2 DEF TypeOK, ForceRelease
  <2> QED
    BY <1>3, <1>5, <2>3 DEF ForceRelease, Goto, Ended
<1>6. ASSUME NEW r \in Runs, Insert(r) \/ InsertThrows(r) PROVE Lease!Next
  <2>1. PICK f \in Files : f = cur[r]
    BY <1>2, <1>6 DEF TypeOK, Insert, InsertThrows, Goto
  <2>2. PICK to \in {"next", "select"} : pc[r] = "try" /\ pc' = [pc EXCEPT ![r] = to]
    BY <1>6 DEF Insert, InsertThrows, Goto
  <2>3. \A q \in Runs : Alive(q)' <=> Alive(q)
    BY <1>2, <2>2 DEF TypeOK, Alive, Ended
  <2>4. \/ UNCHANGED <<owner, left, lease, exposed>>
        \/ /\ Free(f) /\ InsertRow(r, f)
           /\ lease' = [lease EXCEPT ![r][f] = exp[r]] \/ lease' = lease
    BY <1>6, <2>1 DEF Insert, InsertThrows, rows
  <2> QED
    BY <1>1, <2>3, <2>4, QuietMove, FilledMove
<1>7. ASSUME NEW r \in Runs, Settle(r) \/ Throws(r) PROVE Lease!Next
  <2>1. PICK from \in {"next", "sweep", "select", "force"}, to \in {"editing", "failed"} :
          Goto(r, from, to)
    BY <1>7 DEF Settle, Throws
  <2> QED
    BY <1>3, <1>7, <2>1 DEF Settle, Throws, Goto, Ended, timers
<1>8. ASSUME NEW r \in Runs, Acquiring(r) PROVE Lease!Next
  <2>1. ASSUME \/ Stamp(r) \/ PickFile(r) \/ GiveUp(r) \/ SeesFree(r) \/ SeesExpired(r)
               \/ SeesHeld(r) \/ Wake(r)
        PROVE  Lease!Next
    BY <1>3, <2>1 DEF Stamp, PickFile, GiveUp, SeesFree, SeesExpired, SeesHeld, Wake,
       Goto, Ended, timers
  <2>2. ASSUME SeesOwn(r) PROVE Lease!Next
    BY <1>1, <2>2, OwnMove
  <2> QED
    BY <1>4, <1>5, <1>6, <1>7, <1>8, <2>1, <2>2 DEF Acquiring
<1>9. ASSUME NEW r \in Runs, Begin(r) \/ Finish(r) \/ Fail(r) PROVE Lease!Next
  BY <1>3, <1>9 DEF Begin, Finish, Fail, Goto, Ended, timers
<1>10. ASSUME NEW r \in Runs, Crash(r) PROVE Lease!Next
  BY <1>3, <1>10 DEF Crash, Ended, timers
<1>11. ASSUME NEW r \in Runs, Release(r) PROVE Lease!Next
  BY <1>11, ReleaseMove
<1>12. ASSUME NEW r \in Runs, ReleaseLost(r) PROVE Lease!Next
  BY <1>12, QuietMove DEF ReleaseLost, Alive, timers
<1>13. ASSUME Tick PROVE Lease!Next
  BY <1>13, TickMove
<1>14. CASE UNCHANGED vars
  BY <1>14, QuietMove DEF vars, Alive, timers
<1> QED
  BY <1>8, <1>9, <1>10, <1>11, <1>12, <1>13, <1>14 DEF Next

\* The rows and queries implement leases: a file is leased to one session at
\* a time, nobody else believes to have it, and a lease somebody counts on ends
\* with its term and in no other way, wherever no race has voided the lock.
THEOREM LocksImplementLeases == Spec => LeaseSpec
<1>1. Init => Lease!Init
  BY DEF Init, Lease!Init, Holds, Alive
<1>2. IInv /\ [Next]_vars => [Lease!Next]_(Lease!vars)
  BY LeaseStep
<1> QED
  BY <1>1, <1>2, InvCorrect, PTL DEF Spec, LeaseSpec, Lease!Spec

-----------------------------------------------------------------------------
(* Sessions with one run                                                   *)

OneRunEach == \A r, q \in Runs : SessionOf[r] = SessionOf[q] => r = q

\* Only a run that has failed has a release on its way.
ReleasersFailed == \A r \in releasing : pc[r] = "failed"

LEMMA ReleasersStep == TypeOK /\ ReleasersFailed /\ [Next]_vars => ReleasersFailed'
<1> SUFFICES ASSUME TypeOK, ReleasersFailed, [Next]_vars PROVE ReleasersFailed'
  OBVIOUS
<1> USE DEF ReleasersFailed
<1>1. ASSUME NEW r \in Runs, NEW from, from # "failed", NEW to, Goto(r, from, to),
             releasing' = releasing \/ (to = "failed" /\ releasing' = releasing \cup {r})
      PROVE  ReleasersFailed'
  BY <1>1 DEF Goto, TypeOK
<1>2. ASSUME NEW r \in Runs, Acquiring(r) PROVE ReleasersFailed'
  <2>1. CASE Settle(r)
    BY <1>1, <2>1 DEF Settle
  <2>2. CASE Throws(r)
    BY <1>1, <2>2 DEF Throws
  <2>3. CASE Insert(r) \/ InsertThrows(r) \/ PickFile(r) \/ GiveUp(r)
    BY <1>1, <2>3 DEF Insert, InsertThrows, PickFile, GiveUp
  <2>4. CASE Sweep(r) \/ Stamp(r) \/ SeesFree(r) \/ SeesOwn(r)
    BY <1>1, <2>4 DEF Sweep, Stamp, SeesFree, SeesOwn
  <2>5. CASE SeesExpired(r) \/ SeesHeld(r) \/ ForceRelease(r) \/ Wake(r)
    BY <1>1, <2>5 DEF SeesExpired, SeesHeld, ForceRelease, Wake
  <2> QED
    BY <1>2, <2>1, <2>2, <2>3, <2>4, <2>5 DEF Acquiring
<1>3. ASSUME NEW r \in Runs, Begin(r) \/ Finish(r) \/ Fail(r) PROVE ReleasersFailed'
  BY <1>1, <1>3 DEF Begin, Finish, Fail
<1>4. ASSUME NEW r \in Runs, Crash(r) PROVE ReleasersFailed'
  BY <1>4 DEF Crash, Alive, Ended, TypeOK
<1>5. ASSUME NEW r \in Runs, Release(r) \/ ReleaseLost(r) PROVE ReleasersFailed'
  <2>1. releasing' \subseteq releasing /\ pc' = pc
    BY <1>5 DEF Release, ReleaseLost
  <2> QED
    BY <2>1
<1>6. CASE Tick \/ UNCHANGED vars
  BY <1>6 DEF Tick, vars
<1> QED
  BY <1>2, <1>3, <1>4, <1>5, <1>6 DEF Next

\* If no session ever had two runs, a late release would take nobody's lock:
\* only an INSERT into another run's force-release window voids one.
THEOREM OnlyTheWindowVoids ==
  OneRunEach /\ Spec => [][\A f \in exposed' \ exposed : InForceWindow(f)]_vars
<1> DEFINE Windowed == \A f \in exposed' \ exposed : InForceWindow(f)
<1>1. Init => ReleasersFailed
  <2>1. Init => releasing = {}
    BY DEF Init
  <2> QED
    BY <2>1 DEF ReleasersFailed
<1>2. OneRunEach => OneRunEach'
  BY DEF OneRunEach
<1>3. ASSUME OneRunEach, TypeOK, ReleasersFailed, Next PROVE Windowed
  <2>1. ASSUME NEW r \in Runs, NEW f, InsertRow(r, f) PROVE Windowed
    BY <2>1 DEF InsertRow
  <2>2. ASSUME NEW r \in Runs, Release(r) PROVE Windowed
    <3>1. \A q \in Runs, f \in Files : SessionOf[q] = SessionOf[r] => ~Holds(q, f)
      BY <1>3, <2>2 DEF Release, OneRunEach, ReleasersFailed, Holds, Alive, Ended
    <3> QED
      BY <2>2, <3>1 DEF Release
  <2>3. ASSUME NEW r \in Runs, Insert(r) \/ InsertThrows(r) PROVE Windowed
    <3>1. exposed' = exposed \/ InsertRow(r, cur[r])
      BY <2>3 DEF Insert, InsertThrows
    <3> QED
      BY <2>1, <3>1
  <2>4. ASSUME NEW r \in Runs, Acquiring(r) PROVE Windowed
    BY <2>3, <2>4 DEF Acquiring, Sweep, Stamp, PickFile, GiveUp, SeesFree, SeesOwn,
       SeesExpired, SeesHeld, ForceRelease, Wake, Settle, Throws
  <2> QED
    BY <1>3, <2>2, <2>4 DEF Next, Begin, Finish, Fail, ReleaseLost, Crash, Tick
<1>4. OneRunEach /\ TypeOK /\ ReleasersFailed /\ [Next]_vars => [Windowed]_vars
  BY <1>3
<1> QED
  BY <1>1, <1>2, <1>4, ReleasersStep, TypeCorrect, PTL DEF Spec
=============================================================================
