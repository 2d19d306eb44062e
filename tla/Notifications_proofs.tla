------------------------ MODULE Notifications_proofs ------------------------
(***************************************************************************)
(* What the queue keeps, for any number of rows, passes, engines, crashes  *)
(* and revivals, every batch, quota and number of attempts.                *)
(*                                                                         *)
(* A pass works on rows as it selected them.  Of a row that only one pass  *)
(* has, the status follows from where that pass is; of any row, the counts *)
(* that passes carry along are behind the failures that were counted, by   *)
(* one more from the moment a delivery has failed.                         *)
(***************************************************************************)
EXTENDS Notifications, FiniteSetTheorems, TLAPS

AtWork == {"load", "send", "mark"}

\* A row without an item has no status, and no pass has it.
RowsExist ==
  /\ \A i \in Rows : item[i] = None => status[i] = "none"
  /\ \A i \in died : item[i] # None
  /\ \A p \in Passes, i \in Rows : i \in todo[p] \cup hand[p] => item[i] # None

\* The queue's pass is at one row at a time; one that has ended has none left.
OneAtATime ==
  /\ \A f \in Flushes : pc[f] \in AtWork \cup {"log"} => \E i \in Rows : hand[f] = {i}
  /\ \A p \in Passes : pc[p] = "idle" => todo[p] = {}

\* Counts are behind failures; a pass whose delivery failed has seen one more.
Counted ==
  /\ DeadWasTried
  /\ \A p \in Passes, i \in Rows :
       /\ seen[p][i] <= failures[i]
       /\ pc[p] = "mark" /\ ~ok[p] /\ i \in hand[p] =>
            failures[i] = MaxAttempts \/ seen[p][i] < failures[i]

Has(p, i) == i \in todo[p] \/ (i \in hand[p] /\ pc[p] \in AtWork)

\* Of a row that no two passes had at a time: what its status says of who has
\* it.  One that an administrator put back is pending whoever has it.
Owned(i) ==
  /\ \A p, q \in Passes : Has(p, i) /\ Has(q, i) => p = q
  /\ \A p \in Passes : pc[p] \in AtWork => i \notin todo[p] \cap hand[p]
  /\ \A f \in Flushes :
       /\ i \in todo[f] => status[i] = "pending"
       /\ i \in hand[f] /\ pc[f] \in AtWork =>
            status[i] = "processing" \/ (i \in revived /\ status[i] = "pending")
  /\ \A d \in Digests : Has(d, i) => status[i] = "digest"
  /\ i \in stuck \ revived => status[i] = "processing" /\ \A p \in Passes : ~Has(p, i)

Marking(p, i)     == i \in hand[p] /\ pc[p] = "mark"
AboutToMark(p, i) == Marking(p, i) /\ ok[p]

\* A row whose delivery was confirmed is recorded as sent, about to be, or lost
\* its pass.  One that may still be delivered was tried as often as its count
\* says, or once more by the pass that is about to write this; who has it saw
\* that count.
Delivered(i) ==
  /\ got[i] <= 1 /\ got[i] + lost[i] <= MaxAttempts
  /\ got[i] = 1 => status[i] = "sent" \/ i \in stuck \/ \E p \in Passes : AboutToMark(p, i)
  /\ status[i] \notin Final /\ i \notin stuck =>
       /\ attempts[i] < MaxAttempts
       /\ \/ lost[i] <= attempts[i]
          \/ lost[i] = attempts[i] + 1 /\ \E p \in Passes : Marking(p, i) /\ ~ok[p]
  /\ \A p \in Passes : Has(p, i) => seen[p][i] = attempts[i]

Clean == Rows \ (contested \cup torn \cup revived)

RowsKept == (\A i \in Rows \ contested : Owned(i)) /\ \A i \in Clean : Delivered(i)

Took(p) == todo[p] \cup hand[p]

\* A row that the digests took does not come back to the queue, and none that
\* the queue took goes to them.
KindsApart ==
  \A i \in Rows :
    /\ \A f \in Flushes : i \in Took(f) => status[i] \notin {"none", "digest"}
    /\ \A d \in Digests : i \in Took(d) => status[i] \in {"digest", "sent", "failed"}
    /\ \A f \in Flushes, d \in Digests : i \notin Took(f) \cap Took(d)
    /\ i \in died => status[i] \notin {"none", "digest"} /\ \A d \in Digests : i \notin Took(d)

Base == TypeOK /\ RowsExist /\ OneAtATime
IInv == Base /\ NothingForgotten /\ Counted /\ KindsApart /\ RowsKept

-----------------------------------------------------------------------------
LEMMA PairParts ==
  ASSUME NEW pair \in Pairs
  PROVE  pair[1] \in Alerts /\ pair[2] \in Channels /\ pair # None
BY NotificationsAssumption DEF Pairs

LEMMA VacantIs == ASSUME NEW i \in Vacant PROVE i \in Rows /\ item[i] = None
<1>1. CASE \E j \in Rows : item[j] = None
  BY <1>1 DEF Vacant
<1>2. CASE ~ \E j \in Rows : item[j] = None
  BY <1>2 DEF Vacant
<1> QED
  BY <1>1, <1>2

LEMMA InitType == Init => TypeOK
<1> SUFFICES ASSUME Init PROVE TypeOK
  OBVIOUS
<1>1. 0 \in 0..MaxAttempts /\ 0 \in 0..Quota /\ 0 \in 0..MaxCrashes /\ 0 \in 0..MaxRevivals
  BY NotificationsAssumption
<1>2. /\ item \in [Rows -> Pairs \cup {None}] /\ attempts \in [Rows -> 0..MaxAttempts]
      /\ status \in [Rows -> {"none", "pending", "digest", "processing"} \cup Final]
  BY <1>1 DEF Init
<1>3. /\ pc \in [Passes -> {"idle", "each", "load", "send", "mark", "log"}]
      /\ todo \in [Passes -> SUBSET Rows] /\ hand \in [Passes -> SUBSET Rows]
      /\ ok \in [Passes -> BOOLEAN] /\ aim \in [Engines -> Pairs \cup {None}]
  BY DEF Init
<1>4. seen \in [Passes -> [Rows -> 0..MaxAttempts]]
  BY <1>1 DEF Init
<1>5. /\ got \in [Rows -> 0..2] /\ lost \in [Rows -> 0..MaxAttempts]
      /\ failures \in [Rows -> 0..MaxAttempts]
  BY <1>1 DEF Init
<1> QED
  BY <1>1, <1>2, <1>3, <1>4, <1>5 DEF Init, TypeOK

LEMMA TypeStep == TypeOK /\ RowsExist /\ [Next]_vars => TypeOK'
<1> SUFFICES ASSUME TypeOK, RowsExist, [Next]_vars PROVE TypeOK'
  OBVIOUS
<1> USE NotificationsAssumption DEF TypeOK, Goto, SetAll, Free, Charge, Final, Passes, Engines,
      queue, world, pass, bounds, history
<1>1. ASSUME NEW i \in Rows, NEW pair \in Pairs, NEW v \in {"pending", "digest"}, AddRow(i, pair, v)
      PROVE  /\ item' \in [Rows -> Pairs \cup {None}] /\ due' \subseteq Rows
             /\ status' \in [Rows -> {"none", "pending", "digest", "processing"} \cup Final]
             /\ attempts' \in [Rows -> 0..MaxAttempts]
  BY <1>1 DEF AddRow
<1>2. ASSUME NEW i \in Rows, NEW a \in Alerts, NEW c \in Channels, Enqueue(i, a, c)
      PROVE  TypeOK'
  <2>1. <<a, c>> \in Pairs
    BY DEF Pairs
  <2>2. PICK v \in {"pending", "digest"} : AddRow(i, <<a, c>>, v)
    BY <1>2 DEF Enqueue
  <2>3. UNCHANGED <<world, pass, aim, bounds, history>>
    BY <1>2 DEF Enqueue
  <2> QED
    BY <2>1, <2>2, <2>3, <1>1
<1>3. ASSUME NEW e \in Engines, Look(e) PROVE TypeOK'
  <2>1. Targets \subseteq Pairs
    BY DEF Pairs
  <2> QED
    BY <1>3, <2>1 DEF Look
<1>4. ASSUME NEW e \in Engines, Escalate(e) PROVE TypeOK'
  <2>1. aim[e] \in Pairs
    BY <1>4 DEF Escalate
  <2>2. PICK i \in Rows : AddRow(i, aim[e], "pending")
    BY <1>4 DEF Escalate
  <2>3. aim' \in [Engines -> Pairs \cup {None}] /\ UNCHANGED <<world, pass, bounds, history>>
    BY <1>4 DEF Escalate
  <2> QED
    BY <2>1, <2>2, <2>3, <1>1
<1>5. ASSUME NEW p \in Passes, NEW S \in SUBSET Rows, Goto(p, "idle", "each"), Select(p, S)
      PROVE  TypeOK'
  BY <1>5 DEF Select
<1>6. ASSUME NEW f \in Flushes, Fetch(f) PROVE TypeOK'
  <2>1. PICK S \in FirstOf(Ready, Batch) : Select(f, S)
    BY <1>6 DEF Fetch
  <2>2. S \subseteq Rows
    BY DEF FirstOf, Ready
  <2> QED
    BY <1>5, <1>6, <2>1, <2>2 DEF Fetch
<1>7. ASSUME NEW f \in Flushes, Take(f) PROVE TypeOK'
  BY <1>7 DEF Take
<1>8. ASSUME NEW f \in Flushes, Decline(f) \/ Postpone(f) PROVE TypeOK'
  <2>1. CASE Decline(f)
    BY <2>1 DEF Decline
  <2>2. CASE Postpone(f)
    <3>1. PICK i \in Rows : SetAll({i}, "pending")
      BY <2>2 DEF Postpone
    <3>2. spent' \in 0..Quota /\ due' \subseteq Rows
      BY <2>2 DEF Postpone
    <3> QED
      BY <2>2, <3>1, <3>2 DEF Postpone
  <2> QED
    BY <1>8, <2>1, <2>2
<1>9. ASSUME NEW f \in Flushes, Prepare(f) PROVE TypeOK'
  <2>1. PICK i \in Rows : item[i] \in Pairs /\ log' = log \cup {item[i]}
    BY <1>9 DEF Prepare, IsEmail
  <2>2. spent' \in 0..Quota
    BY <1>9 DEF Prepare
  <2> QED
    BY <1>9, <2>1, <2>2 DEF Prepare
<1>10. ASSUME NEW p \in Passes, NEW most \in Nat, NEW count \in [Rows -> 0..most]
       PROVE  CountFor(p, count, most) \in [Rows -> 0..most]
  BY DEF CountFor
<1>11. ASSUME NEW p \in Passes, Send(p) \/ SendGroup(p) PROVE TypeOK'
  <2>1. pc' = [pc EXCEPT ![p] = "mark"]
        /\ UNCHANGED <<queue, world, todo, hand, seen, aim, bounds, contested, stuck, torn, died, revived>>
    BY <1>11 DEF Send, SendGroup
  <2>2. Answered(p)
    BY <1>11 DEF Send, SendGroup
  <2>3. /\ CountFor(p, got, 2) \in [Rows -> 0..2]
        /\ CountFor(p, lost, MaxAttempts) \in [Rows -> 0..MaxAttempts]
        /\ CountFor(p, failures, MaxAttempts) \in [Rows -> 0..MaxAttempts]
    BY <1>10
  <2>4. /\ ok' \in [Passes -> BOOLEAN] /\ got' \in [Rows -> 0..2]
        /\ lost' \in [Rows -> 0..MaxAttempts] /\ failures' \in [Rows -> 0..MaxAttempts]
    <3>1. ok' = [ok EXCEPT ![p] = TRUE] \/ ok' = [ok EXCEPT ![p] = FALSE]
      BY <2>2 DEF Answered
    <3>2. ok' \in [Passes -> BOOLEAN]
      BY <3>1
    <3> QED
      BY <2>2, <2>3, <3>2 DEF Answered
  <2> QED
    BY <2>1, <2>4
<1>12. ASSUME NEW f \in Flushes, Marked(f)
       PROVE  /\ pc'   \in [Passes -> {"idle", "each", "load", "send", "mark", "log"}]
              /\ hand' \in [Passes -> SUBSET Rows]
              /\ seen' \in [Passes -> [Rows -> 0..MaxAttempts]]
              /\ ok'   \in [Passes -> BOOLEAN]
  <2>1. CASE Goto(f, "mark", "each") /\ Free(f)
    BY <2>1
  <2>2. CASE Goto(f, "mark", "log") /\ UNCHANGED <<hand, seen, ok>>
    BY <2>2
  <2> QED
    BY <1>12, <2>1, <2>2 DEF Marked
<1>13. ASSUME NEW f \in Flushes, MarkSent(f) PROVE TypeOK'
  BY <1>12, <1>13 DEF MarkSent
<1>14. ASSUME NEW f \in Flushes, MarkRetry(f) PROVE TypeOK'
  <2>1. attempts' \in [Rows -> 0..MaxAttempts]
    BY <1>14 DEF MarkRetry
  <2> QED
    BY <1>12, <1>14, <2>1 DEF MarkRetry
<1>15. ASSUME NEW f \in Flushes, MarkDead(f) PROVE TypeOK'
  BY <1>12, <1>15 DEF MarkDead
<1>16. ASSUME NEW f \in Flushes, Record(f) \/ EndFlush(f) PROVE TypeOK'
  <2>1. CASE Record(f)
    <3>1. {item[i] : i \in hand[f]} \subseteq Pairs
      BY DEF RowsExist
    <3> QED
      BY <2>1, <3>1 DEF Record
  <2>2. CASE EndFlush(f)
    BY <2>2 DEF EndFlush
  <2> QED
    BY <1>16, <2>1, <2>2
<1>17. ASSUME NEW d \in Digests, FetchDigests(d) PROVE TypeOK'
  <2>1. PICK S \in SUBSET Rows : Select(d, S)
    BY <1>17 DEF FetchDigests, FirstOf
  <2> QED
    BY <1>5, <1>17, <2>1 DEF FetchDigests
<1>18. ASSUME NEW d \in Digests, MarkGroup(d) \/ EndDigests(d) PROVE TypeOK'
  <2>1. CASE MarkGroup(d)
    BY <2>1 DEF MarkGroup
  <2>2. CASE EndDigests(d)
    BY <2>2 DEF EndDigests
  <2> QED
    BY <1>18, <2>1, <2>2
<1>19. ASSUME NEW d \in Digests, NEW c \in Channels, DeclineGroup(d, c) \/ PostponeGroup(d, c)
       PROVE  TypeOK'
  <2>1. todo' \in [Passes -> SUBSET Rows] /\ pc' = pc
    BY <1>19 DEF DeclineGroup, PostponeGroup, TakeGroup
  <2>2. CASE DeclineGroup(d, c)
    BY <2>1, <2>2 DEF DeclineGroup
  <2>3. CASE PostponeGroup(d, c)
    BY <2>1, <2>3 DEF PostponeGroup
  <2> QED
    BY <1>19, <2>2, <2>3
<1>20. ASSUME NEW d \in Digests, NEW c \in Channels, PrepareGroup(d, c) PROVE TypeOK'
  <2>1. Group(d, c) \subseteq todo[d]
    BY DEF Group
  <2>2. PICK i \in Group(d, c) : log' = log \cup {item[i]}
    BY <1>20 DEF PrepareGroup
  <2>3. item[i] \in Pairs
    BY <2>1, <2>2 DEF RowsExist
  <2> QED
    BY <1>20, <2>1, <2>2, <2>3 DEF PrepareGroup, TakeGroup
<1>21. ASSUME NEW p \in Passes, Crash(p) PROVE TypeOK'
  BY <1>21 DEF Crash
<1>22. ASSUME NEW i \in Rows, Revive(i) \/ RetryDue(i) PROVE TypeOK'
  BY <1>22 DEF Revive, RetryDue
<1>23. CASE (\E c \in Channels : TurnOff(c)) \/ (\E a \in Alerts : Handle(a)) \/ WindowEnds
  BY <1>23 DEF TurnOff, Handle, WindowEnds
<1>24. CASE UNCHANGED vars
  BY <1>24 DEF vars
<1> HIDE DEF TypeOK, Goto, SetAll, Free, Charge, Final, queue, world, pass, bounds, history
<1> QED
  BY <1>2, <1>3, <1>4, <1>6, <1>7, <1>8, <1>9, <1>11, <1>13, <1>14, <1>15, <1>16, <1>17, <1>18,
     <1>19, <1>20, <1>21, <1>22, <1>23, <1>24 DEF Next, Flush, Digest

LEMMA InitBase == Init => Base
<1>1. Init => RowsExist /\ OneAtATime
  BY DEF Init, RowsExist, OneAtATime, AtWork, Passes
<1> QED
  BY <1>1, InitType DEF Base

\* Actions that write a status write it in rows that the pass has.
LEMMA RowsStep == Base /\ TypeOK' /\ [Next]_vars => RowsExist'
<1> SUFFICES ASSUME TypeOK, RowsExist, OneAtATime, TypeOK', [Next]_vars
             PROVE  RowsExist'
  BY DEF Base
<1> USE NotificationsAssumption DEF RowsExist, Goto, SetAll, Free, Passes, Engines, queue, pass, history
<1>1. ASSUME NEW i \in Rows, NEW pair \in Pairs, NEW v, AddRow(i, pair, v), UNCHANGED <<todo, hand, died>>
      PROVE  RowsExist'
  <2>1. pair # None
    BY PairParts
  <2> QED
    BY <1>1, <2>1 DEF AddRow, TypeOK
<1>2. ASSUME NEW i \in Rows, NEW a \in Alerts, NEW c \in Channels, Enqueue(i, a, c)
      PROVE  RowsExist'
  <2>1. <<a, c>> \in Pairs
    BY DEF Pairs
  <2> QED
    BY <1>1, <1>2, <2>1 DEF Enqueue
<1>3. ASSUME NEW e \in Engines, Escalate(e) PROVE RowsExist'
  <2>1. aim[e] \in Pairs
    BY <1>3 DEF Escalate, TypeOK
  <2> QED
    BY <1>1, <1>3, <2>1 DEF Escalate
<1>4. ASSUME UNCHANGED <<item, status, todo, hand, died>> PROVE RowsExist'
  BY <1>4
<1>5. ASSUME NEW p \in Passes, NEW S \in SUBSET {i \in Rows : status[i] # "none"}, Select(p, S)
      PROVE  RowsExist'
  BY <1>5 DEF Select, TypeOK
\* What a pass goes on with it had before, and it writes only what it has.
<1>6. ASSUME item' = item,
             \A p \in Passes, i \in Rows :
                i \in todo'[p] \cup hand'[p] => i \in todo[p] \cup hand[p],
             \A i \in Rows : \/ status'[i] = status[i] \/ status[i] # "none"
                             \/ i \in died \/ \E p \in Passes : i \in todo[p] \cup hand[p],
             \A i \in died' : i \in died \/ \E p \in Passes : i \in hand[p]
      PROVE  RowsExist'
  BY <1>6 DEF TypeOK
<1>7. ASSUME NEW f \in Flushes, Fetch(f) PROVE RowsExist'
  <2>1. PICK S \in FirstOf(Ready, Batch) : Select(f, S)
    BY <1>7 DEF Fetch
  <2>2. S \subseteq {i \in Rows : status[i] # "none"}
    BY DEF FirstOf, Ready, TypeOK
  <2> QED
    BY <1>5, <2>1, <2>2
<1>8. ASSUME NEW f \in Flushes, Take(f) PROVE RowsExist'
  BY <1>8, <1>6 DEF Take, TypeOK
<1>9. ASSUME NEW f \in Flushes, Decline(f) \/ Postpone(f) PROVE RowsExist'
  <2>1. PICK i \in hand[f], v \in {"failed", "pending"} : SetAll({i}, v)
    BY <1>9 DEF Decline, Postpone
  <2>2. item' = item /\ todo' = todo /\ died' = died /\ Free(f)
    BY <1>9 DEF Decline, Postpone
  <2> QED
    BY <1>6, <2>1, <2>2 DEF TypeOK
<1>10. ASSUME NEW f \in Flushes, Marked(f)
       PROVE  \A p \in Passes, i \in Rows : i \in hand'[p] => i \in hand[p]
  <2>1. hand' = hand \/ hand' = [hand EXCEPT ![f] = {}]
    BY <1>10 DEF Marked
  <2> QED
    BY <2>1 DEF TypeOK
<1>11. ASSUME NEW f \in Flushes, MarkSent(f) \/ MarkRetry(f) \/ MarkDead(f) PROVE RowsExist'
  <2>1. PICK v \in {"sent", "pending", "dead"} : SetAll(hand[f], v)
    BY <1>11 DEF MarkSent, MarkRetry, MarkDead
  <2>2. item' = item /\ todo' = todo /\ Marked(f)
    BY <1>11 DEF MarkSent, MarkRetry, MarkDead
  <2>3. died' = died \/ died' = died \cup hand[f]
    BY <1>11 DEF MarkSent, MarkRetry, MarkDead
  <2>4. \A p \in Passes, i \in Rows : i \in todo'[p] \cup hand'[p] => i \in todo[p] \cup hand[p]
    BY <1>10, <2>2
  <2>5. \A i \in Rows : status'[i] = status[i] \/ i \in hand[f]
    BY <2>1
  <2> HIDE DEF RowsExist, SetAll
  <2> QED
    BY <1>6, <2>2, <2>3, <2>4, <2>5
<1>12. ASSUME NEW f \in Flushes, Record(f) PROVE RowsExist'
  BY <1>12, <1>6 DEF Record, TypeOK
<1>13. ASSUME NEW f \in Flushes, EndFlush(f) PROVE RowsExist'
  <2>1. PICK old \in SUBSET {i \in Rows : status[i] = "dead"} : SetAll(old, "purged")
    BY <1>13 DEF EndFlush
  <2> QED
    BY <1>13, <1>6, <2>1 DEF EndFlush, TypeOK
<1>14. ASSUME NEW d \in Digests, FetchDigests(d) PROVE RowsExist'
  <2>1. PICK S \in SUBSET {i \in Rows : status[i] = "digest"} : Select(d, S)
    BY <1>14 DEF FetchDigests, FirstOf
  <2>2. S \subseteq {i \in Rows : status[i] # "none"}
    OBVIOUS
  <2> QED
    BY <1>5, <2>1, <2>2
<1>15. ASSUME NEW d \in Digests, MarkGroup(d) PROVE RowsExist'
  BY <1>15, <1>6 DEF MarkGroup, TypeOK
<1>16. ASSUME NEW d \in Digests, NEW c \in Channels,
              DeclineGroup(d, c) \/ PostponeGroup(d, c) \/ PrepareGroup(d, c)
       PROVE  RowsExist'
  <2>1. todo' = [todo EXCEPT ![d] = todo[d] \ Group(d, c)] /\ UNCHANGED <<item, died>>
    BY <1>16 DEF DeclineGroup, PostponeGroup, PrepareGroup, TakeGroup
  <2>2. hand' = hand \/ hand' = [hand EXCEPT ![d] = Group(d, c)]
    BY <1>16 DEF DeclineGroup, PostponeGroup, PrepareGroup
  <2>3. status' = status \/ SetAll(Group(d, c), "failed")
    BY <1>16 DEF DeclineGroup, PostponeGroup, PrepareGroup
  <2>4. Group(d, c) \subseteq todo[d]
    BY DEF Group
  <2> QED
    BY <1>6, <2>1, <2>2, <2>3, <2>4 DEF TypeOK
<1>17. ASSUME NEW p \in Passes, Crash(p) PROVE RowsExist'
  BY <1>17, <1>6 DEF Crash, TypeOK
<1>18. ASSUME NEW i \in Rows, Revive(i) PROVE RowsExist'
  <2>1. i \in died /\ \A j \in Rows \ {i} : status'[j] = status[j]
    BY <1>18 DEF Revive, TypeOK
  <2> QED
    BY <1>18, <1>6, <2>1 DEF Revive
<1>19. CASE \/ \E e \in Engines : Look(e)
            \/ \E p \in Passes : Prepare(p) \/ Send(p) \/ SendGroup(p) \/ EndDigests(p)
            \/ \E i \in Rows : RetryDue(i)
            \/ (\E c \in Channels : TurnOff(c)) \/ (\E a \in Alerts : Handle(a)) \/ WindowEnds
            \/ UNCHANGED vars
  <2>1. UNCHANGED <<item, status, todo, hand, died>>
    BY <1>19 DEF Look, Prepare, Send, SendGroup, EndDigests, RetryDue, TurnOff, Handle, WindowEnds, vars
  <2> QED
    BY <1>4, <2>1
<1> HIDE DEF RowsExist, Goto, SetAll, Free, queue, pass, history
<1> QED
  BY <1>2, <1>3, <1>7, <1>8, <1>9, <1>11, <1>12, <1>13, <1>14, <1>15, <1>16, <1>17, <1>18, <1>19
     DEF Next, Flush, Digest

LEMMA OneStep == Base /\ TypeOK' /\ [Next]_vars => OneAtATime'
<1> SUFFICES ASSUME TypeOK, RowsExist, OneAtATime, TypeOK', [Next]_vars
             PROVE  OneAtATime'
  BY DEF Base
<1> USE NotificationsAssumption DEF OneAtATime, AtWork, Goto, Free, Passes, pass
<1>1. ASSUME UNCHANGED <<pc, todo, hand>> PROVE OneAtATime'
  BY <1>1
<1>2. ASSUME NEW p \in Passes, NEW S, Goto(p, "idle", "each"), Select(p, S) PROVE OneAtATime'
  BY <1>2 DEF Select, TypeOK
<1>3. ASSUME NEW f \in Flushes, Fetch(f) PROVE OneAtATime'
  BY <1>2, <1>3 DEF Fetch
<1>4. ASSUME NEW f \in Flushes, Take(f) PROVE OneAtATime'
  <2>1. PICK i \in todo[f] : hand' = [hand EXCEPT ![f] = {i}] /\ todo' = [todo EXCEPT ![f] = @ \ {i}]
    BY <1>4 DEF Take
  <2>2. pc[f] = "each" /\ pc' = [pc EXCEPT ![f] = "load"]
    BY <1>4 DEF Take
  <2> QED
    BY <2>1, <2>2 DEF TypeOK
<1>5. ASSUME NEW f \in Flushes, pc[f] \in AtWork \cup {"log"}, pc' = [pc EXCEPT ![f] = "each"],
             todo' = todo, Free(f)
      PROVE  OneAtATime'
  BY <1>5 DEF TypeOK
<1>6. ASSUME NEW f \in Flushes, NEW to \in {"send", "mark", "log"}, pc[f] \in AtWork,
             pc' = [pc EXCEPT ![f] = to], UNCHANGED <<todo, hand>>
      PROVE  OneAtATime'
  BY <1>6 DEF TypeOK
<1>7. ASSUME NEW f \in Flushes, Decline(f) \/ Postpone(f) \/ Record(f) PROVE OneAtATime'
  BY <1>5, <1>7 DEF Decline, Postpone, Record
<1>8. ASSUME NEW f \in Flushes, Prepare(f) \/ Send(f) PROVE OneAtATime'
  BY <1>6, <1>8 DEF Prepare, Send
<1>9. ASSUME NEW f \in Flushes, MarkSent(f) \/ MarkRetry(f) \/ MarkDead(f) PROVE OneAtATime'
  <2>1. Marked(f) /\ todo' = todo
    BY <1>9 DEF MarkSent, MarkRetry, MarkDead
  <2> QED
    BY <1>5, <1>6, <2>1 DEF Marked
<1>10. ASSUME NEW p \in Passes, pc[p] = "each", todo[p] = {}, pc' = [pc EXCEPT ![p] = "idle"],
              UNCHANGED <<todo, hand>>
       PROVE  OneAtATime'
  BY <1>10 DEF TypeOK
<1>11. ASSUME NEW p \in Passes, EndFlush(p) \/ EndDigests(p) PROVE OneAtATime'
  BY <1>10, <1>11 DEF EndFlush, EndDigests
\* A digest's rows are none of the queue's pass.
<1>12. ASSUME NEW d \in Digests, pc[d] # "idle", pc'[d] # "idle",
              \A q \in Passes \ {d} : pc'[q] = pc[q] /\ todo'[q] = todo[q] /\ hand'[q] = hand[q]
       PROVE  OneAtATime'
  <2>1. \A f \in Flushes : f \in Passes \ {d}
    OBVIOUS
  <2>2. \A f \in Flushes : pc'[f] \in AtWork \cup {"log"} => \E i \in Rows : hand'[f] = {i}
    BY <1>12, <2>1
  <2>3. \A p \in Passes : pc'[p] = "idle" => todo'[p] = {}
    BY <1>12
  <2> QED
    BY <2>2, <2>3
<1>13. ASSUME NEW d \in Digests, FetchDigests(d) PROVE OneAtATime'
  <2>1. \E S : Select(d, S)
    BY <1>13 DEF FetchDigests
  <2> QED
    BY <1>2, <1>13, <2>1 DEF FetchDigests
<1>14. ASSUME NEW d \in Digests, SendGroup(d) \/ MarkGroup(d) PROVE OneAtATime'
  BY <1>12, <1>14 DEF SendGroup, MarkGroup, TypeOK
<1>15. ASSUME NEW d \in Digests, NEW c \in Channels,
              DeclineGroup(d, c) \/ PostponeGroup(d, c) \/ PrepareGroup(d, c)
       PROVE  OneAtATime'
  <2>1. /\ pc[d] = "each" /\ \E to \in {"each", "send"} : pc' = [pc EXCEPT ![d] = to]
        /\ todo' = [todo EXCEPT ![d] = todo[d] \ Group(d, c)]
        /\ hand' = hand \/ hand' = [hand EXCEPT ![d] = Group(d, c)]
    BY <1>15 DEF DeclineGroup, PostponeGroup, PrepareGroup, TakeGroup
  <2> QED
    BY <1>12, <2>1 DEF TypeOK
<1>16. ASSUME NEW p \in Passes, Crash(p) PROVE OneAtATime'
  BY <1>16 DEF Crash, TypeOK
<1>17. CASE \/ \E i \in Rows, a \in Alerts, c \in Channels : Enqueue(i, a, c)
            \/ \E e \in Engines : Look(e) \/ Escalate(e)
            \/ \E i \in Rows : Revive(i) \/ RetryDue(i)
            \/ (\E c \in Channels : TurnOff(c)) \/ (\E a \in Alerts : Handle(a)) \/ WindowEnds
            \/ UNCHANGED vars
  <2>1. UNCHANGED <<pc, todo, hand>>
    BY <1>17 DEF Enqueue, Look, Escalate, Revive, RetryDue, TurnOff, Handle, WindowEnds, vars
  <2> HIDE DEF OneAtATime
  <2> QED
    BY <1>1, <2>1
<1> HIDE DEF OneAtATime, AtWork, Goto, Free, pass
<1> QED
  BY <1>3, <1>4, <1>7, <1>8, <1>9, <1>11, <1>13, <1>14, <1>15, <1>16, <1>17 DEF Next, Flush, Digest

LEMMA BaseStep == Base /\ [Next]_vars => Base'
BY TypeStep, RowsStep, OneStep DEF Base

\* The queue's variables hold what the columns may, and the passes' what the
\* rows they selected had.
THEOREM NotificationsTypeCorrect == Spec => []TypeOK
<1>1. Base => TypeOK
  BY DEF Base
<1> QED
  BY <1>1, InitBase, BaseStep, PTL DEF Spec

-----------------------------------------------------------------------------
LEMMA ForgottenStep == Base /\ NothingForgotten /\ [Next]_vars => NothingForgotten'
<1> SUFFICES ASSUME TypeOK, OneAtATime, NothingForgotten, [Next]_vars
             PROVE  NothingForgotten'
  BY DEF Base
<1> USE NotificationsAssumption DEF OneAtATime, AtWork, Goto, SetAll, Free, Passes, Final,
      queue, pass, history
\* Whoever lets go of a row has written its status, or ends in a crash.
<1>1. ASSUME stuck \subseteq stuck',
             \A i \in Rows : \/ status'[i] # "processing"
                             \/ status[i] = "processing" /\ \A f \in Flushes :
                                  i \in hand[f] /\ pc[f] \in AtWork =>
                                    (i \in hand'[f] /\ pc'[f] \in AtWork) \/ i \in stuck'
      PROVE  NothingForgotten'
  BY <1>1 DEF NothingForgotten
<1>2. ASSUME UNCHANGED <<status, stuck>>,
             \A f \in Flushes : pc[f] \in AtWork => hand'[f] = hand[f] /\ pc'[f] \in AtWork
      PROVE  NothingForgotten'
  BY <1>1, <1>2
<1>3. ASSUME NEW i \in Rows, NEW a \in Alerts, NEW c \in Channels, Enqueue(i, a, c)
      PROVE  NothingForgotten'
  <2>1. PICK v \in {"pending", "digest"} : AddRow(i, <<a, c>>, v)
    BY <1>3 DEF Enqueue
  <2> QED
    BY <1>1, <1>3, <2>1 DEF Enqueue, AddRow, TypeOK
<1>4. ASSUME NEW e \in Engines, Escalate(e) PROVE NothingForgotten'
  <2>1. PICK i \in Rows : AddRow(i, aim[e], "pending")
    BY <1>4 DEF Escalate
  <2> QED
    BY <1>1, <1>4, <2>1 DEF Escalate, AddRow, TypeOK
<1>5. ASSUME NEW p \in Passes, NEW S, Goto(p, "idle", "each"), Select(p, S) PROVE NothingForgotten'
  BY <1>2, <1>5 DEF Select, TypeOK
<1>6. ASSUME NEW f \in Flushes, Take(f) PROVE NothingForgotten'
  <2>1. PICK i \in Rows : hand' = [hand EXCEPT ![f] = {i}] /\ SetAll({i}, "processing")
    BY <1>6 DEF Take, TypeOK
  <2>2. /\ pc[f] = "each" /\ pc' = [pc EXCEPT ![f] = "load"] /\ stuck' = stuck
    BY <1>6 DEF Take
  <2>3. ASSUME NEW j \in Rows, status'[j] = "processing"
        PROVE  j \in stuck' \/ \E g \in Flushes : j \in hand'[g] /\ pc'[g] \in AtWork
    <3>1. CASE j = i
      BY <3>1, <2>1, <2>2 DEF TypeOK
    <3>2. CASE j # i
      <4>1. status[j] = "processing"
        BY <3>2, <2>1, <2>3
      <4> QED
        BY <4>1, <2>1, <2>2 DEF TypeOK, NothingForgotten
    <3> QED
      BY <3>1, <3>2
  <2> QED
    BY <2>3 DEF NothingForgotten
<1>7. ASSUME NEW f \in Flushes, NEW v, v # "processing", SetAll(hand[f], v), stuck' = stuck,
             \A g \in Flushes \ {f} : pc'[g] = pc[g] /\ hand'[g] = hand[g]
      PROVE  NothingForgotten'
  BY <1>1, <1>7
<1>8. ASSUME NEW f \in Flushes, Decline(f) \/ Postpone(f) PROVE NothingForgotten'
  <2>1. PICK i \in hand[f], v \in {"failed", "pending"} : SetAll({i}, v)
    BY <1>8 DEF Decline, Postpone
  <2>2. pc[f] = "load" /\ hand[f] = {i}
    BY <1>8 DEF Decline, Postpone
  <2>3. stuck' = stuck /\ \A g \in Flushes \ {f} : pc'[g] = pc[g] /\ hand'[g] = hand[g]
    BY <1>8 DEF Decline, Postpone, TypeOK
  <2> QED
    BY <1>7, <2>1, <2>2, <2>3
<1>9. ASSUME NEW f \in Flushes, Prepare(f) \/ Send(f) PROVE NothingForgotten'
  BY <1>2, <1>9 DEF Prepare, Send, TypeOK
<1>10. ASSUME NEW f \in Flushes, MarkSent(f) \/ MarkRetry(f) \/ MarkDead(f) PROVE NothingForgotten'
  <2>1. PICK v \in {"sent", "pending", "dead"} : SetAll(hand[f], v)
    BY <1>10 DEF MarkSent, MarkRetry, MarkDead
  <2>2. Marked(f) /\ stuck' = stuck
    BY <1>10 DEF MarkSent, MarkRetry, MarkDead
  <2>3. \A g \in Flushes \ {f} : pc'[g] = pc[g] /\ hand'[g] = hand[g]
    BY <2>2 DEF Marked, TypeOK
  <2> QED
    BY <1>7, <2>1, <2>2, <2>3
<1>11. ASSUME NEW f \in Flushes, Record(f) PROVE NothingForgotten'
  BY <1>2, <1>11 DEF Record, TypeOK
<1>12. ASSUME NEW f \in Flushes, EndFlush(f) PROVE NothingForgotten'
  <2>1. PICK old \in SUBSET {i \in Rows : status[i] = "dead"} : SetAll(old, "purged")
    BY <1>12 DEF EndFlush
  <2> QED
    BY <1>12, <1>1, <2>1 DEF EndFlush, TypeOK
\* A pass over the digests has nothing that is processing by it.
<1>13. ASSUME NEW d \in Digests, stuck' = stuck,
              \A q \in Passes \ {d} : pc'[q] = pc[q] /\ hand'[q] = hand[q],
              status' = status \/ \E S, v : v # "processing" /\ SetAll(S, v)
       PROVE  NothingForgotten'
  <2>1. \A f \in Flushes : f \in Passes \ {d}
    OBVIOUS
  <2> QED
    BY <1>13, <1>1, <2>1
<1>14. ASSUME NEW d \in Digests, FetchDigests(d) PROVE NothingForgotten'
  BY <1>5, <1>14 DEF FetchDigests
<1>15. ASSUME NEW d \in Digests, SendGroup(d) \/ EndDigests(d) PROVE NothingForgotten'
  BY <1>13, <1>15 DEF SendGroup, EndDigests, TypeOK
<1>16. ASSUME NEW d \in Digests, MarkGroup(d) PROVE NothingForgotten'
  <2>1. PICK v \in {"sent", "failed"} : SetAll(hand[d], v)
    BY <1>16 DEF MarkGroup
  <2>2. stuck' = stuck /\ \A q \in Passes \ {d} : pc'[q] = pc[q] /\ hand'[q] = hand[q]
    BY <1>16 DEF MarkGroup, TypeOK
  <2> HIDE DEF SetAll
  <2> QED
    BY <1>13, <2>1, <2>2
<1>17. ASSUME NEW d \in Digests, NEW c \in Channels,
              DeclineGroup(d, c) \/ PostponeGroup(d, c) \/ PrepareGroup(d, c)
       PROVE  NothingForgotten'
  <2>1. status' = status \/ SetAll(Group(d, c), "failed")
    BY <1>17 DEF DeclineGroup, PostponeGroup, PrepareGroup
  <2>2. stuck' = stuck /\ \A q \in Passes \ {d} : pc'[q] = pc[q] /\ hand'[q] = hand[q]
    BY <1>17 DEF DeclineGroup, PostponeGroup, PrepareGroup, TypeOK
  <2> HIDE DEF SetAll
  <2> QED
    BY <1>13, <2>1, <2>2
<1>18. ASSUME NEW p \in Passes, Crash(p) PROVE NothingForgotten'
  <2>1. status' = status /\ stuck \subseteq stuck'
    BY <1>18 DEF Crash
  <2>2. p \in Flushes /\ pc[p] \in AtWork => hand[p] \subseteq stuck'
    BY <1>18 DEF Crash
  <2>3. \A f \in Flushes \ {p} : hand'[f] = hand[f] /\ pc'[f] = pc[f]
    BY <1>18 DEF Crash, TypeOK
  <2> QED
    BY <1>1, <2>1, <2>2, <2>3
<1>19. ASSUME NEW i \in Rows, Revive(i) PROVE NothingForgotten'
  BY <1>19, <1>1 DEF Revive, TypeOK
<1>20. CASE \/ \E e \in Engines : Look(e)
            \/ \E i \in Rows : RetryDue(i)
            \/ (\E c \in Channels : TurnOff(c)) \/ (\E a \in Alerts : Handle(a)) \/ WindowEnds
            \/ UNCHANGED vars
  BY <1>2, <1>20 DEF Look, RetryDue, TurnOff, Handle, WindowEnds, vars
<1> HIDE DEF OneAtATime, AtWork, Goto, SetAll, Free, Final, queue, pass, history
<1> QED
  BY <1>3, <1>4, <1>5, <1>6, <1>8, <1>9, <1>10, <1>11, <1>12, <1>14, <1>15, <1>16, <1>17, <1>18,
     <1>19, <1>20 DEF Next, Flush, Digest, Fetch

\* For every number of passes and crashes: what is processing is in a pass's
\* hand, or was when that pass ended.
THEOREM NothingIsForgotten == Spec => []NothingForgotten
<1>1. Init => NothingForgotten
  BY DEF Init, NothingForgotten
<1> QED
  BY <1>1, InitBase, BaseStep, ForgottenStep, PTL DEF Spec

-----------------------------------------------------------------------------
LEMMA CountedStep == Base /\ TypeOK' /\ Counted /\ [Next]_vars => Counted'
<1> SUFFICES ASSUME TypeOK, OneAtATime, TypeOK', Counted, [Next]_vars
             PROVE  Counted'
  BY DEF Base
<1> USE NotificationsAssumption DEF Counted, DeadWasTried, OneAtATime, AtWork, Goto, SetAll, Free,
      Passes, queue, pass, history
<1>0. MaxAttempts \in Nat /\ MaxAttempts > 0
  OBVIOUS
\* Nobody raises a count, and nobody forgets a failure.
<1>1. ASSUME failures' = failures,
             \A i \in Rows : /\ attempts'[i] = attempts[i] \/ attempts'[i] = 0
                             /\ status'[i] = "dead" => status[i] = "dead",
             \A p \in Passes, i \in Rows : seen'[p][i] = seen[p][i] \/ seen'[p][i] = 0,
             \A p \in Passes : pc'[p] = "mark" =>
                pc[p] = "mark" /\ ok'[p] = ok[p] /\ hand'[p] = hand[p] /\ seen'[p] = seen[p]
      PROVE  Counted'
  <2>1. ASSUME NEW i \in Rows
        PROVE  attempts'[i] <= failures'[i] /\ (status'[i] = "dead" => failures'[i] >= MaxAttempts)
    <3>1. failures[i] \in Nat /\ attempts[i] <= failures[i]
          /\ (status[i] = "dead" => failures[i] >= MaxAttempts)
      BY DEF TypeOK
    <3> QED
      BY <1>1, <3>1
  <2>2. ASSUME NEW p \in Passes, NEW i \in Rows
        PROVE  /\ seen'[p][i] <= failures'[i]
               /\ pc'[p] = "mark" /\ ~ok'[p] /\ i \in hand'[p] =>
                    failures'[i] = MaxAttempts \/ seen'[p][i] < failures'[i]
    <3>1. failures[i] \in Nat
      BY DEF TypeOK
    <3> QED
      BY <1>1, <3>1
  <2> QED
    BY <2>1, <2>2
<1>2. ASSUME UNCHANGED <<failures, attempts, status, pass>> PROVE Counted'
  BY <1>1, <1>2
<1>3. ASSUME NEW i \in Rows, NEW pair, NEW v \in {"pending", "digest"}, AddRow(i, pair, v),
             UNCHANGED <<pass, failures>>
      PROVE  Counted'
  <2>1. attempts' = attempts /\ \A j \in Rows : status'[j] = "dead" => status[j] = "dead"
    BY <1>3 DEF AddRow, TypeOK
  <2> QED
    BY <1>1, <1>3, <2>1
<1>4. ASSUME NEW i \in Rows, NEW a \in Alerts, NEW c \in Channels, Enqueue(i, a, c) PROVE Counted'
  <2>1. PICK v \in {"pending", "digest"} : AddRow(i, <<a, c>>, v)
    BY <1>4 DEF Enqueue
  <2>2. UNCHANGED <<pass, failures>>
    BY <1>4 DEF Enqueue
  <2> HIDE DEF Counted
  <2> QED
    BY <1>3, <2>1, <2>2
<1>5. ASSUME NEW e \in Engines, Escalate(e) PROVE Counted'
  <2>1. PICK i \in Rows : AddRow(i, aim[e], "pending")
    BY <1>5 DEF Escalate
  <2>2. UNCHANGED <<pass, failures>>
    BY <1>5 DEF Escalate
  <2> HIDE DEF Counted
  <2> QED
    BY <1>3, <2>1, <2>2
\* What is selected comes with the count that its row has.
<1>6. ASSUME NEW p \in Passes, NEW S, Goto(p, "idle", "each"), Select(p, S) PROVE Counted'
  <2>1. /\ pc' = [pc EXCEPT ![p] = "each"]
        /\ seen' = [seen EXCEPT ![p] = [i \in Rows |-> IF i \in S THEN attempts[i] ELSE 0]]
        /\ UNCHANGED <<failures, attempts, status, hand, ok>>
    BY <1>6 DEF Select
  <2>2. ASSUME NEW q \in Passes, NEW i \in Rows PROVE seen'[q][i] <= failures[i]
    <3>1. CASE q = p
      <4>1. seen'[p][i] = IF i \in S THEN attempts[i] ELSE 0
        BY <2>1 DEF TypeOK
      <4> QED
        BY <3>1, <4>1 DEF TypeOK
    <3>2. CASE q # p
      BY <3>2, <2>1 DEF TypeOK
    <3> QED
      BY <3>1, <3>2
  <2>3. \A q \in Passes : pc'[q] = "mark" => pc[q] = "mark" /\ seen'[q] = seen[q]
    BY <2>1 DEF TypeOK
  <2> QED
    BY <2>1, <2>2, <2>3
<1>7. ASSUME NEW f \in Flushes, Take(f) PROVE Counted'
  <2>1. \A j \in Rows : status'[j] = "dead" => status[j] = "dead"
    BY <1>7 DEF Take
  <2>2. UNCHANGED <<failures, attempts, seen, ok>>
    BY <1>7 DEF Take
  <2>3. \A p \in Passes : pc'[p] = "mark" => pc[p] = "mark" /\ hand'[p] = hand[p]
    BY <1>7 DEF Take, TypeOK
  <2> HIDE DEF Counted
  <2> QED
    BY <1>1, <2>1, <2>2, <2>3
\* The pass goes on to its next row, or to log this one.
<1>8. ASSUME NEW p \in Passes, Free(p), pc' = [pc EXCEPT ![p] = "each"]
      PROVE  /\ \A q \in Passes, i \in Rows : seen'[q][i] = seen[q][i] \/ seen'[q][i] = 0
             /\ \A q \in Passes : pc'[q] = "mark" =>
                  pc[q] = "mark" /\ ok'[q] = ok[q] /\ hand'[q] = hand[q] /\ seen'[q] = seen[q]
  <2>1. ASSUME NEW q \in Passes, NEW i \in Rows PROVE seen'[q][i] = seen[q][i] \/ seen'[q][i] = 0
    BY <1>8 DEF TypeOK
  <2>2. \A q \in Passes : pc'[q] = "mark" => q # p /\ pc[q] = "mark"
    BY <1>8 DEF TypeOK
  <2>3. \A q \in Passes \ {p} : ok'[q] = ok[q] /\ hand'[q] = hand[q] /\ seen'[q] = seen[q]
    BY <1>8 DEF TypeOK
  <2> QED
    BY <2>1, <2>2, <2>3
<1>9. ASSUME NEW f \in Flushes, Marked(f)
      PROVE  /\ \A q \in Passes, i \in Rows : seen'[q][i] = seen[q][i] \/ seen'[q][i] = 0
             /\ \A q \in Passes : pc'[q] = "mark" =>
                  pc[q] = "mark" /\ ok'[q] = ok[q] /\ hand'[q] = hand[q] /\ seen'[q] = seen[q]
  <2>1. CASE Goto(f, "mark", "each") /\ Free(f)
    BY <1>8, <2>1
  <2>2. CASE Goto(f, "mark", "log") /\ UNCHANGED <<hand, seen, ok>>
    BY <2>2 DEF TypeOK
  <2> QED
    BY <1>9, <2>1, <2>2 DEF Marked
<1>10. ASSUME NEW f \in Flushes, Decline(f) \/ Postpone(f) \/ Record(f) PROVE Counted'
  <2>1. Free(f) /\ pc' = [pc EXCEPT ![f] = "each"] /\ UNCHANGED <<failures, attempts>>
    BY <1>10 DEF Decline, Postpone, Record
  <2>2. \A j \in Rows : status'[j] = "dead" => status[j] = "dead"
    BY <1>10 DEF Decline, Postpone, Record
  <2> HIDE DEF Counted
  <2> QED
    BY <1>1, <1>8, <2>1, <2>2
<1>11. ASSUME NEW f \in Flushes, Prepare(f) PROVE Counted'
  <2>1. \A p \in Passes : pc'[p] = "mark" => pc[p] = "mark"
    BY <1>11 DEF Prepare, TypeOK
  <2> HIDE DEF Counted
  <2> QED
    BY <1>1, <1>11, <2>1 DEF Prepare
\* A failure is counted in the row, and makes it one more than the pass saw.
<1>12. ASSUME NEW p \in Passes, Send(p) \/ SendGroup(p) PROVE Counted'
  <2>1. Answered(p)
    BY <1>12 DEF Send, SendGroup
  <2>2. UNCHANGED <<attempts, status, seen, hand>>
    BY <1>12 DEF Send, SendGroup
  <2>3. \A q \in Passes \ {p} : pc'[q] = pc[q] /\ ok'[q] = ok[q]
    BY <1>12, <2>1 DEF Send, SendGroup, Answered, TypeOK
  <2>4. /\ ok'[p] => failures' = failures
        /\ ~ok'[p] => failures' = CountFor(p, failures, MaxAttempts)
    BY <2>1 DEF Answered, TypeOK
  <2>5. ASSUME NEW i \in Rows
        PROVE  /\ failures[i] <= failures'[i]
               /\ failures[i] = MaxAttempts => failures'[i] = MaxAttempts
               /\ ~ok'[p] /\ i \in hand[p] => failures'[i] = MaxAttempts \/ failures[i] < failures'[i]
    <3>1. failures'[i] = IF ~ok'[p] /\ i \in hand[p] /\ failures[i] < MaxAttempts
                           THEN failures[i] + 1 ELSE failures[i]
      BY <2>4 DEF CountFor
    <3>2. failures[i] \in 0..MaxAttempts
      BY DEF TypeOK
    <3> QED
      BY <1>0, <3>1, <3>2
  <2>6. ASSUME NEW i \in Rows
        PROVE  attempts'[i] <= failures'[i] /\ (status'[i] = "dead" => failures'[i] >= MaxAttempts)
    BY <2>2, <2>5 DEF TypeOK
  <2>7. ASSUME NEW q \in Passes, NEW i \in Rows
        PROVE  /\ seen'[q][i] <= failures'[i]
               /\ pc'[q] = "mark" /\ ~ok'[q] /\ i \in hand'[q] =>
                    failures'[i] = MaxAttempts \/ seen'[q][i] < failures'[i]
    <3>1. seen[q][i] <= failures[i] /\ seen[q][i] \in Nat /\ failures[i] \in Nat /\ failures'[i] \in Nat
      BY DEF TypeOK
    <3>2. CASE q = p
      BY <3>1, <3>2, <2>2, <2>5
    <3>3. CASE q # p
      BY <3>1, <3>3, <2>2, <2>3, <2>5
    <3> QED
      BY <3>2, <3>3
  <2> QED
    BY <2>6, <2>7
<1>13. ASSUME NEW f \in Flushes, MarkSent(f) PROVE Counted'
  <2>1. Marked(f) /\ UNCHANGED <<failures, attempts>>
    BY <1>13 DEF MarkSent
  <2>2. \A j \in Rows : status'[j] = "dead" => status[j] = "dead"
    BY <1>13 DEF MarkSent
  <2> HIDE DEF Counted
  <2> QED
    BY <1>1, <1>9, <2>1, <2>2
\* One more than it saw is still no more than have failed.
<1>14. ASSUME NEW f \in Flushes, MarkRetry(f) \/ MarkDead(f) PROVE Counted'
  <2>1. PICK i \in Rows : hand[f] = {i} /\ pc[f] = "mark"
    BY <1>14 DEF MarkRetry, MarkDead, Marked
  <2>2. /\ Marked(f) /\ ~ok[f] /\ UNCHANGED failures
    BY <1>14 DEF MarkRetry, MarkDead
  <2>3. failures[i] = MaxAttempts \/ seen[f][i] < failures[i]
    BY <2>1, <2>2
  <2>4. /\ seen[f][i] \in Nat /\ \A j \in Rows : failures[j] \in 0..MaxAttempts
    BY DEF TypeOK
  <2>5. ASSUME NEW j \in Rows
        PROVE  attempts'[j] <= failures[j] /\ (status'[j] = "dead" => failures[j] >= MaxAttempts)
    <3>1. CASE MarkRetry(f)
      <4>1. seen[f][i] + 1 < MaxAttempts /\ attempts' = [attempts EXCEPT ![i] = seen[f][i] + 1]
        BY <3>1, <2>1 DEF MarkRetry
      <4>2. status'[j] = "dead" => status[j] = "dead"
        BY <3>1 DEF MarkRetry
      <4>3. attempts'[j] <= failures[j]
        BY <4>1, <2>3, <2>4 DEF TypeOK
      <4> QED
        BY <4>2, <4>3
    <3>2. CASE MarkDead(f)
      <4>1. seen[f][i] + 1 >= MaxAttempts /\ attempts' = attempts
        BY <3>2, <2>1 DEF MarkDead
      <4>2. status'[j] = "dead" => j = i \/ status[j] = "dead"
        BY <3>2, <2>1 DEF MarkDead
      <4>3. failures[i] >= MaxAttempts
        BY <1>0, <4>1, <2>3, <2>4
      <4> QED
        BY <4>1, <4>2, <4>3
    <3> QED
      BY <1>14, <3>1, <3>2
  <2>6. ASSUME NEW q \in Passes, NEW j \in Rows
        PROVE  /\ seen'[q][j] <= failures[j]
               /\ pc'[q] = "mark" /\ ~ok'[q] /\ j \in hand'[q] =>
                    failures[j] = MaxAttempts \/ seen'[q][j] < failures[j]
    BY <1>9, <2>2, <2>4
  <2> QED
    BY <2>2, <2>5, <2>6
<1>15. ASSUME NEW p \in Passes, EndFlush(p) \/ EndDigests(p) PROVE Counted'
  <2>1. \A j \in Rows : status'[j] = "dead" => status[j] = "dead"
    BY <1>15 DEF EndFlush, EndDigests
  <2>2. UNCHANGED <<failures, attempts, hand, seen, ok>>
    BY <1>15 DEF EndFlush, EndDigests
  <2>3. \A q \in Passes : pc'[q] = "mark" => pc[q] = "mark"
    BY <1>15 DEF EndFlush, EndDigests, TypeOK
  <2> HIDE DEF Counted
  <2> QED
    BY <1>1, <2>1, <2>2, <2>3
<1>16. ASSUME NEW d \in Digests, MarkGroup(d) PROVE Counted'
  <2>1. PICK v \in {"sent", "failed"} : SetAll(hand[d], v)
    BY <1>16 DEF MarkGroup
  <2>2. Free(d) /\ pc' = [pc EXCEPT ![d] = "each"] /\ UNCHANGED <<failures, attempts>>
    BY <1>16 DEF MarkGroup
  <2>3. \A j \in Rows : status'[j] = "dead" => status[j] = "dead"
    BY <2>1
  <2> HIDE DEF Counted
  <2> QED
    BY <1>1, <1>8, <2>2, <2>3
<1>17. ASSUME NEW d \in Digests, NEW c \in Channels,
              DeclineGroup(d, c) \/ PostponeGroup(d, c) \/ PrepareGroup(d, c)
       PROVE  Counted'
  <2>1. \A j \in Rows : status'[j] = "dead" => status[j] = "dead"
    BY <1>17 DEF DeclineGroup, PostponeGroup, PrepareGroup
  <2>2. UNCHANGED <<failures, attempts, seen, ok>>
    BY <1>17 DEF DeclineGroup, PostponeGroup, PrepareGroup
  <2>3. \A p \in Passes : pc'[p] = "mark" => pc[p] = "mark" /\ hand'[p] = hand[p]
    BY <1>17 DEF DeclineGroup, PostponeGroup, PrepareGroup, TypeOK
  <2> HIDE DEF Counted
  <2> QED
    BY <1>1, <2>1, <2>2, <2>3
<1>18. ASSUME NEW p \in Passes, Crash(p) PROVE Counted'
  <2>1. UNCHANGED <<failures, attempts, status>>
    BY <1>18 DEF Crash
  <2>2. \A q \in Passes, i \in Rows : seen'[q][i] = seen[q][i] \/ seen'[q][i] = 0
    BY <1>18 DEF Crash, TypeOK
  <2>3. \A q \in Passes : pc'[q] = "mark" =>
          pc[q] = "mark" /\ ok'[q] = ok[q] /\ hand'[q] = hand[q] /\ seen'[q] = seen[q]
    BY <1>18 DEF Crash, TypeOK
  <2> HIDE DEF Counted
  <2> QED
    BY <1>1, <2>1, <2>2, <2>3
<1>19. ASSUME NEW i \in Rows, Revive(i) PROVE Counted'
  <2>1. \A j \in Rows : /\ attempts'[j] = attempts[j] \/ attempts'[j] = 0
                        /\ status'[j] = "dead" => status[j] = "dead"
    BY <1>19 DEF Revive, TypeOK
  <2> HIDE DEF Counted
  <2> QED
    BY <1>1, <1>19, <2>1 DEF Revive
<1>20. CASE \/ \E e \in Engines : Look(e)
            \/ \E i \in Rows : RetryDue(i)
            \/ (\E c \in Channels : TurnOff(c)) \/ (\E a \in Alerts : Handle(a)) \/ WindowEnds
            \/ UNCHANGED vars
  BY <1>2, <1>20 DEF Look, RetryDue, TurnOff, Handle, WindowEnds, vars
<1> HIDE DEF Counted, OneAtATime, AtWork, Goto, SetAll, Free, queue, pass, history
<1> QED
  BY <1>4, <1>5, <1>6, <1>7, <1>10, <1>11, <1>12, <1>13, <1>14, <1>15, <1>16, <1>17, <1>18,
     <1>19, <1>20 DEF Next, Flush, Digest, Fetch, FetchDigests

LEMMA InitCounted == Init => Counted
BY NotificationsAssumption DEF Init, Counted, DeadWasTried

\* Whatever counts are written back late: no row is given up before as many
\* deliveries of it have failed as it is to be tried.
THEOREM DeadWereTried == Spec => []DeadWasTried
<1>1. Base => TypeOK
  BY DEF Base
<1>2. Counted => DeadWasTried
  BY DEF Counted
<1> QED
  BY <1>1, <1>2, InitBase, BaseStep, InitCounted, CountedStep, PTL DEF Spec

-----------------------------------------------------------------------------
(* Which passes can be at a row together                                   *)

LEMMA KindsStep == Base /\ TypeOK' /\ KindsApart /\ [Next]_vars => KindsApart'
<1> SUFFICES ASSUME Base, TypeOK', KindsApart, [Next]_vars PROVE KindsApart'
  OBVIOUS
<1> USE NotificationsAssumption DEF Base, KindsApart, Took, Goto, SetAll, Free, Passes, queue, pass, history
\* Nobody takes a row; what is written is written by whoever took it, or was
\* nobody's.
<1>1. ASSUME \A p \in Passes : Took(p)' \subseteq Took(p),
             \A i \in died' : i \in died \/ \E f \in Flushes : i \in Took(f),
             \A i \in Rows :
               \/ status'[i] = status[i]
               \/ /\ \A d \in Digests : i \notin Took(d)
                  /\ (\E f \in Flushes : i \in Took(f)) \/ i \in died =>
                       status'[i] \notin {"none", "digest"}
               \/ (\E d \in Digests : i \in Took(d)) /\ status'[i] \in {"sent", "failed"}
      PROVE  KindsApart'
  BY <1>1
<1>2. ASSUME NEW i \in Rows, NEW pair, NEW v \in {"pending", "digest"}, AddRow(i, pair, v),
             UNCHANGED <<pass, died>>
      PROVE  KindsApart'
  <2>1. i \notin died /\ \A p \in Passes : i \notin Took(p)
    BY <1>2, VacantIs DEF AddRow, RowsExist
  <2>2. \A j \in Rows \ {i} : status'[j] = status[j]
    BY <1>2 DEF AddRow, TypeOK
  <2> QED
    BY <1>1, <1>2, <2>1, <2>2
<1>3. ASSUME NEW i \in Rows, NEW a \in Alerts, NEW c \in Channels, Enqueue(i, a, c)
      PROVE  KindsApart'
  <2>1. PICK v \in {"pending", "digest"} : AddRow(i, <<a, c>>, v)
    BY <1>3 DEF Enqueue
  <2>2. UNCHANGED <<pass, died>>
    BY <1>3 DEF Enqueue
  <2> HIDE DEF KindsApart, pass
  <2> QED
    BY <1>2, <2>1, <2>2
<1>4. ASSUME NEW e \in Engines, Escalate(e) PROVE KindsApart'
  <2>1. PICK i \in Rows : AddRow(i, aim[e], "pending")
    BY <1>4 DEF Escalate
  <2>2. UNCHANGED <<pass, died>>
    BY <1>4 DEF Escalate
  <2> HIDE DEF KindsApart, pass
  <2> QED
    BY <1>2, <2>1, <2>2
<1>5. ASSUME NEW f \in Flushes, Fetch(f) PROVE KindsApart'
  <2>1. PICK S \in FirstOf(Ready, Batch) : Select(f, S)
    BY <1>5 DEF Fetch
  <2>2. /\ UNCHANGED <<status, hand, died>> /\ todo' = [todo EXCEPT ![f] = S]
        /\ \A i \in S : status[i] = "pending"
    BY <2>1 DEF Select, FirstOf, Ready
  <2> QED
    BY <2>2 DEF TypeOK
<1>6. ASSUME NEW d \in Digests, FetchDigests(d) PROVE KindsApart'
  <2>1. PICK S \in SUBSET {i \in Rows : status[i] = "digest"} : Select(d, S)
    BY <1>6 DEF FetchDigests, FirstOf
  <2>2. UNCHANGED <<status, hand, died>> /\ todo' = [todo EXCEPT ![d] = S]
    BY <2>1 DEF Select
  <2> QED
    BY <2>1, <2>2 DEF TypeOK
<1>7. ASSUME NEW f \in Flushes, NEW k \in Took(f), NEW v, v \notin {"none", "digest"},
             SetAll({k}, v), died' = died, \A p \in Passes : Took(p)' \subseteq Took(p)
      PROVE  KindsApart'
  BY <1>1, <1>7 DEF TypeOK
<1>8. ASSUME NEW f \in Flushes, Take(f) PROVE KindsApart'
  <2>1. PICK k \in todo[f] : /\ todo' = [todo EXCEPT ![f] = todo[f] \ {k}]
                             /\ hand' = [hand EXCEPT ![f] = {k}] /\ SetAll({k}, "processing")
    BY <1>8 DEF Take
  <2>2. died' = died /\ \A p \in Passes : Took(p)' \subseteq Took(p)
    BY <1>8, <2>1 DEF Take, TypeOK
  <2> HIDE DEF KindsApart, SetAll
  <2> QED
    BY <1>7, <2>1, <2>2
<1>9. ASSUME NEW f \in Flushes, Decline(f) \/ Postpone(f) PROVE KindsApart'
  <2>1. PICK k \in hand[f], v \in {"failed", "pending"} : SetAll({k}, v)
    BY <1>9 DEF Decline, Postpone
  <2>2. died' = died /\ \A p \in Passes : Took(p)' \subseteq Took(p)
    BY <1>9 DEF Decline, Postpone, TypeOK
  <2> HIDE DEF KindsApart, SetAll
  <2> QED
    BY <1>7, <2>1, <2>2
<1>10. ASSUME NEW f \in Flushes, MarkSent(f) \/ MarkRetry(f) \/ MarkDead(f) PROVE KindsApart'
  <2>1. PICK v \in {"sent", "pending", "dead"} : SetAll(hand[f], v)
    BY <1>10 DEF MarkSent, MarkRetry, MarkDead
  <2>2. Marked(f) /\ todo' = todo
    BY <1>10 DEF MarkSent, MarkRetry, MarkDead
  <2>3. hand' = hand \/ hand' = [hand EXCEPT ![f] = {}]
    BY <2>2 DEF Marked
  <2>4. \A p \in Passes : Took(p)' \subseteq Took(p)
    BY <2>2, <2>3 DEF TypeOK
  <2>5. \A i \in died' : i \in died \/ i \in Took(f)
    BY <1>10 DEF MarkSent, MarkRetry, MarkDead
  <2>6. \A i \in hand[f] : \A d \in Digests : i \notin Took(d)
    BY DEF TypeOK
  <2> QED
    BY <1>1, <2>1, <2>4, <2>5, <2>6
<1>11. ASSUME NEW f \in Flushes, EndFlush(f) PROVE KindsApart'
  <2>1. PICK old \in SUBSET {i \in Rows : status[i] = "dead"} : SetAll(old, "purged")
    BY <1>11 DEF EndFlush
  <2>2. UNCHANGED <<todo, hand, died>>
    BY <1>11 DEF EndFlush
  <2> QED
    BY <1>1, <2>1, <2>2
<1>12. ASSUME NEW d \in Digests, NEW S \in SUBSET Took(d), NEW v \in {"sent", "failed"},
              SetAll(S, v), died' = died, \A p \in Passes : Took(p)' \subseteq Took(p)
       PROVE  KindsApart'
  BY <1>1, <1>12 DEF TypeOK
<1>13. ASSUME NEW d \in Digests, MarkGroup(d) PROVE KindsApart'
  <2>1. PICK v \in {"sent", "failed"} : SetAll(hand[d], v)
    BY <1>13 DEF MarkGroup
  <2>2. died' = died /\ \A p \in Passes : Took(p)' \subseteq Took(p)
    BY <1>13 DEF MarkGroup, TypeOK
  <2>3. hand[d] \subseteq Took(d)
    OBVIOUS
  <2> HIDE DEF KindsApart, SetAll, Took
  <2> QED
    BY <1>12, <2>1, <2>2, <2>3
<1>14. ASSUME NEW d \in Digests, NEW c \in Channels,
              DeclineGroup(d, c) \/ PostponeGroup(d, c) \/ PrepareGroup(d, c)
       PROVE  KindsApart'
  <2>1. Group(d, c) \subseteq Took(d) /\ Group(d, c) \subseteq todo[d]
    BY DEF Group
  <2>2. died' = died /\ \A p \in Passes : Took(p)' \subseteq Took(p)
    <3>1. /\ died' = died /\ todo' = [todo EXCEPT ![d] = todo[d] \ Group(d, c)]
          /\ hand' = hand \/ hand' = [hand EXCEPT ![d] = Group(d, c)]
      BY <1>14 DEF DeclineGroup, PostponeGroup, PrepareGroup, TakeGroup
    <3> QED
      BY <2>1, <3>1 DEF TypeOK
  <2>3. status' = status \/ SetAll(Group(d, c), "failed")
    BY <1>14 DEF DeclineGroup, PostponeGroup, PrepareGroup
  <2> HIDE DEF KindsApart, SetAll, Took
  <2> QED
    BY <1>1, <1>12, <2>1, <2>2, <2>3
<1>15. ASSUME NEW p \in Passes, Crash(p) PROVE KindsApart'
  <2>1. status' = status /\ died' = died /\ \A q \in Passes : Took(q)' \subseteq Took(q)
    BY <1>15 DEF Crash, TypeOK
  <2> QED
    BY <1>1, <2>1
<1>16. ASSUME NEW i \in Rows, Revive(i) PROVE KindsApart'
  <2>1. /\ \A j \in Rows \ {i} : status'[j] = status[j]
        /\ i \in died /\ status'[i] = "pending" /\ UNCHANGED <<todo, hand, died>>
    BY <1>16 DEF Revive, TypeOK
  <2> QED
    BY <1>1, <2>1
<1>17. ASSUME NEW f \in Passes, Record(f) PROVE KindsApart'
  <2>1. status' = status /\ died' = died /\ \A q \in Passes : Took(q)' \subseteq Took(q)
    BY <1>17 DEF Record, TypeOK
  <2> QED
    BY <1>1, <2>1
<1>18. CASE \/ \E e \in Engines : Look(e)
            \/ \E p \in Passes : Prepare(p) \/ Send(p) \/ SendGroup(p) \/ EndDigests(p)
            \/ \E i \in Rows : RetryDue(i)
            \/ (\E c \in Channels : TurnOff(c)) \/ (\E a \in Alerts : Handle(a)) \/ WindowEnds
            \/ UNCHANGED vars
  <2>1. UNCHANGED <<status, todo, hand, died>>
    BY <1>18 DEF Look, Prepare, Send, SendGroup, EndDigests, RetryDue, TurnOff, Handle, WindowEnds, vars
  <2> QED
    BY <1>1, <2>1
<1>19. \A p \in Flushes \cup Digests : p \in Passes
  OBVIOUS
<1> HIDE DEF Base, KindsApart, Took, Goto, SetAll, Free, Passes, queue, pass, history
<1> QED
  BY <1>3, <1>4, <1>5, <1>6, <1>8, <1>9, <1>10, <1>11, <1>13, <1>14, <1>15, <1>16, <1>17, <1>18, <1>19
     DEF Next, Flush, Digest

LEMMA InitKinds == Init => KindsApart
BY DEF Init, KindsApart, Took, Passes

\* A pass over the queue and one over the digests never have the same row: only
\* two of a kind can.
THEOREM OnlyTheSameKind == Spec => [](\A f \in Flushes, d \in Digests : Took(f) \cap Took(d) = {})
<1>1. Base' => TypeOK'
  BY DEF Base
<1>2. Base /\ KindsApart => \A f \in Flushes, d \in Digests : Took(f) \cap Took(d) = {}
  BY DEF Base, TypeOK, KindsApart, Took, Passes
<1> QED
  BY <1>1, <1>2, InitBase, BaseStep, InitKinds, KindsStep, PTL DEF Spec

-----------------------------------------------------------------------------
(* One row that no two passes have had                                     *)

LEMMA HoldingIs ==
  ASSUME NEW p \in Passes, NEW i \in Rows
  PROVE  /\ i \in Holding(p) <=> Has(p, i)
         /\ i \in HeldBeside(p) <=> \E q \in Passes \ {p} : Has(q, i)
BY DEF Holding, HeldBeside, Has, AtWork

RowInv(i) == Owned(i) /\ (i \in Clean => Delivered(i))

Settled(i) == status[i] \in Final /\ status'[i] # status[i] => status'[i] = "purged" \/ Revive(i)

HistoryGrows == contested \subseteq contested' /\ torn \subseteq torn' /\ revived \subseteq revived'

Alone(p) == \A q \in Passes \ {p} : /\ todo'[q] = todo[q] /\ hand'[q] = hand[q] /\ pc'[q] = pc[q]
                                    /\ ok'[q] = ok[q] /\ seen'[q] = seen[q]

\* What is written of row i stays as it is.
SameRow(i) == /\ status'[i] = status[i] /\ attempts'[i] = attempts[i]
              /\ got'[i] = got[i] /\ lost'[i] = lost[i] /\ (i \in stuck' <=> i \in stuck)

\* A row that is had is not settled, and is delivered only when this is about
\* to be written.
LEMMA InHand ==
  ASSUME TypeOK, NEW i \in Rows, Owned(i), NEW p \in Passes, Has(p, i)
  PROVE  /\ i \notin stuck \ revived /\ status[i] \in {"pending", "processing", "digest"}
         /\ \A q \in Passes : Has(q, i) => q = p
         /\ i \in Clean /\ Delivered(i) =>
              /\ ~AboutToMark(p, i) => got[i] = 0
              /\ lost[i] <= attempts[i] + 1
              /\ ~(Marking(p, i) /\ ~ok[p]) => lost[i] <= attempts[i]
              /\ attempts[i] < MaxAttempts /\ seen[p][i] = attempts[i]
<1>1. /\ i \notin stuck \ revived /\ status[i] \in {"pending", "processing", "digest"}
      /\ \A q \in Passes : Has(q, i) => q = p
  BY DEF Owned, Has, Passes
<1>2. ASSUME i \in Clean, Delivered(i)
      PROVE  /\ ~AboutToMark(p, i) => got[i] = 0
             /\ lost[i] <= attempts[i] + 1
             /\ ~(Marking(p, i) /\ ~ok[p]) => lost[i] <= attempts[i]
             /\ attempts[i] < MaxAttempts /\ seen[p][i] = attempts[i]
  <2>1. i \notin stuck /\ status[i] \notin Final
    BY <1>1, <1>2 DEF Clean, Final
  <2>2. \A q \in Passes : Marking(q, i) => q = p
    BY <1>1 DEF Marking, Has, AtWork
  <2>3. ~AboutToMark(p, i) => got[i] = 0
    BY <1>1, <1>2, <2>1, <2>2 DEF Delivered, AboutToMark, TypeOK
  <2>4. lost[i] <= attempts[i] \/ (lost[i] = attempts[i] + 1 /\ Marking(p, i) /\ ~ok[p])
    BY <1>2, <2>1, <2>2 DEF Delivered
  <2>5. attempts[i] < MaxAttempts /\ seen[p][i] = attempts[i]
    BY <1>2, <2>1 DEF Delivered
  <2>6. lost[i] \in Nat /\ attempts[i] \in Nat
    BY DEF TypeOK
  <2> QED
    BY <2>3, <2>4, <2>5, <2>6
<1> QED
  BY <1>1, <1>2

\* Somebody does something else: nobody gets the row, or has it for something new.
LEMMA Aside ==
  ASSUME TypeOK, NEW i \in Rows, RowInv(i), HistoryGrows, SameRow(i),
         \A p \in Passes :
           /\ i \in todo'[p] => i \in todo[p]
           /\ i \in hand'[p] /\ pc'[p] \in AtWork => i \in hand[p] /\ pc[p] \in AtWork
           /\ Has(p, i)' => seen'[p][i] = seen[p][i]
           /\ Marking(p, i) => Marking(p, i)' /\ ok'[p] = ok[p]
  PROVE  RowInv(i)' /\ Settled(i)
<1> USE DEF RowInv, HistoryGrows, SameRow
<1>1. \A p \in Passes : Has(p, i)' => Has(p, i)
  BY DEF Has
<1>2. Owned(i)'
  BY <1>1 DEF Owned, Passes
<1>3. i \in Clean' => i \in Clean
  BY DEF Clean
<1>4. ASSUME i \in Clean' PROVE Delivered(i)'
  <2>1. Delivered(i)
    BY <1>3, <1>4
  <2>2. \A p \in Passes : AboutToMark(p, i) => AboutToMark(p, i)'
    BY DEF AboutToMark
  <2>3. \A p \in Passes : Has(p, i)' => seen'[p][i] = attempts'[i]
    BY <1>1, <2>1 DEF Delivered
  <2>4. got'[i] = 1 => status'[i] = "sent" \/ i \in stuck' \/ \E p \in Passes : AboutToMark(p, i)'
    BY <2>1, <2>2 DEF Delivered
  <2>5. status'[i] \notin Final /\ i \notin stuck' =>
          /\ attempts'[i] < MaxAttempts
          /\ \/ lost'[i] <= attempts'[i]
             \/ lost'[i] = attempts'[i] + 1 /\ \E p \in Passes : Marking(p, i)' /\ ~ok'[p]
    BY <2>1 DEF Delivered
  <2> QED
    BY <2>1, <2>3, <2>4, <2>5 DEF Delivered
<1> QED
  BY <1>2, <1>4 DEF Settled

\* The same when one pass has moved.
LEMMA Beside ==
  ASSUME TypeOK, NEW i \in Rows, RowInv(i), HistoryGrows, NEW p \in Passes, Alone(p), SameRow(i),
         i \in todo'[p] => i \in todo[p],
         i \in hand'[p] /\ pc'[p] \in AtWork => i \in hand[p] /\ pc[p] \in AtWork,
         Has(p, i)' => seen'[p][i] = seen[p][i],
         ~Marking(p, i)
  PROVE  RowInv(i)' /\ Settled(i)
<1>1. \A q \in Passes \ {p} :
        /\ i \in todo'[q] => i \in todo[q]
        /\ i \in hand'[q] /\ pc'[q] \in AtWork => i \in hand[q] /\ pc[q] \in AtWork
        /\ Has(q, i)' => seen'[q][i] = seen[q][i]
        /\ Marking(q, i) => Marking(q, i)' /\ ok'[q] = ok[q]
  BY DEF Alone, Marking
<1> QED
  BY <1>1, Aside

\* Nobody has the row, and it appears in the table or is purged.
LEMMA Unheld ==
  ASSUME TypeOK, NEW i \in Rows, RowInv(i), HistoryGrows,
         status[i] = "none" \/ (status[i] = "dead" /\ status'[i] = "purged"),
         UNCHANGED <<attempts, got, lost, stuck, todo, hand>>,
         i \in revived' => i \in revived,
         \A p \in Passes : pc'[p] \in AtWork => pc[p] \in AtWork
  PROVE  RowInv(i)'
<1> USE DEF RowInv, HistoryGrows
<1>1. i \notin stuck \ revived /\ \A p \in Passes : ~Has(p, i)
  BY DEF Owned, Has, Passes
<1>2. \A p \in Passes : i \notin todo[p] /\ ~Has(p, i)'
  BY <1>1 DEF Has
<1>3. Owned(i)'
  BY <1>1, <1>2 DEF Owned, Has, Passes
<1>4. i \in Clean' => i \in Clean
  BY DEF Clean
<1>5. ASSUME i \in Clean' PROVE Delivered(i)'
  <2>1. \A p \in Passes : ~Marking(p, i) /\ ~AboutToMark(p, i)
    BY <1>1 DEF Marking, AboutToMark, Has, AtWork
  <2>2. Delivered(i) /\ i \notin stuck
    BY <1>1, <1>4, <1>5 DEF Clean
  <2>3. got[i] # 1
    BY <2>1, <2>2 DEF Delivered
  <2>4. status[i] = "none" => attempts[i] < MaxAttempts /\ lost[i] <= attempts[i]
    BY <2>1, <2>2 DEF Delivered, Final
  <2>5. status'[i] \notin Final => status[i] = "none"
    BY DEF Final
  <2> QED
    BY <1>2, <2>2, <2>3, <2>4, <2>5 DEF Delivered
<1> QED
  BY <1>3, <1>5

\* The pass that has the row goes on with it: takes it, or hears of its delivery.
LEMMA Onward ==
  ASSUME TypeOK, TypeOK', NEW i \in Rows, RowInv(i), HistoryGrows, NEW p \in Passes, Alone(p),
         Has(p, i), ~Marking(p, i), stuck' = stuck, revived' = revived, attempts' = attempts,
         seen' = seen, pc'[p] \in AtWork, i \notin todo'[p], i \in hand'[p],
         \/ status'[i] = IF p \in Flushes THEN "processing" ELSE "digest"
         \/ p \notin Digests /\ i \in revived /\ status'[i] = "pending",
         \/ got'[i] = got[i] /\ lost'[i] = lost[i]
         \/ got'[i] = got[i] + 1 /\ lost'[i] = lost[i] /\ Marking(p, i)' /\ ok'[p]
         \/ got'[i] = got[i] /\ lost'[i] <= lost[i] + 1 /\ Marking(p, i)' /\ ~ok'[p]
  PROVE  RowInv(i)' /\ Settled(i)
<1> USE DEF RowInv, HistoryGrows
<1>1. /\ i \notin stuck \ revived /\ status[i] \in {"pending", "processing", "digest"}
      /\ \A q \in Passes \ {p} : ~Has(q, i)
  BY InHand
<1>2. \A q \in Passes \ {p} : ~Has(q, i)'
  BY <1>1 DEF Alone, Has
<1>3. Owned(i)'
  <2>1. \A q, r \in Passes : Has(q, i)' /\ Has(r, i)' => q = r
    BY <1>2
  <2>2. \A q \in Passes : pc'[q] \in AtWork => i \notin todo'[q] \cap hand'[q]
    BY DEF Owned, Alone
  <2>3. \A f \in Flushes : /\ i \in todo'[f] => status'[i] = "pending"
                           /\ i \in hand'[f] /\ pc'[f] \in AtWork =>
                                status'[i] = "processing" \/ (i \in revived' /\ status'[i] = "pending")
    BY <1>2 DEF Has, Passes
  <2>4. \A d \in Digests : Has(d, i)' => status'[i] = "digest"
    BY <1>2, NotificationsAssumption DEF Passes
  <2> QED
    BY <1>1, <2>1, <2>2, <2>3, <2>4 DEF Owned
<1>4. i \in Clean' => i \in Clean
  BY DEF Clean
<1>5. ASSUME i \in Clean' PROVE Delivered(i)'
  <2>1. i \in Clean /\ i \notin stuck /\ ~AboutToMark(p, i)
    BY <1>1, <1>4, <1>5 DEF Clean, AboutToMark
  <2>2. got[i] = 0 /\ lost[i] <= attempts[i] /\ attempts[i] < MaxAttempts /\ seen[p][i] = attempts[i]
    BY <2>1, InHand
  <2>3. lost[i] \in Nat /\ attempts[i] \in Nat /\ lost'[i] \in 0..MaxAttempts /\ MaxAttempts \in Nat
    BY NotificationsAssumption DEF TypeOK
  <2>4. \A q \in Passes : Has(q, i)' => seen'[q][i] = attempts'[i]
    BY <1>2, <2>2
  <2>5. CASE got'[i] = got[i] /\ lost'[i] = lost[i]
    BY <2>2, <2>3, <2>4, <2>5 DEF Delivered
  <2>6. CASE got'[i] = got[i] + 1 /\ lost'[i] = lost[i] /\ Marking(p, i)' /\ ok'[p]
    BY <2>2, <2>3, <2>4, <2>6 DEF Delivered, AboutToMark
  <2>7. CASE got'[i] = got[i] /\ lost'[i] <= lost[i] + 1 /\ Marking(p, i)' /\ ~ok'[p]
    BY <2>2, <2>3, <2>4, <2>7 DEF Delivered
  <2> QED
    BY <2>5, <2>6, <2>7
<1> QED
  BY <1>1, <1>3, <1>5 DEF Settled, Final

\* The pass that has the row writes what became of it, and has it no more.
LEMMA LetGo ==
  ASSUME TypeOK, NEW i \in Rows, RowInv(i), HistoryGrows, NEW p \in Passes, Alone(p),
         Has(p, i), ~Has(p, i)', got'[i] = got[i], lost'[i] = lost[i],
         i \in stuck' => i \in stuck,
         AboutToMark(p, i) => status'[i] = "sent" \/ i \in torn',
         \/ status'[i] \in Final \/ i \in torn'
         \/ attempts'[i] = attempts[i] /\ ~Marking(p, i)
         \/ attempts'[i] = seen[p][i] + 1 /\ attempts'[i] < MaxAttempts
  PROVE  RowInv(i)' /\ Settled(i)
<1> USE DEF RowInv, HistoryGrows
<1>1. /\ i \notin stuck \ revived /\ status[i] \in {"pending", "processing", "digest"}
      /\ \A q \in Passes \ {p} : ~Has(q, i)
  BY InHand
<1>2. \A q \in Passes : ~Has(q, i)'
  BY <1>1 DEF Has, Alone
<1>3. Owned(i)'
  <2>1. \A q \in Passes : i \notin todo'[q] /\ (pc'[q] \in AtWork => i \notin hand'[q])
    BY <1>2 DEF Has
  <2>2. i \notin stuck' \ revived'
    BY <1>1
  <2> QED
    BY <1>2, <2>1, <2>2 DEF Owned, Passes
<1>4. i \in Clean' => i \in Clean /\ i \notin torn'
  BY DEF Clean
<1>5. ASSUME i \in Clean' PROVE Delivered(i)'
  <2>1. /\ Delivered(i) /\ i \in Clean /\ i \notin torn'
        /\ ~AboutToMark(p, i) => got[i] = 0
        /\ lost[i] <= attempts[i] + 1
        /\ ~(Marking(p, i) /\ ~ok[p]) => lost[i] <= attempts[i]
        /\ attempts[i] < MaxAttempts /\ seen[p][i] = attempts[i]
    BY <1>4, <1>5, InHand
  <2>2. got[i] = 1 => status'[i] = "sent"
    BY <2>1
  <2>4. status'[i] \notin Final => attempts'[i] < MaxAttempts /\ lost[i] <= attempts'[i]
    BY <2>1
  <2> QED
    BY <1>2, <2>1, <2>2, <2>4 DEF Delivered
<1> QED
  BY <1>1, <1>3, <1>5 DEF Settled, Final

-----------------------------------------------------------------------------
LEMMA SelectRow ==
  ASSUME TypeOK, NEW i \in Rows \ contested', RowInv(i), NEW p \in Passes, NEW S,
         Goto(p, "idle", "each"), todo[p] = {}, Select(p, S),
         i \in S => status[i] = IF p \in Flushes THEN "pending" ELSE "digest"
  PROVE  RowInv(i)' /\ Settled(i)
<1>1. /\ pc[p] = "idle" /\ pc' = [pc EXCEPT ![p] = "each"] /\ todo' = [todo EXCEPT ![p] = S]
      /\ seen' = [seen EXCEPT ![p] = [j \in Rows |-> IF j \in S THEN attempts[j] ELSE 0]]
      /\ UNCHANGED <<status, attempts, hand, ok, got, lost, stuck, torn, revived>>
      /\ contested' = contested \cup (S \cap HeldBeside(p))
  BY DEF Select, Goto, queue
<1>2. /\ Alone(p) /\ pc'[p] = "each" /\ todo'[p] = S
      /\ seen'[p][i] = IF i \in S THEN attempts[i] ELSE 0
  BY <1>1 DEF Alone, TypeOK
<1>3. HistoryGrows /\ SameRow(i)
  BY <1>1 DEF HistoryGrows, SameRow
<1>4. CASE i \notin S
  <2>1. ~Marking(p, i) /\ pc'[p] \notin AtWork
    BY <1>1, <1>2 DEF Marking, AtWork
  <2>2. ~Has(p, i)'
    BY <1>2, <1>4, <2>1 DEF Has
  <2> QED
    BY <1>1, <1>2, <1>3, <1>4, <2>1, <2>2, Beside
<1>5. CASE i \in S
  <2> USE DEF RowInv
  <2>1. \A q \in Passes : ~Has(q, i)
    <3>1. \A q \in Passes \ {p} : ~Has(q, i)
      BY <1>1, <1>5, HoldingIs
    <3> QED
      BY <1>1, <3>1 DEF Has, AtWork
  <2>2. \A q \in Passes \ {p} : ~Has(q, i)'
    BY <1>2, <2>1 DEF Has, Alone
  <2>3. i \notin stuck \ revived /\ status[i] \notin Final
    BY <1>5 DEF Owned, Final
  <2>4. Owned(i)'
    <3>1. \A q \in Passes : pc'[q] \in AtWork => i \notin todo'[q] \cap hand'[q]
      BY <1>2, <2>1 DEF Has, Alone, AtWork
    <3>2. \A f \in Flushes :
            /\ i \in todo'[f] => status'[i] = "pending"
            /\ i \in hand'[f] /\ pc'[f] \in AtWork =>
                 status'[i] = "processing" \/ (i \in revived' /\ status'[i] = "pending")
      BY <1>1, <1>2, <1>5, <2>2 DEF Has, Passes, AtWork
    <3>3. \A d \in Digests : Has(d, i)' => status'[i] = "digest"
      BY <1>1, <1>5, <2>2, NotificationsAssumption DEF Passes
    <3> QED
      BY <1>1, <2>2, <2>3, <3>1, <3>2, <3>3 DEF Owned
  <2>5. ASSUME i \in Clean' PROVE Delivered(i)'
    <3>1. i \in Clean /\ i \notin stuck
      BY <1>3, <2>3, <2>5 DEF Clean, HistoryGrows
    <3>2. \A q \in Passes : ~Marking(q, i) /\ ~AboutToMark(q, i)
      BY <2>1 DEF Marking, AboutToMark, Has, AtWork
    <3>3. /\ Delivered(i) /\ got[i] # 1 /\ attempts[i] < MaxAttempts /\ lost[i] <= attempts[i]
      BY <1>5, <2>3, <3>1, <3>2 DEF Delivered, Final
    <3>4. \A q \in Passes : Has(q, i)' => seen'[q][i] = attempts'[i]
      BY <1>1, <1>2, <1>5, <2>2
    <3> QED
      BY <1>1, <3>3, <3>4 DEF Delivered
  <2> QED
    BY <1>1, <2>4, <2>5 DEF Settled
<1> QED
  BY <1>4, <1>5

\* A flush is through with the row it has.
LEMMA DoneWith ==
  ASSUME TypeOK, NEW i \in Rows, RowInv(i), NEW f \in Flushes, NEW k \in Rows, NEW v,
         HistoryGrows, hand[f] = {k}, pc[f] \in AtWork, SetAll({k}, v),
         Alone(f), pc'[f] \notin AtWork, UNCHANGED <<todo, got, lost, stuck>>,
         \A j \in Rows \ {k} : attempts'[j] = attempts[j],
         \A j \in todo[f] : seen'[f][j] = seen[f][j],
         AboutToMark(f, k) => v = "sent",
         \/ v \in Final
         \/ attempts'[k] = attempts[k] /\ ~Marking(f, k)
         \/ attempts'[k] = seen[f][k] + 1 /\ attempts'[k] < MaxAttempts
  PROVE  RowInv(i)' /\ Settled(i)
<1>1. f \in Passes
  BY DEF Passes
<1>2. CASE i = k
  <2>1. Has(f, i) /\ i \notin todo[f]
    BY <1>1, <1>2 DEF Has, RowInv, Owned
  <2>2. ~Has(f, i)'
    BY <2>1 DEF Has
  <2>3. status'[i] = v
    BY <1>2 DEF SetAll
  <2> QED
    BY <1>1, <1>2, <2>1, <2>2, <2>3, LetGo
<1>3. CASE i # k
  <2>1. SameRow(i) /\ ~Marking(f, i)
    BY <1>3 DEF SetAll, SameRow, Marking
  <2>2. Has(f, i)' => seen'[f][i] = seen[f][i]
    BY DEF Has
  <2> QED
    BY <1>1, <2>1, <2>2, Beside
<1> QED
  BY <1>2, <1>3

LEMMA RowStep ==
  ASSUME Base, TypeOK', KindsApart, Next, NEW i \in Rows \ contested', RowInv(i)
  PROVE  RowInv(i)' /\ Settled(i)
<1> USE NotificationsAssumption DEF Base, Passes, Goto, SetAll, Free, SameRow, queue, pass, history,
      HistoryGrows
<1>1. ASSUME NEW k \in Rows, NEW pair, NEW v \in {"pending", "digest"}, AddRow(k, pair, v),
             UNCHANGED <<pass, history>>
      PROVE  RowInv(i)' /\ Settled(i)
  <2>1. CASE k = i
    <3>1. status[i] = "none"
      BY <1>1, <2>1, VacantIs DEF AddRow, RowsExist
    <3>2. attempts' = attempts
      BY <1>1 DEF AddRow
    <3> QED
      BY <1>1, <3>1, <3>2, Unheld DEF Settled, Final
  <2>2. CASE k # i
    <3>1. status'[i] = status[i] /\ attempts' = attempts
      BY <1>1, <2>2 DEF AddRow, TypeOK
    <3> QED
      BY <1>1, <3>1, Aside DEF Marking
  <2> QED
    BY <2>1, <2>2
<1>2. ASSUME NEW k \in Rows, NEW a \in Alerts, NEW c \in Channels, Enqueue(k, a, c)
      PROVE  RowInv(i)' /\ Settled(i)
  <2>1. PICK v \in {"pending", "digest"} : AddRow(k, <<a, c>>, v)
    BY <1>2 DEF Enqueue
  <2>2. UNCHANGED <<pass, history>>
    BY <1>2 DEF Enqueue
  <2> QED
    BY <1>1, <2>1, <2>2
<1>3. ASSUME NEW e \in Engines, Escalate(e) PROVE RowInv(i)' /\ Settled(i)
  <2>1. PICK k \in Rows : AddRow(k, aim[e], "pending")
    BY <1>3 DEF Escalate
  <2>2. UNCHANGED <<pass, history>>
    BY <1>3 DEF Escalate
  <2> QED
    BY <1>1, <2>1, <2>2
<1>4. CASE \/ \E e \in Engines : Look(e)
           \/ \E k \in Rows : RetryDue(k)
           \/ (\E c \in Channels : TurnOff(c)) \/ (\E a \in Alerts : Handle(a)) \/ WindowEnds
  <2>1. UNCHANGED <<status, attempts, pass, history>>
    BY <1>4 DEF Look, RetryDue, TurnOff, Handle, WindowEnds
  <2> QED
    BY <2>1, Aside DEF Marking
<1>5. ASSUME NEW f \in Flushes, Fetch(f) PROVE RowInv(i)' /\ Settled(i)
  <2>1. PICK S \in FirstOf(Ready, Batch) : Select(f, S)
    BY <1>5 DEF Fetch
  <2>2. Goto(f, "idle", "each") /\ todo[f] = {}
    BY <1>5 DEF Fetch, OneAtATime
  <2>3. i \in S => status[i] = "pending"
    BY DEF FirstOf, Ready
  <2> QED
    BY <2>1, <2>2, <2>3, SelectRow
<1>6. ASSUME NEW d \in Digests, FetchDigests(d) PROVE RowInv(i)' /\ Settled(i)
  <2>1. PICK S \in SUBSET {k \in Rows : status[k] = "digest"} : Select(d, S)
    BY <1>6 DEF FetchDigests, FirstOf
  <2>2. Goto(d, "idle", "each") /\ todo[d] = {} /\ d \notin Flushes
    BY <1>6 DEF FetchDigests, OneAtATime
  <2> QED
    BY <2>1, <2>2, SelectRow
<1>7. ASSUME NEW f \in Flushes, Take(f) PROVE RowInv(i)' /\ Settled(i)
  <2>1. PICK k \in todo[f] : /\ todo' = [todo EXCEPT ![f] = todo[f] \ {k}]
                             /\ hand' = [hand EXCEPT ![f] = {k}] /\ SetAll({k}, "processing")
    BY <1>7 DEF Take
  <2>2. /\ pc[f] = "each" /\ pc' = [pc EXCEPT ![f] = "load"]
        /\ UNCHANGED <<attempts, seen, ok, history>>
    BY <1>7 DEF Take
  <2>3. /\ Alone(f) /\ pc'[f] \in AtWork /\ todo'[f] = todo[f] \ {k} /\ hand'[f] = {k}
        /\ ~Marking(f, i)
    BY <2>1, <2>2 DEF Alone, AtWork, Marking, TypeOK
  <2>4. CASE i = k
    <3>1. Has(f, i) /\ status'[i] = "processing"
      BY <2>1, <2>4 DEF Has
    <3> QED
      BY <2>2, <2>3, <2>4, <3>1, Onward
  <2>5. CASE i # k
    <3>1. status'[i] = status[i]
      BY <2>1, <2>5
    <3> QED
      BY <2>2, <2>3, <2>5, <3>1, Beside
  <2> QED
    BY <2>4, <2>5
<1>8. ASSUME NEW f \in Flushes, Decline(f) \/ Postpone(f) PROVE RowInv(i)' /\ Settled(i)
  <2>1. PICK k \in hand[f], v \in {"failed", "pending"} : SetAll({k}, v)
    BY <1>8 DEF Decline, Postpone
  <2>2. /\ pc[f] = "load" /\ pc' = [pc EXCEPT ![f] = "each"] /\ Free(f)
        /\ UNCHANGED <<attempts, todo, history>>
    BY <1>8 DEF Decline, Postpone
  <2>3. k \in Rows /\ hand[f] = {k}
    BY <2>1, <2>2 DEF OneAtATime, AtWork
  <2>4. Alone(f) /\ pc'[f] \notin AtWork /\ ~Marking(f, k) /\ ~AboutToMark(f, k)
    BY <2>2 DEF Alone, AtWork, AboutToMark, Marking, TypeOK
  <2>5. \A j \in todo[f] : seen'[f][j] = seen[f][j]
    BY <2>2 DEF TypeOK
  <2> QED
    BY <2>1, <2>2, <2>3, <2>4, <2>5, DoneWith DEF AtWork
<1>9. ASSUME NEW f \in Flushes, Prepare(f) PROVE RowInv(i)' /\ Settled(i)
  <2>1. /\ pc[f] = "load" /\ pc' = [pc EXCEPT ![f] = "send"]
        /\ UNCHANGED <<status, attempts, todo, hand, seen, ok, history>>
    BY <1>9 DEF Prepare
  <2>2. Alone(f) /\ pc[f] \in AtWork /\ ~Marking(f, i)
    BY <2>1 DEF Alone, AtWork, Marking, TypeOK
  <2> QED
    BY <2>1, <2>2, Beside
<1>10. ASSUME NEW p \in Passes, Send(p) \/ SendGroup(p),
              p \in Flushes => Send(p), p \notin Flushes => p \in Digests
       PROVE  RowInv(i)' /\ Settled(i)
  <2>1. Answered(p)
    BY <1>10 DEF Send, SendGroup
  <2>2. /\ pc[p] \in {"load", "send"} /\ pc' = [pc EXCEPT ![p] = "mark"]
        /\ UNCHANGED <<status, attempts, todo, hand, seen, contested, stuck, torn, revived>>
    BY <1>10 DEF Send, SendGroup
  <2>3. \A q \in Passes \ {p} : ok'[q] = ok[q]
    BY <2>1 DEF Answered, TypeOK
  <2>4. /\ Alone(p) /\ pc[p] \in AtWork /\ pc'[p] = "mark" /\ pc'[p] \in AtWork
        /\ ~Marking(p, i)
    BY <2>2, <2>3 DEF Alone, AtWork, Marking, TypeOK
  <2>5. /\ got[i] \in 0..2 /\ lost[i] \in 0..MaxAttempts
    BY DEF TypeOK
  <2>6. CASE i \in hand[p]
    <3>1. Has(p, i) /\ i \notin todo[p] /\ Marking(p, i)'
      BY <2>2, <2>4, <2>6 DEF Has, Marking, RowInv, Owned
    <3>2. \/ status[i] = IF p \in Flushes THEN "processing" ELSE "digest"
          \/ p \notin Digests /\ i \in revived /\ status[i] = "pending"
      BY <1>10, <2>4, <2>6, <3>1 DEF RowInv, Owned
    <3>3. \/ got'[i] = got[i] /\ lost'[i] = lost[i]
          \/ got'[i] = got[i] + 1 /\ lost'[i] = lost[i] /\ ok'[p]
          \/ got'[i] = got[i] /\ lost'[i] <= lost[i] + 1 /\ ~ok'[p]
      <4>1. ok[p] \in BOOLEAN /\ ok \in [Passes -> BOOLEAN]
        BY DEF TypeOK
      <4>2. \/ ok'[p] /\ got' = CountFor(p, got, 2) /\ lost' = lost
            \/ ~ok'[p] /\ got' = got /\ lost' \in {lost, CountFor(p, lost, MaxAttempts)}
        BY <2>1, <4>1 DEF Answered
      <4>3. CountFor(p, got, 2)[i] \in {got[i], got[i] + 1}
        BY DEF CountFor
      <4>4. CountFor(p, lost, MaxAttempts)[i] \in {lost[i], lost[i] + 1}
        BY DEF CountFor
      <4> QED
        BY <2>5, <4>2, <4>3, <4>4
    <3> QED
      BY <2>2, <2>4, <2>6, <3>1, <3>2, <3>3, Onward
  <2>7. CASE i \notin hand[p]
    <3>1. got'[i] = got[i] /\ lost'[i] = lost[i]
      BY <2>1, <2>7 DEF Answered, CountFor, TypeOK
    <3> QED
      BY <2>2, <2>4, <2>7, <3>1, Beside
  <2> QED
    BY <2>6, <2>7
<1>11. ASSUME NEW f \in Flushes, MarkSent(f) \/ MarkRetry(f) \/ MarkDead(f)
       PROVE  RowInv(i)' /\ Settled(i)
  <2>1. PICK v \in {"sent", "pending", "dead"} : /\ SetAll(hand[f], v) /\ (ok[f] => v = "sent")
                                                 /\ v = "pending" => MarkRetry(f)
                                                 /\ v # "pending" => attempts' = attempts
    BY <1>11 DEF MarkSent, MarkRetry, MarkDead
  <2>2. /\ Marked(f)
        /\ UNCHANGED <<todo, got, lost, contested, stuck, torn, revived>>
    BY <1>11 DEF MarkSent, MarkRetry, MarkDead
  <2>3. /\ pc[f] = "mark" /\ Alone(f) /\ pc'[f] \notin AtWork
    BY <2>2 DEF Marked, Alone, AtWork, TypeOK
  <2>4. PICK k \in Rows : hand[f] = {k}
    BY <2>3 DEF OneAtATime, AtWork
  <2>5. AboutToMark(f, k) => v = "sent"
    BY <2>1 DEF AboutToMark
  <2>6. \A j \in todo[f] : seen'[f][j] = seen[f][j]
    BY <2>2 DEF Marked, TypeOK
  <2>7. \A j \in Rows \ {k} : attempts'[j] = attempts[j]
    BY <2>1, <2>4 DEF MarkRetry, TypeOK
  <2>8. v \in Final \/ (attempts'[k] = seen[f][k] + 1 /\ attempts'[k] < MaxAttempts)
    BY <2>1, <2>4 DEF MarkRetry, Final, TypeOK
  <2> HIDE DEF Passes, Goto, SetAll, Free, SameRow, queue, pass
  <2> QED
    BY <2>1, <2>2, <2>3, <2>4, <2>5, <2>6, <2>7, <2>8, DoneWith DEF AtWork
<1>12. ASSUME NEW p \in Passes, pc' = [pc EXCEPT ![p] = "each"], pc[p] = "log", Free(p),
              UNCHANGED <<status, attempts, todo, history>>
       PROVE  RowInv(i)' /\ Settled(i)
  <2>1. Alone(p) /\ pc'[p] \notin AtWork /\ ~Marking(p, i)
    BY <1>12 DEF Alone, AtWork, Marking, TypeOK
  <2>2. Has(p, i)' => seen'[p][i] = seen[p][i]
    BY <1>12, <2>1 DEF Has, TypeOK
  <2> QED
    BY <1>12, <2>1, <2>2, Beside
<1>13. ASSUME NEW f \in Flushes, Record(f) PROVE RowInv(i)' /\ Settled(i)
  BY <1>12, <1>13 DEF Record
<1>14. ASSUME NEW p \in Passes, EndFlush(p) \/ EndDigests(p) PROVE RowInv(i)' /\ Settled(i)
  <2>1. /\ pc[p] = "each" /\ pc' = [pc EXCEPT ![p] = "idle"]
        /\ UNCHANGED <<attempts, todo, hand, seen, ok, history>>
        /\ status'[i] = status[i] \/ (status[i] = "dead" /\ status'[i] = "purged")
    BY <1>14 DEF EndFlush, EndDigests
  <2>2. /\ Alone(p) /\ pc'[p] \notin AtWork /\ ~Marking(p, i)
        /\ \A q \in Passes : pc'[q] \in AtWork => pc[q] \in AtWork
    BY <2>1 DEF Alone, AtWork, Marking, TypeOK
  <2>3. CASE status'[i] = status[i]
    BY <2>1, <2>2, <2>3, Beside
  <2>4. CASE status[i] = "dead" /\ status'[i] = "purged"
    BY <2>1, <2>2, <2>4, Unheld DEF Settled
  <2> QED
    BY <2>1, <2>3, <2>4
<1>15. ASSUME NEW d \in Digests, MarkGroup(d) PROVE RowInv(i)' /\ Settled(i)
  <2>1. /\ pc[d] = "mark" /\ pc' = [pc EXCEPT ![d] = "each"] /\ Free(d)
        /\ SetAll(hand[d], IF ok[d] THEN "sent" ELSE "failed")
        /\ UNCHANGED <<attempts, todo, history>>
    BY <1>15 DEF MarkGroup
  <2>2. Alone(d) /\ pc[d] \in AtWork /\ pc'[d] \notin AtWork /\ hand'[d] = {}
    BY <2>1 DEF Alone, AtWork, TypeOK
  <2>3. CASE i \in hand[d]
    <3>1. Has(d, i) /\ i \notin todo[d]
      BY <2>2, <2>3 DEF Has, RowInv, Owned
    <3>2. ~Has(d, i)' /\ status'[i] \in Final
      BY <2>1, <2>2, <2>3, <3>1 DEF Has, Final
    <3>3. AboutToMark(d, i) => status'[i] = "sent"
      BY <2>1, <2>3 DEF AboutToMark
    <3> QED
      BY <2>1, <2>2, <3>1, <3>2, <3>3, LetGo
  <2>4. CASE i \notin hand[d]
    <3>1. status'[i] = status[i] /\ ~Marking(d, i)
      BY <2>1, <2>4 DEF Marking
    <3>2. Has(d, i)' => seen'[d][i] = seen[d][i]
      BY <2>1, <2>2 DEF Has, TypeOK
    <3> QED
      BY <2>1, <2>2, <3>1, <3>2, Beside
  <2> QED
    BY <2>3, <2>4
<1>16. ASSUME NEW d \in Digests, NEW c \in Channels,
              DeclineGroup(d, c) \/ PostponeGroup(d, c) \/ PrepareGroup(d, c)
       PROVE  RowInv(i)' /\ Settled(i)
  <2>1. /\ pc[d] = "each" /\ todo' = [todo EXCEPT ![d] = todo[d] \ Group(d, c)]
        /\ UNCHANGED <<attempts, seen, ok, history>>
    BY <1>16 DEF DeclineGroup, PostponeGroup, PrepareGroup, TakeGroup
  <2>2. ~AboutToMark(d, i) /\ ~Marking(d, i) /\ todo'[d] = todo[d] \ Group(d, c)
    BY <2>1 DEF AboutToMark, Marking, TypeOK
  <2>3. CASE DeclineGroup(d, c)
    <3>1. Alone(d) /\ pc'[d] \notin AtWork /\ SetAll(Group(d, c), "failed")
      BY <2>1, <2>3 DEF DeclineGroup, Alone, AtWork, TypeOK
    <3>2. CASE i \in Group(d, c)
      <4>1. Has(d, i)
        BY <3>2 DEF Group, Has
      <4>2. ~Has(d, i)' /\ status'[i] \in Final
        BY <2>1, <2>2, <3>1, <3>2, <4>1 DEF Has, Final
      <4> QED
        BY <2>1, <2>2, <3>1, <4>1, <4>2, LetGo
    <3>3. CASE i \notin Group(d, c)
      <4>1. status'[i] = status[i]
        BY <3>1, <3>3
      <4> QED
        BY <2>1, <2>2, <3>1, <4>1, Beside
    <3> QED
      BY <3>2, <3>3
  <2>4. CASE PostponeGroup(d, c)
    <3>1. Alone(d) /\ pc'[d] \notin AtWork /\ status' = status
      BY <2>1, <2>4 DEF PostponeGroup, Alone, AtWork, TypeOK
    <3> QED
      BY <2>1, <2>2, <3>1, Beside
  <2>5. CASE PrepareGroup(d, c)
    <3>1. Alone(d) /\ pc'[d] \in AtWork /\ hand'[d] = Group(d, c) /\ status' = status
      BY <2>1, <2>5 DEF PrepareGroup, Alone, AtWork, TypeOK
    <3>2. CASE i \in Group(d, c)
      <4>1. Has(d, i)
        BY <3>2 DEF Group, Has
      <4>2. status[i] = "digest" /\ d \notin Flushes
        BY <4>1 DEF RowInv, Owned
      <4> QED
        BY <2>1, <2>2, <3>1, <3>2, <4>1, <4>2, Onward
    <3>3. CASE i \notin Group(d, c)
      BY <2>1, <2>2, <3>1, <3>3, Beside
    <3> QED
      BY <3>2, <3>3
  <2> QED
    BY <1>16, <2>3, <2>4, <2>5
\* What was in its hand is stuck, or torn; what it had not begun is as it was.
<1>17. ASSUME NEW p \in Passes, Crash(p) PROVE RowInv(i)' /\ Settled(i)
  <2>1. /\ UNCHANGED <<status, attempts, got, lost, contested, revived>>
        /\ pc' = [pc EXCEPT ![p] = "idle"] /\ todo' = [todo EXCEPT ![p] = {}]
        /\ hand' = [hand EXCEPT ![p] = {}] /\ ok' = [ok EXCEPT ![p] = FALSE]
        /\ seen' = [seen EXCEPT ![p] = [j \in Rows |-> 0]]
        /\ stuck \subseteq stuck' /\ torn \subseteq torn'
    BY <1>17 DEF Crash
  <2>2. /\ i \in stuck' => i \in stuck \/ (p \in Flushes /\ pc[p] \in AtWork /\ i \in hand[p])
        /\ p \in Flushes /\ pc[p] \in AtWork /\ i \in hand[p] => i \in stuck'
        /\ p \in Digests /\ Marking(p, i) => i \in torn'
    BY <1>17 DEF Crash, AtWork, Marking
  <2>3. Alone(p) /\ todo'[p] = {} /\ hand'[p] = {} /\ ~Has(p, i)'
    BY <2>1 DEF Alone, Has, TypeOK
  <2>4. CASE ~Has(p, i)
    <3>1. (i \in stuck' <=> i \in stuck) /\ ~Marking(p, i)
      BY <2>1, <2>2, <2>4 DEF Has, Marking, AtWork
    <3> QED
      BY <2>1, <2>3, <3>1, Beside
  <2>5. CASE Has(p, i) /\ ~(p \in Flushes /\ pc[p] \in AtWork /\ i \in hand[p])
    <3>1. Marking(p, i) => i \in torn'
      BY <2>2, <2>5 DEF Marking, AtWork
    <3>2. i \in stuck' => i \in stuck
      BY <2>2, <2>5
    <3> QED
      BY <2>1, <2>3, <2>5, <3>1, <3>2, LetGo DEF AboutToMark
  <2>6. CASE p \in Flushes /\ pc[p] \in AtWork /\ i \in hand[p]
    <3>1. (status[i] = "processing" \/ i \in revived) /\ i \in stuck' /\ Has(p, i)
      BY <2>2, <2>6 DEF RowInv, Owned, Has
    <3>2. \A q \in Passes : ~Has(q, i)'
      BY <2>3, <3>1, InHand DEF Has, Alone, RowInv
    <3>3. Owned(i)'
      <4>1. \A q \in Passes : i \notin todo'[q] /\ (pc'[q] \in AtWork => i \notin hand'[q])
        BY <3>2 DEF Has
      <4> QED
        BY <2>1, <3>1, <3>2, <4>1 DEF Owned
    <3>4. i \in Clean' => Delivered(i)'
      BY <2>1, <3>1, <3>2 DEF Clean, Delivered, RowInv
    <3> QED
      BY <2>1, <3>3, <3>4 DEF RowInv, Settled
  <2> QED
    BY <2>4, <2>5, <2>6
\* Whoever has the row goes on; no pass over the digests does.
<1>18. ASSUME NEW k \in Rows, Revive(k) PROVE RowInv(i)' /\ Settled(i)
  <2>1. CASE k = i
    <3>1. /\ status'[i] = "pending" /\ i \in revived' /\ UNCHANGED <<pc, todo, hand>>
          /\ \A d \in Digests : ~Has(d, i)
      BY <1>18, <2>1 DEF Revive, KindsApart, Took, Has, TypeOK
    <3>2. \A p \in Passes : Has(p, i)' <=> Has(p, i)
      BY <3>1 DEF Has
    <3>3. Owned(i)'
      BY <3>1, <3>2 DEF RowInv, Owned
    <3> QED
      BY <1>18, <2>1, <3>1, <3>3 DEF RowInv, Clean, Settled
  <2>2. CASE k # i
    <3>1. status'[i] = status[i] /\ attempts'[i] = attempts[i]
      BY <1>18, <2>2 DEF Revive, TypeOK
    <3> QED
      BY <1>18, <3>1, Aside DEF Revive, Marking
  <2> QED
    BY <2>1, <2>2
<1>19. /\ \A f \in Flushes : f \in Passes /\ f \notin Digests
       /\ \A d \in Digests : d \in Passes /\ d \notin Flushes
  OBVIOUS
<1> HIDE DEF Base, Passes, Goto, SetAll, Free, SameRow, queue, pass, history, HistoryGrows
<1> QED
  BY <1>2, <1>3, <1>4, <1>5, <1>6, <1>7, <1>8, <1>9, <1>10, <1>11, <1>13, <1>14, <1>15, <1>16,
     <1>17, <1>18, <1>19 DEF Next, Flush, Digest

LEMMA InitKept == Init => RowsKept
<1> SUFFICES ASSUME Init PROVE RowsKept
  OBVIOUS
<1>1. \A p \in Passes, i \in Rows : ~Has(p, i) /\ ~AboutToMark(p, i)
  BY DEF Init, Has, AboutToMark
<1>2. \A i \in Rows : Owned(i)
  BY <1>1 DEF Init, Owned, Passes
<1>3. \A i \in Rows : Delivered(i)
  BY <1>1, NotificationsAssumption DEF Init, Delivered
<1> QED
  BY <1>2, <1>3 DEF RowsKept, Clean

LEMMA ContestedGrows == [Next]_vars => contested \subseteq contested'
<1> SUFFICES ASSUME [Next]_vars PROVE contested \subseteq contested'
  OBVIOUS
<1>1. ASSUME NEW p, NEW S, Select(p, S) PROVE contested \subseteq contested'
  BY <1>1 DEF Select
<1>2. ASSUME NEW f, Flush(f) PROVE contested \subseteq contested'
  BY <1>1, <1>2 DEF Flush, Fetch, Take, Decline, Postpone, Prepare, Send, MarkSent, MarkRetry,
     MarkDead, Record, EndFlush, history
<1>3. ASSUME NEW d, Digest(d) PROVE contested \subseteq contested'
  BY <1>1, <1>3 DEF Digest, FetchDigests, SendGroup, MarkGroup, EndDigests, DeclineGroup,
     PostponeGroup, PrepareGroup, history
<1> QED
  BY <1>2, <1>3 DEF Next, Enqueue, Look, Escalate, Crash, Revive, RetryDue, TurnOff, Handle,
     WindowEnds, history, vars

LEMMA KeptStep == Base /\ TypeOK' /\ KindsApart /\ RowsKept /\ [Next]_vars => RowsKept'
<1> SUFFICES ASSUME Base, TypeOK', KindsApart, RowsKept, [Next]_vars PROVE RowsKept'
  OBVIOUS
<1>1. CASE Next
  <2>1. ASSUME NEW i \in Rows \ contested' PROVE RowInv(i)'
    <3>1. RowInv(i)
      BY ContestedGrows DEF RowsKept, RowInv
    <3> QED
      BY <1>1, <3>1, RowStep
  <2> QED
    BY <2>1 DEF RowsKept, RowInv, Clean
<1>2. CASE UNCHANGED vars
  BY <1>2 DEF vars, queue, pass, history, RowsKept, Owned, Delivered, Clean, Has,
     AboutToMark, Marking
<1> QED
  BY <1>1, <1>2

\* However passes, crashes, lost answers and revivals follow one another: no
\* row is delivered, told or untold, more often than it is to be tried, and a
\* delivery that was told is the last, unless two passes had the row, a process
\* ended between a digest and its record, or an administrator put it back.
THEOREM SentAtMostOnce == Spec => []SentOnce
<1>1. Base => TypeOK
  BY DEF Base
<1>2. RowsKept => SentOnce
  BY DEF RowsKept, Delivered, Clean, SentOnce
<1> QED
  BY <1>1, <1>2, InitBase, BaseStep, InitKinds, KindsStep, InitKept, KeptStep, PTL DEF Spec

\* A pass that takes a row from another does so without writing it, so that
\* a settled row is written again only after that, or by a revival.
LEMMA StaysStep ==
  ASSUME Base, TypeOK', KindsApart, RowsKept, [Next]_vars,
         NEW i \in Rows \ contested, status[i] \in Final, status'[i] # status[i]
  PROVE  status'[i] = "purged" \/ Revive(i)
<1>1. CASE Next /\ i \notin contested'
  <2>1. RowInv(i)
    BY DEF RowsKept, RowInv
  <2> QED
    BY <1>1, <2>1, RowStep DEF Settled
<1>2. CASE i \in contested'
  <2>1. ASSUME NEW p, NEW S, Select(p, S) PROVE FALSE
    BY <2>1 DEF Select, queue
  <2>2. contested' # contested
    BY <1>2
  <2>3. ASSUME NEW f, Flush(f) PROVE FALSE
    BY <2>1, <2>2, <2>3 DEF Flush, Fetch, Take, Decline, Postpone, Prepare, Send, MarkSent,
       MarkRetry, MarkDead, Record, EndFlush, history
  <2>4. ASSUME NEW d, Digest(d) PROVE FALSE
    BY <2>1, <2>2, <2>4 DEF Digest, FetchDigests, SendGroup, MarkGroup, EndDigests, DeclineGroup,
       PostponeGroup, PrepareGroup, history
  <2> QED
    BY <2>2, <2>3, <2>4 DEF Next, Enqueue, Look, Escalate, Crash, Revive, RetryDue, TurnOff,
       Handle, WindowEnds, history, vars
<1>3. CASE UNCHANGED vars
  BY <1>3 DEF vars, queue
<1> QED
  BY <1>1, <1>2, <1>3

\* In every step of every run: a row that no two passes had is not written
\* once it is settled, unless it is purged or an administrator revives it.
THEOREM FinalsStay == Spec => FinalStays
<1>1. Base => TypeOK
  BY DEF Base
<1>2. Base /\ TypeOK' /\ KindsApart /\ RowsKept /\ [Next]_vars =>
        [\A i \in Rows \ contested : status[i] \in Final /\ status'[i] # status[i] =>
           status'[i] = "purged" \/ Revive(i)]_vars
  BY StaysStep
<1> QED
  BY <1>1, <1>2, InitBase, BaseStep, InitKinds, KindsStep, InitKept, KeptStep, PTL
     DEF Spec, FinalStays

\* All of it, at every moment: also what the status of a row says of who has it.
THEOREM QueueKeeps == Spec => []IInv
<1>1. Base' => TypeOK'
  BY DEF Base
<1>2. Init => NothingForgotten
  BY DEF Init, NothingForgotten
<1>3. Init => IInv
  BY <1>2, InitBase, InitCounted, InitKinds, InitKept DEF IInv
<1>4. IInv /\ [Next]_vars => IInv'
  BY <1>1, BaseStep, ForgottenStep, CountedStep, KindsStep, KeptStep DEF IInv
<1> QED
  BY <1>3, <1>4, PTL DEF Spec

-----------------------------------------------------------------------------
OneOfEach == (\A f, g \in Flushes : f = g) /\ (\A d, e \in Digests : d = e)

LEMMA NoContest ==
  ASSUME OneOfEach, Base, KindsApart, contested = {}, [Next]_vars PROVE contested' = {}
<1>1. ASSUME NEW p \in Passes, NEW S \in SUBSET Rows, Select(p, S),
             \A i \in S : status[i] = IF p \in Flushes THEN "pending" ELSE "digest"
      PROVE  contested' = {}
  <2>1. ASSUME NEW i \in S, NEW q \in Passes \ {p}, Has(q, i) PROVE FALSE
    <3>1. i \in Took(q)
      BY <2>1 DEF Has, Took
    <3>2. CASE p \in Flushes
      <4>1. q \in Digests
        BY <2>1, <3>2 DEF Passes, OneOfEach
      <4> QED
        BY <1>1, <2>1, <3>1, <3>2, <4>1 DEF KindsApart
    <3>3. CASE p \in Digests
      <4>1. q \in Flushes /\ p \notin Flushes
        BY <2>1, <3>3, NotificationsAssumption DEF Passes, OneOfEach
      <4> QED
        BY <1>1, <2>1, <3>1, <4>1 DEF KindsApart
    <3> QED
      BY <3>2, <3>3 DEF Passes
  <2>2. S \cap HeldBeside(p) = {}
    BY <2>1, HoldingIs
  <2> QED
    BY <1>1, <2>2 DEF Select
<1>2. ASSUME NEW f \in Flushes, Fetch(f) PROVE contested' = {}
  <2>1. PICK S \in FirstOf(Ready, Batch) : Select(f, S)
    BY <1>2 DEF Fetch
  <2>2. S \in SUBSET Rows /\ \A i \in S : status[i] = "pending"
    BY DEF FirstOf, Ready, Base, TypeOK
  <2> QED
    BY <1>1, <2>1, <2>2 DEF Passes
<1>3. ASSUME NEW d \in Digests, FetchDigests(d) PROVE contested' = {}
  <2>1. PICK S \in SUBSET {i \in Rows : status[i] = "digest"} : Select(d, S)
    BY <1>3 DEF FetchDigests, FirstOf
  <2> QED
    BY <1>1, <2>1, NotificationsAssumption DEF Passes
<1>4. ASSUME NEW f \in Flushes, Flush(f) PROVE contested' = {}
  BY <1>2, <1>4 DEF Flush, Take, Decline, Postpone, Prepare, Send, MarkSent,
     MarkRetry, MarkDead, Record, EndFlush, history
<1>5. ASSUME NEW d \in Digests, Digest(d) PROVE contested' = {}
  BY <1>3, <1>5 DEF Digest, SendGroup, MarkGroup, EndDigests, DeclineGroup,
     PostponeGroup, PrepareGroup, history
<1> QED
  BY <1>4, <1>5 DEF Next, Enqueue, Look, Escalate, Crash, Revive, RetryDue, TurnOff,
     Handle, WindowEnds, history, vars

\* If no two passes of a kind ran at a time, no row would ever be had by two,
\* and a delivery that was told would be the last, but for a digest whose record
\* was lost and what an administrator put back.
THEOREM OneOfEachIsEnough ==
  OneOfEach /\ Spec =>
    [](contested = {} /\ \A i \in Rows \ (torn \cup revived) :
                           got[i] <= 1 /\ got[i] + lost[i] <= MaxAttempts)
<1>1. Base' => TypeOK'
  BY DEF Base
<1>2. OneOfEach /\ Base /\ KindsApart /\ contested = {} /\ [Next]_vars => (contested = {})'
  BY NoContest
<1>3. OneOfEach => OneOfEach'
  BY DEF OneOfEach
<1>4. Init => contested = {}
  BY DEF Init
<1>5. contested = {} /\ SentOnce =>
        \A i \in Rows \ (torn \cup revived) : got[i] <= 1 /\ got[i] + lost[i] <= MaxAttempts
  BY DEF SentOnce
<1> QED
  BY <1>1, <1>2, <1>3, <1>4, <1>5, InitBase, BaseStep, InitKinds, KindsStep, SentAtMostOnce, PTL DEF Spec
=============================================================================
