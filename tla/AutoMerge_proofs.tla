-------------------------- MODULE AutoMerge_proofs --------------------------
(***************************************************************************)
(* Who may merge without being asked.                                      *)
(*                                                                         *)
(* What is proven pays for what is merged unseen, for every ladder, every  *)
(* number of sessions and every interleaving of runs, users and jobs; and  *)
(* a gate that fails is waved through only as often as its failures pay    *)
(* for.                                                                    *)
(*                                                                         *)
(* Two things have to be carried along.  A session is spent from the       *)
(* moment its run reads that the project is trusted, long before it is     *)
(* merged; and a watched session that says completed does so because its   *)
(* watch is over or because a user vouched for it: an approval cannot have *)
(* completed it, since an approval completes what it has merged itself.    *)
(* The circuit breaker in front of a gate shares nothing with them; its    *)
(* specification has names of its own and its proofs are at the end.       *)
(***************************************************************************)
EXTENDS AutoMerge, CircuitBreaker, FiniteSetTheorems, WellFoundedInduction, TLAPS

Unopened == {"idle", "starting", "working", "trusted", "untrusted", "drafting", "opening"}
Cleared  == {"trusted", "opening", "merging", "merged", "watching"}

\* Until the run opens it there is no pull request, what it goes on with
\* after merging is what it has merged, and until then there is no watch.
PullRequests ==
  \A s \in Session :
    /\ pc[s] \in Unopened => pr[s] = "none"
    /\ pc[s] \in {"merged", "watching"} => pr[s] = "automerged"
    /\ pc[s] \in Unopened \cup {"merging", "merged"} => watch[s] = "none"
    /\ pc[s] = "watching" => watch[s] = "watching"

\* An approval that has merged has merged the session's pull request.
ApprovalMerged == approval # None /\ approval.at = "merged" => pr[approval.of] = "merged"

\* What a run with a way to go still, or a watch, finds completed was vouched for.
CompletedIsVouched ==
  \A s \in Session :
    /\ status[s] = "completed" /\ pr[s] # "merged"
    /\ pc[s] \in {"opening", "merging", "merged", "watching"} \/ watch[s] = "watching"
    => s \in vouched

\* What users speak of has a row.
HasRow ==
  /\ \A s \in vouched : status[s] # "none"
  /\ approval # None => status[approval.of] # "none"

IInv == TypeOK /\ PullRequests /\ ApprovalMerged /\ CompletedIsVouched /\ HasRow

-----------------------------------------------------------------------------
LEMMA InitIInv == Init => IInv
<1> SUFFICES ASSUME NEW old \in {{}, Legacy},
                    status = [s \in Session |-> IF s \in old THEN "completed" ELSE "none"],
                    watch = [s \in Session |-> IF s \in old THEN "passed" ELSE "none"],
                    pr = [s \in Session |-> IF s \in old THEN "automerged" ELSE "none"],
                    pc = [s \in Session |-> IF s \in old THEN "over" ELSE "idle"],
                    mine = [s \in Session |-> "off"],
                    age = 0, config = "off", copy = [w \in Writers |-> None],
                    approval = None, vouched = {}
             PROVE  IInv
  BY DEF Init
<1>1. TypeOK
  BY AutoMergeAssumption DEF TypeOK, Configs, Running
<1>2. PullRequests /\ CompletedIsVouched
  BY DEF PullRequests, CompletedIsVouched, Unopened
<1>3. ApprovalMerged /\ HasRow
  BY DEF ApprovalMerged, HasRow
<1> QED
  BY <1>1, <1>2, <1>3 DEF IInv

LEMMA CopyType ==
  ASSUME TypeOK, UNCHANGED copy \/ Reads
  PROVE  copy' \in [Writers -> Configs \cup {None}]
BY DEF TypeOK, Reads

LEMMA NextIInv == IInv /\ [Next]_vars => IInv'
<1> SUFFICES ASSUME IInv, [Next]_vars PROVE IInv'
  OBVIOUS
<1> USE AutoMergeAssumption DEF IInv, TypeOK, PullRequests, ApprovalMerged, CompletedIsVouched,
      HasRow, Unopened, Running, Configs, Goto, Leave, SetStatus, SetWatch, table, runs, knobs
<1>1. ASSUME NEW s \in Session, Create(s) PROVE IInv'
  BY <1>1 DEF Create
<1>2. ASSUME NEW s \in Session, ReadSettings(s) PROVE IInv'
  BY <1>2 DEF ReadSettings
<1>3. ASSUME NEW s \in Session, Work(s) PROVE IInv'
  BY <1>3 DEF Work
<1>4. ASSUME NEW s \in Session, Follow(s) PROVE IInv'
  <2>1. /\ pc[s] = "working" /\ pc' = [pc EXCEPT ![s] = "over"]
        /\ mine' = [mine EXCEPT ![s] = "off"]
        /\ status' = [status EXCEPT ![s] = "completed"]
        /\ UNCHANGED <<watch, pr, age, config, copy, approval, vouched>>
    BY <1>4 DEF Follow
  <2> QED
    BY <2>1
<1>5. ASSUME NEW s \in Session, ReadTrust(s) PROVE IInv'
  BY <1>5 DEF ReadTrust
<1>6. ASSUME NEW s \in Session, EvaluateGates(s) PROVE IInv'
  <2>1. /\ pc[s] \in {"trusted", "untrusted"}
        /\ pc' = [pc EXCEPT ![s] = "drafting"] \/ pc' = [pc EXCEPT ![s] = "opening"]
        /\ status' = [status EXCEPT ![s] = "proposing"]
        /\ UNCHANGED <<watch, pr, mine, age, config, copy, approval, vouched>>
    BY <1>6 DEF EvaluateGates
  <2>2. CASE pc' = [pc EXCEPT ![s] = "drafting"]
    BY <2>1, <2>2
  <2>3. CASE pc' = [pc EXCEPT ![s] = "opening"]
    BY <2>1, <2>3
  <2> QED
    BY <2>1, <2>2, <2>3
<1>7. ASSUME NEW s \in Session, OpenPR(s) PROVE IInv'
  <2>1. /\ pr' = [pr EXCEPT ![s] = "open"] /\ pr[s] = "none" /\ watch[s] = "none"
        /\ UNCHANGED <<status, watch, age, config, copy, approval, vouched>>
    BY <1>7 DEF OpenPR
  <2>2. CASE Leave(s, "drafting")
    BY <2>1, <2>2
  <2>3. CASE Goto(s, "opening", "merging")
    BY <2>1, <2>3
  <2> QED
    BY <2>2, <2>3, <1>7 DEF OpenPR
<1>8. ASSUME NEW s \in Session, Merge(s) PROVE IInv'
  BY <1>8 DEF Merge
<1>9. ASSUME NEW s \in Session, StartWatch(s) PROVE IInv'
  BY <1>9 DEF StartWatch
<1>10. ASSUME NEW s \in Session, Complete(s) PROVE IInv'
  BY <1>10 DEF Complete
<1>11. ASSUME NEW s \in Session, Pass(s) PROVE IInv'
  BY <1>11 DEF Pass
<1>12. ASSUME NEW s \in Session, Revert(s) PROVE IInv'
  BY <1>12 DEF Revert
<1>13. ASSUME NEW s \in Session, Fail(s) PROVE IInv'
  <2>1. /\ pc[s] \in Unopened /\ pc[s] # "idle"
        /\ pc' = [pc EXCEPT ![s] = "over"] /\ mine' = [mine EXCEPT ![s] = "off"]
        /\ status' = [status EXCEPT ![s] = "failed"]
        /\ UNCHANGED <<watch, age, config, copy, approval, vouched>>
    BY <1>13 DEF Fail
  <2>2. pr[s] = "none" /\ watch[s] = "none" /\ status[s] # "none"
    BY <2>1
  <2>3. CASE pr' = pr
    BY <2>1, <2>2, <2>3
  <2>4. CASE pr' = [pr EXCEPT ![s] = "open"]
    BY <2>1, <2>2, <2>4
  <2> QED
    BY <2>3, <2>4, <1>13 DEF Fail
<1>14. ASSUME NEW s \in Session, Stop(s) PROVE IInv'
  BY <1>14 DEF Stop
<1>15. ASSUME NEW s \in Session, ApproveReads(s) PROVE IInv'
  BY <1>15 DEF ApproveReads
<1>16. CASE ApproveMarks
  BY <1>16 DEF ApproveMarks
<1>17. CASE ApproveMerges
  BY <1>17 DEF ApproveMerges
<1>18. CASE ApproveEnds
  <2>1. copy' \in [Writers -> Configs \cup {None}]
    BY <1>18, CopyType DEF ApproveEnds, Suggest
  <2>2. approval.of \in Session /\ approval' = None
    BY <1>18 DEF ApproveEnds
  <2>3. UNCHANGED <<watch, pr, pc, mine, age, config, vouched>>
    BY <1>18 DEF ApproveEnds
  <2>4. CASE status' = [status EXCEPT ![approval.of] = "failed"]
    BY <2>1, <2>2, <2>3, <2>4, <1>18 DEF ApproveEnds
  <2>5. CASE approval.at = "merged" /\ status' = [status EXCEPT ![approval.of] = "completed"]
    BY <2>1, <2>2, <2>3, <2>5, <1>18 DEF ApproveEnds
  <2> QED
    BY <2>4, <2>5, <1>18 DEF ApproveEnds
<1>19. ASSUME NEW s \in Session, Cancel(s) PROVE IInv'
  <2>1. copy' \in [Writers -> Configs \cup {None}]
    BY <1>19, CopyType DEF Cancel, Tune
  <2>2. /\ status' = [status EXCEPT ![s] = "cancelled"] /\ status[s] # "none"
        /\ UNCHANGED <<watch, pr, pc, mine, age, config, approval, vouched>>
    BY <1>19 DEF Cancel
  <2> QED
    BY <2>1, <2>2
<1>20. ASSUME NEW s \in Session, NEW worked \in BOOLEAN, Feedback(s, worked) PROVE IInv'
  BY <1>20 DEF Feedback
<1>21. ASSUME NEW w \in Writers, WriteBack(w) PROVE IInv'
  BY <1>21 DEF WriteBack
<1>22. CASE Patch
  BY <1>22 DEF Patch, Reads
<1>23. ASSUME NEW c \in Configs, Save(c) PROVE IInv'
  BY <1>23 DEF Save
<1>24. CASE Day
  BY <1>24 DEF Day
<1>25. CASE UNCHANGED vars
  BY <1>25 DEF vars
<1> QED
  BY <1>1, <1>2, <1>3, <1>4, <1>5, <1>6, <1>7, <1>8, <1>9, <1>10, <1>11, <1>12, <1>13, <1>14, <1>15,
     <1>16, <1>17, <1>18, <1>19, <1>20, <1>21, <1>22, <1>23, <1>24, <1>25 DEF Next, Run

\* The variables keep to their values, a session without a row has neither run
\* nor pull request, and only what was merged automatically is watched.
THEOREM AutoMergeTypeCorrect == Spec => []TypeOK
<1>1. IInv => TypeOK
  BY DEF IInv
<1> QED
  BY InitIInv, NextIInv, <1>1, PTL DEF Spec

-----------------------------------------------------------------------------
\* The sessions whose runs were trusted, merged or not yet, and what is proven.
Spent == {s \in Session : pc[s] \in Cleared \/ pr[s] = "automerged"} \cup Backed

Paid == Rungs # {} => Ladder[1].rate * Cardinality(Spent) <= 100 * Cardinality(Backed)

LEMMA ElementOfSeq ==
  ASSUME NEW S, NEW seq \in Seq(S), NEW i \in 1 .. Len(seq)
  PROVE  seq[i] \in S
OBVIOUS

LEMMA Rates ==
  ASSUME NEW l \in Rungs
  PROVE  /\ 1 \in Rungs
         /\ Ladder[1].rate \in 1 .. 100 /\ Ladder[l].rate \in 1 .. 100
         /\ Ladder[1].rate <= Ladder[l].rate
         /\ Ladder[l].fixes \in Nat \ {0}
<1>1. Ladder \in Seq([fixes : Nat \ {0}, rate : 1 .. 100, age : Nat])
  BY AutoMergeAssumption
<1>2. 1 \in 1 .. Len(Ladder) /\ l \in 1 .. Len(Ladder)
  BY <1>1 DEF Rungs
<1>3. Ladder[1] \in [fixes : Nat \ {0}, rate : 1 .. 100, age : Nat]
  BY <1>1, <1>2, ElementOfSeq
<1>4. Ladder[l] \in [fixes : Nat \ {0}, rate : 1 .. 100, age : Nat]
  BY <1>1, <1>2, ElementOfSeq
<1>5. 1 < l => Ladder[1].rate <= Ladder[l].rate
  BY <1>2, AutoMergeAssumption DEF Rungs
<1>6. Ladder[1].rate \in 1 .. 100 /\ Ladder[l].rate \in 1 .. 100 /\ Ladder[l].fixes \in Nat \ {0}
  BY <1>3, <1>4
<1>7. Ladder[1].rate <= Ladder[l].rate
  <2>1. CASE l = 1
    BY <2>1, <1>6
  <2>2. CASE l # 1
    <3>1. 1 < l
      BY <2>2, <1>2
    <3> QED
      BY <3>1, <1>5
  <2> QED
    BY <2>1, <2>2
<1> QED
  BY <1>2, <1>6, <1>7 DEF Rungs

LEMMA Times ==
  ASSUME NEW a \in Nat, NEW b \in Nat, NEW m \in Nat, NEW n \in Nat, a <= b, m <= n
  PROVE  a * m <= b * n
<1>1. PICK d \in Nat : b = a + d
  <2>1. b - a \in Nat /\ b = a + (b - a)
    OBVIOUS
  <2> QED
    BY <2>1
<1>2. PICK e \in Nat : n = m + e
  <2>1. n - m \in Nat /\ n = m + (n - m)
    OBVIOUS
  <2> QED
    BY <2>1
<1>3. b * n = a * m + a * e + d * m + d * e
  BY <1>1, <1>2
<1>4. a * e \in Nat /\ d * m \in Nat /\ d * e \in Nat /\ a * m \in Nat
  BY <1>1, <1>2
<1> QED
  BY <1>3, <1>4

LEMMA Finite ==
  ASSUME TypeOK
  PROVE  /\ IsFiniteSet(Rows) /\ Total \in Nat
         /\ IsFiniteSet(Succeeded) /\ Cardinality(Succeeded) \in Nat
         /\ IsFiniteSet(Backed) /\ Cardinality(Backed) \in Nat
         /\ IsFiniteSet(Spent) /\ Cardinality(Spent) \in Nat
<1>1. IsFiniteSet(Session) /\ Rows \subseteq Session /\ Succeeded \subseteq Session
  BY AutoMergeAssumption DEF Rows, Succeeded
<1>2. Backed \subseteq Session /\ Spent \subseteq Session
  BY DEF TypeOK, Backed, Spent
<1>3. \A S \in SUBSET Session : IsFiniteSet(S) /\ Cardinality(S) \in Nat
  BY <1>1, FS_Subset, FS_CardinalityType
<1> QED
  BY <1>1, <1>2, <1>3 DEF Total

\* What counts as succeeded is proven, and everything spent or proven is a row.
LEMMA SucceededIsBacked ==
  ASSUME IInv
  PROVE  Succeeded \subseteq Backed /\ Spent \subseteq Rows
<1>1. Succeeded \subseteq Backed
  BY DEF IInv, TypeOK, CompletedIsVouched, Succeeded, Backed
<1>2. Spent \subseteq Rows
  BY DEF IInv, TypeOK, HasRow, Spent, Backed, Cleared, Rows
<1> QED
  BY <1>1, <1>2

\* Trust means that what is proven pays for every row there is.
LEMMA TrustPays ==
  ASSUME IInv, Trusted
  PROVE  Ladder[1].rate * Total <= 100 * Cardinality(Backed)
<1>1. PICK l \in Rungs : 100 * Cardinality(Succeeded) >= Ladder[l].rate * Total
  BY DEF Trusted, Reaches, Meets
<1>2. /\ IsFiniteSet(Backed) /\ Total \in Nat
      /\ Cardinality(Succeeded) \in Nat /\ Cardinality(Backed) \in Nat
  BY Finite DEF IInv
<1>3. Cardinality(Succeeded) <= Cardinality(Backed)
  BY <1>2, SucceededIsBacked, FS_Subset
<1>4. Ladder[1].rate \in Nat /\ Ladder[l].rate \in Nat /\ Ladder[1].rate <= Ladder[l].rate
  BY <1>1, Rates
<1>5. Ladder[1].rate * Total <= Ladder[l].rate * Total
  BY <1>2, <1>4, Times
<1>6. Ladder[1].rate * Total \in Nat /\ Ladder[l].rate * Total \in Nat
  BY <1>2, <1>4
<1> QED
  BY <1>1, <1>2, <1>3, <1>5, <1>6

\* A step that proves nothing new and spends nothing leaves it paid.
LEMMA StillPaid ==
  ASSUME TypeOK, Paid, TypeOK', Spent' \subseteq Spent, Backed' = Backed
  PROVE  Paid'
<1> SUFFICES ASSUME Rungs # {}
             PROVE  Ladder[1].rate * Cardinality(Spent') <= 100 * Cardinality(Backed')
  BY DEF Paid
<1>1. Ladder[1].rate * Cardinality(Spent) <= 100 * Cardinality(Backed)
  BY DEF Paid
<1>2. /\ IsFiniteSet(Spent) /\ Cardinality(Spent) \in Nat
      /\ Cardinality(Backed) \in Nat
  BY Finite
<1>3. Cardinality(Spent') \in Nat /\ Cardinality(Spent') <= Cardinality(Spent)
  BY <1>2, FS_Subset, FS_CardinalityType
<1>4. Ladder[1].rate \in Nat
  BY Rates
<1>5. Ladder[1].rate * Cardinality(Spent') <= Ladder[1].rate * Cardinality(Spent)
  BY <1>2, <1>3, <1>4, Times
<1>6. Ladder[1].rate * Cardinality(Spent') \in Nat /\ Ladder[1].rate * Cardinality(Spent) \in Nat
  BY <1>2, <1>3, <1>4
<1> QED
  BY <1>1, <1>2, <1>5, <1>6

\* What is proven of s pays for s, and more.
LEMMA ProvenPays ==
  ASSUME TypeOK, Paid, NEW s \in Session,
         Backed' = Backed \cup {s}, Spent' \subseteq Spent \cup {s}, TypeOK'
  PROVE  Paid'
<1>1. CASE s \in Backed
  <2>1. Backed' = Backed /\ Spent' \subseteq Spent
    BY <1>1 DEF Spent
  <2> QED
    BY <2>1, StillPaid
<1>2. CASE s \notin Backed
  <2> SUFFICES ASSUME Rungs # {}
               PROVE  Ladder[1].rate * Cardinality(Spent') <= 100 * Cardinality(Backed')
    BY DEF Paid
  <2>1. Ladder[1].rate * Cardinality(Spent) <= 100 * Cardinality(Backed)
    BY DEF Paid
  <2>2. /\ IsFiniteSet(Spent) /\ Cardinality(Spent) \in Nat
        /\ IsFiniteSet(Backed) /\ Cardinality(Backed) \in Nat
    BY Finite
  <2>3. Cardinality(Backed') = Cardinality(Backed) + 1
    BY <2>2, <1>2, FS_AddElement
  <2>4. IsFiniteSet(Spent \cup {s}) /\ Cardinality(Spent \cup {s}) <= Cardinality(Spent) + 1
        /\ Cardinality(Spent \cup {s}) \in Nat
    <3>1. CASE s \in Spent
      <4>1. Spent \cup {s} = Spent
        BY <3>1
      <4> QED
        BY <4>1, <2>2
    <3>2. CASE s \notin Spent
      BY <3>2, <2>2, FS_AddElement
    <3> QED
      BY <3>1, <3>2
  <2>5. Cardinality(Spent') \in Nat /\ Cardinality(Spent') <= Cardinality(Spent) + 1
    <3>1. Cardinality(Spent') \in Nat /\ Cardinality(Spent') <= Cardinality(Spent \cup {s})
      BY <2>4, FS_Subset, FS_CardinalityType
    <3> QED
      BY <3>1, <2>2, <2>4
  <2>6. Ladder[1].rate \in 1 .. 100
    BY Rates
  <2>7. Ladder[1].rate * Cardinality(Spent') <= Ladder[1].rate * (Cardinality(Spent) + 1)
    BY <2>2, <2>5, <2>6, Times
  <2>8. Ladder[1].rate * (Cardinality(Spent) + 1) = Ladder[1].rate * Cardinality(Spent) + Ladder[1].rate
    BY <2>2, <2>6
  <2>9. /\ Ladder[1].rate * Cardinality(Spent') \in Nat /\ Ladder[1].rate * Cardinality(Spent) \in Nat
    BY <2>2, <2>5, <2>6
  <2> QED
    BY <2>1, <2>2, <2>3, <2>6, <2>7, <2>8, <2>9
<1> QED
  BY <1>1, <1>2

\* A run is trusted: all that is spent then, itself too, is a row.
LEMMA TrustedIsPaid ==
  ASSUME IInv, TypeOK', Trusted, NEW s \in Session, status[s] # "none",
         Spent' \subseteq Spent \cup {s}, Backed' = Backed
  PROVE  Paid'
<1> SUFFICES ASSUME Rungs # {}
             PROVE  Ladder[1].rate * Cardinality(Spent') <= 100 * Cardinality(Backed')
  BY DEF Paid
<1>1. Ladder[1].rate * Total <= 100 * Cardinality(Backed)
  BY TrustPays
<1>2. Spent' \subseteq Rows
  BY SucceededIsBacked DEF Rows
<1>3. IsFiniteSet(Rows) /\ Total \in Nat /\ Total = Cardinality(Rows) /\ Cardinality(Backed) \in Nat
  BY Finite DEF IInv, Total
<1>4. Cardinality(Spent') \in Nat /\ Cardinality(Spent') <= Total
  BY <1>2, <1>3, FS_Subset, FS_CardinalityType
<1>5. Ladder[1].rate \in Nat
  BY Rates
<1>6. Ladder[1].rate * Cardinality(Spent') <= Ladder[1].rate * Total
  BY <1>3, <1>4, <1>5, Times
<1>7. Ladder[1].rate * Cardinality(Spent') \in Nat /\ Ladder[1].rate * Total \in Nat
  BY <1>3, <1>4, <1>5
<1> QED
  BY <1>1, <1>3, <1>6, <1>7

LEMMA InitPaid == Init => Paid
<1> SUFFICES ASSUME Init PROVE Paid
  OBVIOUS
<1>1. TypeOK
  BY InitIInv DEF IInv
<1>2. Spent = Backed
  <2>1. \A s \in Session : pc[s] \notin Cleared /\ (pr[s] = "automerged" <=> watch[s] = "passed")
    BY DEF Init, Cleared
  <2> QED
    BY <2>1 DEF Spent, Backed
<1> SUFFICES ASSUME Rungs # {}
             PROVE  Ladder[1].rate * Cardinality(Spent) <= 100 * Cardinality(Backed)
  BY DEF Paid
<1>3. Ladder[1].rate \in Nat /\ Ladder[1].rate <= 100
  BY Rates
<1>4. Cardinality(Backed) \in Nat
  BY <1>1, Finite
<1>5. Ladder[1].rate * Cardinality(Backed) <= 100 * Cardinality(Backed)
  BY <1>3, <1>4, Times
<1> QED
  BY <1>2, <1>5

LEMMA NextPaid == IInv /\ IInv' /\ Paid /\ [Next]_vars => Paid'
<1> SUFFICES ASSUME IInv, IInv', Paid, [Next]_vars PROVE Paid'
  OBVIOUS
<1>0. TypeOK /\ TypeOK'
  BY DEF IInv
<1>1. ASSUME \A q \in Session : /\ pc'[q] \in Cleared => pc[q] \in Cleared \/ pr[q] = "automerged"
                                /\ pr'[q] = "automerged" => pc[q] \in Cleared \/ pr[q] = "automerged"
                                /\ watch'[q] = "passed" <=> watch[q] = "passed",
             vouched' = vouched
      PROVE  Paid'
  <2>1. Spent' \subseteq Spent /\ Backed' = Backed
    BY <1>1 DEF Spent, Backed
  <2> QED
    BY <1>0, <2>1, StillPaid
<1> USE DEF Goto, Leave, SetStatus, SetWatch, table, runs, knobs
<1>2. ASSUME NEW s \in Session, Create(s) \/ ReadSettings(s) \/ Work(s) \/ Follow(s) PROVE Paid'
  BY <1>0, <1>1, <1>2 DEF Create, ReadSettings, Work, Follow, TypeOK, Cleared
<1>3. ASSUME NEW s \in Session, ReadTrust(s) PROVE Paid'
  <2>1. CASE Trusted
    <3>1. Spent' \subseteq Spent \cup {s} /\ Backed' = Backed
      BY <1>0, <1>3 DEF ReadTrust, TypeOK, Spent, Backed
    <3>2. status[s] # "none"
      BY <1>0, <1>3 DEF ReadTrust, TypeOK
    <3> QED
      BY <1>0, <2>1, <3>1, <3>2, TrustedIsPaid
  <2>2. CASE ~Trusted
    BY <1>0, <1>1, <1>3, <2>2 DEF ReadTrust, TypeOK, Cleared
  <2> QED
    BY <2>1, <2>2
<1>4. ASSUME NEW s \in Session, EvaluateGates(s) PROVE Paid'
  BY <1>0, <1>1, <1>4 DEF EvaluateGates, TypeOK, Cleared
<1>5. ASSUME NEW s \in Session, OpenPR(s) PROVE Paid'
  BY <1>0, <1>1, <1>5 DEF OpenPR, TypeOK, Cleared
<1>6. ASSUME NEW s \in Session, Merge(s) PROVE Paid'
  BY <1>0, <1>1, <1>6 DEF Merge, TypeOK, Cleared
<1>7. ASSUME NEW s \in Session, StartWatch(s) PROVE Paid'
  <2>1. watch[s] # "passed"
    BY <1>7 DEF StartWatch, IInv, PullRequests
  <2> QED
    BY <1>0, <1>1, <1>7, <2>1 DEF StartWatch, TypeOK, Cleared
<1>8. ASSUME NEW s \in Session, Complete(s) PROVE Paid'
  BY <1>0, <1>1, <1>8 DEF Complete, TypeOK, Cleared
<1>9. ASSUME NEW s \in Session, Pass(s) PROVE Paid'
  <2>1. Backed' = Backed \cup {s} /\ Spent' \subseteq Spent \cup {s}
    BY <1>0, <1>9 DEF Pass, TypeOK, Spent, Backed
  <2> QED
    BY <1>0, <2>1, ProvenPays
<1>10. ASSUME NEW s \in Session, Revert(s) PROVE Paid'
  <2>1. watch[s] # "passed"
    BY <1>10 DEF Revert, IInv, PullRequests
  <2> QED
    BY <1>0, <1>1, <1>10, <2>1 DEF Revert, TypeOK, Cleared
<1>11. ASSUME NEW s \in Session, Fail(s) PROVE Paid'
  <2>1. /\ UNCHANGED <<watch, vouched>> /\ pc' = [pc EXCEPT ![s] = "over"]
        /\ pr' = pr \/ pr' = [pr EXCEPT ![s] = "open"]
    BY <1>11 DEF Fail
  <2>2. \A q \in Session : pr'[q] = "automerged" => pr[q] = "automerged"
    BY <1>0, <2>1 DEF TypeOK
  <2>3. \A q \in Session : pc'[q] \in Cleared => pc[q] \in Cleared
    BY <1>0, <2>1 DEF TypeOK, Cleared
  <2> QED
    BY <1>1, <2>1, <2>2, <2>3
<1>12. ASSUME NEW s \in Session, Stop(s) PROVE Paid'
  BY <1>0, <1>1, <1>12 DEF Stop, TypeOK, Cleared
<1>13. ASSUME NEW s \in Session, ApproveReads(s) \/ Cancel(s) PROVE Paid'
  BY <1>1, <1>13 DEF ApproveReads, Cancel
<1>14. CASE ApproveMarks \/ ApproveEnds
  BY <1>1, <1>14 DEF ApproveMarks, ApproveEnds
<1>15. CASE ApproveMerges
  BY <1>0, <1>1, <1>15 DEF ApproveMerges, TypeOK
<1>16. ASSUME NEW s \in Session, NEW worked \in BOOLEAN, Feedback(s, worked) PROVE Paid'
  <2>1. CASE worked
    <3>1. Backed' = Backed \cup {s} /\ Spent' \subseteq Spent \cup {s}
      BY <1>16, <2>1 DEF Feedback, Spent, Backed
    <3> QED
      BY <1>0, <3>1, ProvenPays
  <2>2. CASE ~worked
    BY <1>1, <1>16, <2>2 DEF Feedback
  <2> QED
    BY <2>1, <2>2
<1>17. ASSUME NEW w \in Writers, WriteBack(w) PROVE Paid'
  BY <1>1, <1>17 DEF WriteBack
<1>18. ASSUME NEW c \in Configs, Save(c) PROVE Paid'
  BY <1>1, <1>18 DEF Save
<1>19. CASE Patch \/ Day
  BY <1>1, <1>19 DEF Patch, Day
<1>20. CASE UNCHANGED vars
  BY <1>1, <1>20 DEF vars
<1> QED
  BY <1>2, <1>3, <1>4, <1>5, <1>6, <1>7, <1>8, <1>9, <1>10, <1>11, <1>12, <1>13, <1>14, <1>15, <1>16,
     <1>17, <1>18, <1>19, <1>20 DEF Next, Run

LEMMA PaidIsBacked == TypeOK /\ Paid => TrustIsBacked
<1> SUFFICES ASSUME TypeOK, Paid, Rungs # {}
             PROVE  Ladder[1].rate * Cardinality(Unseen \cup Backed) <= 100 * Cardinality(Backed)
  BY DEF TrustIsBacked
<1>1. Unseen \cup Backed \subseteq Spent
  BY DEF Unseen, Spent
<1>2. IsFiniteSet(Spent) /\ Cardinality(Spent) \in Nat /\ Cardinality(Backed) \in Nat
  BY Finite
<1>3. Cardinality(Unseen \cup Backed) \in Nat /\ Cardinality(Unseen \cup Backed) <= Cardinality(Spent)
  BY <1>1, <1>2, FS_Subset, FS_CardinalityType
<1>4. Ladder[1].rate \in Nat
  BY Rates
<1>5. Ladder[1].rate * Cardinality(Unseen \cup Backed) <= Ladder[1].rate * Cardinality(Spent)
  BY <1>2, <1>3, <1>4, Times
<1>6. Ladder[1].rate * Cardinality(Spent) <= 100 * Cardinality(Backed)
  BY DEF Paid
<1>7. /\ Ladder[1].rate * Cardinality(Unseen \cup Backed) \in Nat
      /\ Ladder[1].rate * Cardinality(Spent) \in Nat
  BY <1>2, <1>3, <1>4
<1> QED
  BY <1>2, <1>5, <1>6, <1>7

\* However many runs finish at the same time and whatever users and jobs do:
\* what was merged unseen never outgrows what is proven by more than the
\* lowest level's rate allows.
THEOREM MergesAreBacked == Spec => []TrustIsBacked
<1>1. Init => IInv /\ Paid
  BY InitIInv, InitPaid
<1>2. IInv /\ Paid /\ [Next]_vars => IInv' /\ Paid'
  BY NextIInv, NextPaid
<1>3. IInv /\ Paid => TrustIsBacked
  BY PaidIsBacked DEF IInv
<1> QED
  BY <1>1, <1>2, <1>3, PTL DEF Spec

-----------------------------------------------------------------------------
\* Nothing is proven: no session of before the ladder, no user's word.
Unproven == (\A s \in Legacy : status[s] = "none") /\ vouched = {}

\* Then nothing is merged automatically, on its way there, or watched.
Nothing ==
  Unproven => \A s \in Session : pr[s] # "automerged" /\ pc[s] \notin Cleared /\ watch[s] = "none"

LEMMA InitNothing == Init => Nothing
BY DEF Init, Nothing, Unproven, Cleared

LEMMA UnprovenIsUntrusted ==
  ASSUME IInv, Nothing, Unproven
  PROVE  ~Trusted
<1>1. Succeeded = {}
  BY DEF Nothing, Succeeded
<1>2. Cardinality(Succeeded) = 0
  BY <1>1, FS_EmptySet
<1>3. Total \in Nat
  BY Finite DEF IInv
<1>4. ASSUME NEW l \in Rungs, Total >= Ladder[l].fixes, 0 >= Ladder[l].rate * Total PROVE FALSE
  <2>1. Ladder[l].rate \in 1 .. 100 /\ Ladder[l].fixes \in Nat \ {0}
    BY Rates
  <2>2. Ladder[l].rate \in Nat /\ 1 \in Nat /\ 1 <= Ladder[l].rate /\ 1 <= Total
    BY <1>3, <1>4, <2>1
  <2>3. 1 * 1 <= Ladder[l].rate * Total
    BY <1>3, <2>2, Times
  <2>4. Ladder[l].rate * Total \in Nat
    BY <1>3, <2>2
  <2> QED
    BY <1>4, <2>3, <2>4
<1> QED
  BY <1>2, <1>4 DEF Trusted, Reaches, Meets

LEMMA NextNothing == IInv /\ IInv' /\ Nothing /\ [Next]_vars => Nothing'
<1> SUFFICES ASSUME IInv, IInv', Nothing, [Next]_vars, Unproven'
             PROVE  \A q \in Session : pr'[q] # "automerged" /\ pc'[q] \notin Cleared /\ watch'[q] = "none"
  BY DEF Nothing
<1>0. TypeOK /\ TypeOK'
  BY DEF IInv
<1> USE DEF Goto, Leave, SetStatus, SetWatch, table, runs, knobs
<1>1. \A s \in Session : status'[s] = "none" => status[s] = "none"
  <2>1. ASSUME NEW s \in Session, NEW v, status' = [status EXCEPT ![s] = v], v # "none"
        PROVE  \A q \in Session : status'[q] = "none" => status[q] = "none"
    BY <1>0, <2>1 DEF TypeOK
  <2>2. CASE UNCHANGED status
    BY <2>2
  <2>3. ASSUME NEW s \in Session, Run(s)
        PROVE  UNCHANGED status \/ \E v : v # "none" /\ status' = [status EXCEPT ![s] = v]
    BY <2>3 DEF Run, Create, ReadSettings, Work, Follow, ReadTrust, EvaluateGates, OpenPR, Merge,
                StartWatch, Complete, Pass, Revert, Fail, Stop
  <2>4. ASSUME NEW s \in Session, NEW worked \in BOOLEAN, Feedback(s, worked)
        PROVE  \E v : v # "none" /\ status' = [status EXCEPT ![s] = v]
    BY <2>4 DEF Feedback
  <2>5. ASSUME ApproveMarks \/ ApproveEnds
        PROVE  \E s \in Session : \E v : v # "none" /\ status' = [status EXCEPT ![s] = v]
    BY <1>0, <2>5 DEF ApproveMarks, ApproveEnds, TypeOK
  <2>6. ASSUME NEW s \in Session, Cancel(s)
        PROVE  \E v : v # "none" /\ status' = [status EXCEPT ![s] = v]
    BY <2>6 DEF Cancel
  <2>7. CASE (\E s \in Session : ApproveReads(s)) \/ ApproveMerges \/ (\E w \in Writers : WriteBack(w))
             \/ (\E c \in Configs : Save(c)) \/ Patch \/ Day \/ UNCHANGED vars
    BY <2>2, <2>7 DEF ApproveReads, ApproveMerges, WriteBack, Save, Patch, Day, vars
  <2> QED
    BY <2>1, <2>2, <2>3, <2>4, <2>5, <2>6, <2>7 DEF Next
<1>2. vouched \subseteq vouched'
  <2>1. ASSUME NEW s \in Session, Run(s) PROVE UNCHANGED vouched
    BY <2>1 DEF Run, Create, ReadSettings, Work, Follow, ReadTrust, EvaluateGates, OpenPR, Merge,
                StartWatch, Complete, Pass, Revert, Fail, Stop
  <2>2. ASSUME NEW s \in Session, NEW worked \in BOOLEAN, Feedback(s, worked)
        PROVE  vouched \subseteq vouched'
    BY <2>2 DEF Feedback
  <2>3. CASE (\E s \in Session : ApproveReads(s) \/ Cancel(s)) \/ ApproveMarks \/ ApproveMerges \/ ApproveEnds
             \/ (\E w \in Writers : WriteBack(w)) \/ (\E c \in Configs : Save(c)) \/ Patch \/ Day
             \/ UNCHANGED vars
    BY <2>3 DEF ApproveReads, Cancel, ApproveMarks, ApproveMerges, ApproveEnds, WriteBack, Save, Patch, Day, vars
  <2> QED
    BY <2>1, <2>2, <2>3 DEF Next
<1>3. Unproven
  BY <1>0, <1>1, <1>2, AutoMergeAssumption DEF Unproven
<1>4. /\ \A q \in Session : pr[q] # "automerged" /\ pc[q] \notin Cleared /\ watch[q] = "none"
      /\ ~Trusted
  BY <1>3, UnprovenIsUntrusted DEF Nothing
<1>5. vouched' = {}
  BY DEF Unproven
<1> HIDE DEF Goto, Leave, SetStatus, SetWatch, table, runs, knobs
<1>6. ASSUME NEW s \in Session, Run(s)
      PROVE  /\ pr' = pr \/ pr' = [pr EXCEPT ![s] = "open"]
             /\ watch' = watch
             /\ \/ pc' = pc
                \/ \E to \in {"starting", "working", "untrusted", "drafting", "over"} : pc' = [pc EXCEPT ![s] = to]
  BY <1>4, <1>6 DEF Run, Create, ReadSettings, Work, Follow, ReadTrust, EvaluateGates, OpenPR, Merge,
      StartWatch, Complete, Pass, Revert, Fail, Stop, Cleared, Goto, Leave, SetStatus, SetWatch, table, runs
<1>7. ASSUME NEW s \in Session, Run(s)
      PROVE  \A q \in Session : pr'[q] # "automerged" /\ pc'[q] \notin Cleared /\ watch'[q] = "none"
  BY <1>0, <1>4, <1>6, <1>7 DEF TypeOK, Cleared
<1>8. ASSUME ApproveMerges
      PROVE  \A q \in Session : pr'[q] # "automerged" /\ pc'[q] \notin Cleared /\ watch'[q] = "none"
  BY <1>0, <1>4, <1>8 DEF ApproveMerges, TypeOK, runs
<1>9. CASE (\E s \in Session : ApproveReads(s) \/ Cancel(s)) \/ ApproveMarks \/ ApproveEnds
           \/ (\E s \in Session, worked \in BOOLEAN : Feedback(s, worked))
           \/ (\E w \in Writers : WriteBack(w)) \/ (\E c \in Configs : Save(c)) \/ Patch \/ Day
           \/ UNCHANGED vars
  <2>1. UNCHANGED <<pr, pc, watch>>
    BY <1>9 DEF ApproveReads, Cancel, ApproveMarks, ApproveEnds, Feedback, WriteBack, Save, Patch, Day,
                vars, table, runs
  <2> QED
    BY <1>4, <2>1
<1> QED
  BY <1>7, <1>8, <1>9 DEF Next

\* What the NULL arithmetic of trust-level.ts comes to: no project climbs the
\* ladder by itself.  With nothing proven before and no user's word, no fix is
\* ever merged automatically, whatever docs/trust-levels.md promises.
THEOREM NothingComesFromNothing == Spec => []NothingFromNothing
<1>1. Init => IInv /\ Nothing
  BY InitIInv, InitNothing
<1>2. IInv /\ Nothing /\ [Next]_vars => IInv' /\ Nothing'
  BY NextIInv, NextNothing
<1>3. Nothing => NothingFromNothing
  BY DEF Nothing, Unproven, NothingFromNothing, Unseen
<1> QED
  BY <1>1, <1>2, <1>3, PTL DEF Spec

-----------------------------------------------------------------------------
(* The ladder                                                              *)

LEMMA Least ==
  ASSUME NEW T, T \subseteq Nat, T # {}
  PROVE  \E x \in T : \A y \in T : x <= y
<1> DEFINE Less == {ss \in Nat \X Nat : ss[1] < ss[2]}
<1>1. Less = OpToRel(<, Nat)
  BY DEF OpToRel
<1>2. IsWellFoundedOn(Less, Nat)
  BY <1>1, NatLessThanWellFounded
<1>3. PICK x \in T : \A y \in T : ~ (<<y, x>> \in Less)
  <2> HIDE DEF Less
  <2> QED
    BY <1>2, WFMin
<1>4. ASSUME NEW y \in T PROVE x <= y
  <2>1. <<y, x>> \in Nat \X Nat /\ ~ (<<y, x>> \in Less)
    BY <1>3
  <2>2. ~ (y < x)
    BY <2>1
  <2> QED
    BY <2>2
<1> QED
  BY <1>4

LEMMA Greatest ==
  ASSUME NEW n \in Nat, NEW T, T \subseteq 1 .. n, T # {}
  PROVE  \E x \in T : \A y \in T : y <= x
<1> DEFINE U == {k \in Nat : n - k \in T}
<1>1. U \subseteq Nat /\ U # {}
  <2>1. PICK y : y \in T
    OBVIOUS
  <2>2. n - y \in Nat /\ n - (n - y) = y
    BY <2>1
  <2> QED
    BY <2>1, <2>2
<1>2. PICK k \in U : \A j \in U : k <= j
  <2> HIDE DEF U
  <2> QED
    BY <1>1, Least
<1>3. ASSUME NEW y \in T PROVE y <= n - k
  <2>1. n - y \in Nat /\ n - (n - y) = y /\ k \in Nat /\ y \in Nat
    BY <1>2
  <2>2. k <= n - y
    BY <1>2, <2>1
  <2> QED
    BY <2>1, <2>2
<1> QED
  BY <1>2, <1>3

\* computeTrustLevel returns the highest level there is a record for.
Highest ==
  /\ Level \in {0} \cup Rungs
  /\ Level = 0 \/ Reaches(Level, Total, Cardinality(Succeeded))
  /\ \A m \in Rungs : m > Level => ~Reaches(m, Total, Cardinality(Succeeded))

LEMMA LevelIsHighest == Highest
<1> DEFINE total == Total
           good  == Cardinality(Succeeded)
           met   == {m \in Rungs : Reaches(m, total, good)}
           Is(l) == /\ l = 0 \/ Reaches(l, total, good)
                    /\ \A m \in Rungs : m > l => ~Reaches(m, total, good)
<1>1. Len(Ladder) \in Nat /\ Rungs = 1 .. Len(Ladder)
  BY AutoMergeAssumption DEF Rungs
<1>2. \E l \in {0} \cup Rungs : Is(l)
  <2>1. CASE met = {}
    <3>1. Is(0)
      BY <2>1
    <3> QED
      BY <3>1
  <2>2. CASE met # {}
    <3>1. met \subseteq 1 .. Len(Ladder)
      BY <1>1
    <3>2. PICK l \in met : \A m \in met : m <= l
      <4> HIDE DEF met
      <4> QED
        BY <1>1, <3>1, <2>2, Greatest
    <3>3. l \in Rungs /\ l # 0 /\ Reaches(l, total, good)
      BY <3>2, <1>1
    <3>4. ASSUME NEW m \in Rungs, m > l PROVE ~Reaches(m, total, good)
      <4>1. m \notin met
        BY <3>2, <3>4, <3>3, <1>1
      <4> QED
        BY <4>1
    <3> QED
      BY <3>3, <3>4
  <2> QED
    BY <2>1, <2>2
<1>3. Level = CHOOSE l \in {0} \cup Rungs : Is(l)
  BY DEF Level, LevelFor
<1>4. Level \in {0} \cup Rungs /\ Is(Level)
  <2> HIDE DEF Is
  <2> QED
    BY <1>2, <1>3
<1> QED
  BY <1>4 DEF Highest

\* A rung of the ladder in its natural numbers.
LEMMA RungType ==
  ASSUME NEW l \in Rungs
  PROVE  /\ l \in Nat \ {0} /\ Ladder[l].fixes \in Nat
         /\ Ladder[l].rate \in Nat /\ Ladder[l].age \in Nat
<1>1. Ladder \in Seq([fixes : Nat \ {0}, rate : 1 .. 100, age : Nat]) /\ l \in 1 .. Len(Ladder)
  BY AutoMergeAssumption DEF Rungs
<1>2. Ladder[l] \in [fixes : Nat \ {0}, rate : 1 .. 100, age : Nat]
  BY <1>1, ElementOfSeq
<1>3. Len(Ladder) \in Nat
  BY <1>1
<1>4. l \in Nat \ {0}
  BY <1>1, <1>3
<1> QED
  BY <1>2, <1>4

\* With the same rows and days, and no row that now counts and did not, the
\* level has not risen.
LEMMA NothingRises ==
  ASSUME TypeOK, TypeOK', Highest, Highest',
         Rows' = Rows, Succeeded' \subseteq Succeeded, age' = age
  PROVE  ~(Level' > Level)
<1> SUFFICES ASSUME Level' > Level PROVE FALSE
  OBVIOUS
<1>1. Level \in Nat
  BY RungType DEF Highest
<1>2. PICK l \in Rungs : l = Level'
  BY <1>1, RungType DEF Highest
<1>3. Total' = Total
  BY DEF Total
<1>4. Cardinality(Succeeded') <= Cardinality(Succeeded)
      /\ Cardinality(Succeeded') \in Nat /\ Cardinality(Succeeded) \in Nat
  BY Finite, FS_Subset, FS_CardinalityType
<1>5. Ladder[l].fixes \in Nat /\ Ladder[l].rate \in Nat /\ Total \in Nat /\ l # 0
  BY Finite, RungType
<1>6. Total >= Ladder[l].fixes /\ 100 * Cardinality(Succeeded') >= Ladder[l].rate * Total
      /\ age >= Ladder[l].age
  BY <1>2, <1>3, <1>5 DEF Highest, Reaches, Meets
<1>7. 100 * Cardinality(Succeeded) >= Ladder[l].rate * Total
  <2>1. Ladder[l].rate * Total \in Nat
    BY <1>5
  <2> QED
    BY <2>1, <1>4, <1>6
<1>8. Reaches(l, Total, Cardinality(Succeeded))
  BY <1>6, <1>7 DEF Reaches, Meets
<1> QED
  BY <1>2, <1>8 DEF Highest

LEMMA LevelStep ==
  ASSUME IInv, IInv', Highest, Highest', Next, Level' > Level
  PROVE  \/ Day
         \/ \E s \in Session : Create(s) \/ Pass(s) \/ Feedback(s, TRUE)
         \/ \E s \in vouched : StartWatch(s)
<1> USE DEF IInv, TypeOK, PullRequests, ApprovalMerged, CompletedIsVouched, HasRow,
            Unopened, Running, Goto, Leave, SetStatus, SetWatch, table, runs, knobs
<1> DEFINE Quiet == UNCHANGED <<Rows, age>> /\ Succeeded' \subseteq Succeeded
<1>1. ~Quiet
  BY NothingRises
<1>2. ASSUME UNCHANGED <<status, watch, age>> PROVE Quiet
  BY <1>2 DEF Rows, Succeeded
<1>3. ASSUME NEW s \in Session, status[s] # "none", NEW v \in {"active", "proposing", "merging",
                "completed", "failed", "cancelled"}, status' = [status EXCEPT ![s] = v],
             v # "completed" \/ watch'[s] \notin {"watching", "passed"},
             \A q \in Session \ {s} : watch'[q] = watch[q], UNCHANGED age
      PROVE  Quiet
  BY <1>3 DEF Rows, Succeeded
<1>4. ASSUME NEW s \in Session, ReadSettings(s) \/ ReadTrust(s) \/ OpenPR(s) \/ Merge(s) \/ Stop(s)
      PROVE  Quiet
  BY <1>4, <1>2 DEF ReadSettings, ReadTrust, OpenPR, Merge, Stop
<1>5. CASE (\E s \in Session : ApproveReads(s)) \/ ApproveMerges \/ Patch
           \/ (\E w \in Writers : WriteBack(w)) \/ (\E c \in Configs : Save(c))
  BY <1>5, <1>1, <1>2 DEF ApproveReads, ApproveMerges, Patch, WriteBack, Save
<1>6. ASSUME NEW s \in Session, Work(s) \/ EvaluateGates(s) \/ Fail(s) \/ Revert(s) \/ Cancel(s)
      PROVE  Quiet
  <2>1. PICK v \in {"active", "proposing", "failed", "cancelled"} :
           status' = [status EXCEPT ![s] = v]
    BY <1>6 DEF Work, EvaluateGates, Fail, Revert, Cancel
  <2>2. status[s] # "none" /\ UNCHANGED age
    BY <1>6 DEF Work, EvaluateGates, Fail, Revert, Cancel
  <2>3. \A q \in Session \ {s} : watch'[q] = watch[q]
    BY <1>6 DEF Work, EvaluateGates, Fail, Revert, Cancel
  <2> QED
    BY <1>3, <2>1, <2>2, <2>3
<1>7. ASSUME NEW s \in Session, Follow(s) \/ Complete(s)
      PROVE  Quiet
  <2>1. watch[s] = "none" /\ watch' = watch /\ status[s] # "none" /\ UNCHANGED age
        /\ status' = [status EXCEPT ![s] = "completed"]
    BY <1>7 DEF Follow, Complete
  <2> QED
    BY <1>3, <2>1
<1>8. ASSUME NEW s \in Session, StartWatch(s), s \notin vouched
      PROVE  Quiet
  <2>1. status[s] # "completed"
    BY <1>8 DEF StartWatch
  <2>2. status' = status /\ watch' = [watch EXCEPT ![s] = "watching"] /\ UNCHANGED age
    BY <1>8 DEF StartWatch
  <2> QED
    BY <2>1, <2>2 DEF Rows, Succeeded
<1>9. ASSUME ApproveMarks \/ ApproveEnds
      PROVE  Quiet
  <2>1. PICK v \in {"merging", "completed", "failed"} :
           /\ status' = [status EXCEPT ![approval.of] = v]
           /\ v = "completed" => approval.at = "merged"
    BY <1>9 DEF ApproveMarks, ApproveEnds
  <2>2. approval # None /\ approval.of \in Session /\ UNCHANGED <<watch, age>>
    BY <1>9 DEF ApproveMarks, ApproveEnds
  <2>3. status[approval.of] # "none"
    BY <2>2, <1>9
  <2>4. v = "completed" => watch[approval.of] = "none"
    BY <2>1, <2>2
  <2> QED
    BY <1>3, <2>1, <2>2, <2>3, <2>4
<1>10. ASSUME NEW s \in Session, Feedback(s, FALSE)
       PROVE  Quiet
  <2>1. status' = [status EXCEPT ![s] = "failed"] /\ status[s] # "none" /\ UNCHANGED <<watch, age>>
    BY <1>10 DEF Feedback
  <2> QED
    BY <1>3, <2>1
<1> HIDE DEF IInv, TypeOK, PullRequests, ApprovalMerged, CompletedIsVouched, HasRow,
             Unopened, Running, Goto, Leave, SetStatus, SetWatch, table, runs, knobs, Quiet
<1>11. ASSUME NEW s \in Session, Run(s)
       PROVE  Create(s) \/ Pass(s) \/ (StartWatch(s) /\ s \in vouched)
  BY <1>1, <1>4, <1>6, <1>7, <1>8, <1>11 DEF Run
<1>12. ASSUME NEW s \in Session, NEW worked \in BOOLEAN, Feedback(s, worked)
       PROVE  Feedback(s, TRUE)
  BY <1>1, <1>10, <1>12
<1>13. CASE \E s \in Session : Run(s) \/ ApproveReads(s) \/ Cancel(s)
  BY <1>1, <1>5, <1>6, <1>11, <1>13
<1>14. CASE \E s \in Session, worked \in BOOLEAN : Feedback(s, worked)
  BY <1>12, <1>14
<1>15. CASE ApproveMarks \/ ApproveMerges \/ ApproveEnds
  BY <1>1, <1>5, <1>9, <1>15
<1> QED
  BY <1>5, <1>13, <1>14, <1>15 DEF Next

\* For every ladder: no failure, cancellation, approval or unwatched merge
\* brings a project nearer to merging by itself.
THEOREM LevelsAreEarned == Spec => LevelIsEarned
<1>1. IInv /\ IInv' /\ Highest /\ Highest' /\ [Next]_vars =>
        [Level' > Level =>
           \/ Day
           \/ \E s \in Session : Create(s) \/ Pass(s) \/ Feedback(s, TRUE)
           \/ \E s \in vouched : StartWatch(s)]_<<table, age>>
  <2> SUFFICES ASSUME IInv, IInv', Highest, Highest', [Next]_vars, ~UNCHANGED <<table, age>>,
                      Level' > Level
               PROVE  \/ Day
                      \/ \E s \in Session : Create(s) \/ Pass(s) \/ Feedback(s, TRUE)
                      \/ \E s \in vouched : StartWatch(s)
    OBVIOUS
  <2>1. Next
    BY DEF vars, table
  <2> QED
    BY <2>1, LevelStep
<1> QED
  BY <1>1, InitIInv, NextIInv, LevelIsHighest, PTL DEF Spec, LevelIsEarned

LEMMA Ceiling ==
  ASSUME NEW y \in Nat, NEW x \in Nat, x < (y + 99) \div 100
  PROVE  100 * x < y
<1> DEFINE q == (y + 99) \div 100
<1>1. q \in Nat /\ 100 * q <= y + 99
  OBVIOUS
<1>2. x + 1 <= q
  BY <1>1
<1> QED
  BY <1>1, <1>2

\* For every ladder and every record: the number of fixes that is shown as
\* missing is never more than are needed.
THEOREM MissingAreNeeded == Spec => []FixesAreNeeded
<1>1. TypeOK => FixesAreNeeded
  <2> SUFFICES ASSUME TypeOK, Level + 1 \in Rungs,
                      NEW more \in 0 .. FixesTo(Level + 1, Total, Cardinality(Succeeded)) - 1,
                      NEW l \in (Level + 1) .. Len(Ladder)
               PROVE  ~Meets(l, Total + more, Cardinality(Succeeded) + more)
    BY DEF FixesAreNeeded
  <2> DEFINE total == Total
             good  == Cardinality(Succeeded)
             next  == Level + 1
             fixes == AtLeastZero(Ladder[next].fixes, total)
             rate  == AtLeastZero(Percent(Ladder[next].rate, total + fixes), good)
  <2>1. total \in Nat /\ good \in Nat
    BY Finite
  <2>2. next \in Nat /\ Len(Ladder) \in Nat /\ l \in Rungs
    BY RungType, AutoMergeAssumption DEF Rungs
  <2>3. /\ Ladder[next].fixes \in Nat /\ Ladder[next].rate \in Nat
        /\ Ladder[l].fixes \in Nat /\ Ladder[l].rate \in Nat
    BY <2>2, RungType
  <2>4. Ladder[next].fixes <= Ladder[l].fixes /\ Ladder[next].rate <= Ladder[l].rate
    <3>1. next = l \/ next < l
      BY <2>2
    <3> QED
      BY <3>1, <2>2, <2>3, AutoMergeAssumption
  <2>5. fixes \in Nat /\ total + fixes \in Nat
    BY <2>1, <2>3 DEF AtLeastZero
  <2>6. Ladder[next].rate * (total + fixes) \in Nat
    BY <2>3, <2>5
  <2>7. rate \in Nat
    <3>1. Percent(Ladder[next].rate, total + fixes) \in Nat
      BY <2>6 DEF Percent
    <3> QED
      BY <3>1, <2>1 DEF AtLeastZero
  <2>8. more \in Nat /\ (more < fixes \/ more < rate)
    <3>1. FixesTo(next, total, good) = IF fixes > rate THEN fixes ELSE rate
      BY DEF FixesTo
    <3> HIDE DEF fixes, rate
    <3> QED
      BY <3>1, <2>5, <2>7
  <2>9. CASE more < fixes
    <3>1. total + more < Ladder[next].fixes
      BY <2>9, <2>1, <2>3, <2>8 DEF AtLeastZero
    <3> QED
      BY <3>1, <2>1, <2>3, <2>4, <2>8 DEF Meets
  <2>10. CASE fixes <= more /\ more < rate
    <3>1. good + more < Percent(Ladder[next].rate, total + fixes)
      <4>1. Percent(Ladder[next].rate, total + fixes) \in Nat
        BY <2>6 DEF Percent
      <4> HIDE DEF fixes
      <4> QED
        BY <4>1, <2>10, <2>1, <2>8 DEF AtLeastZero
    <3>2. 100 * (good + more) < Ladder[next].rate * (total + fixes)
      <4>1. good + more < (Ladder[next].rate * (total + fixes) + 99) \div 100
        BY <3>1 DEF Percent
      <4>2. good + more \in Nat
        BY <2>1, <2>8
      <4> HIDE DEF fixes
      <4> QED
        BY <4>1, <4>2, <2>6, Ceiling
    <3>3. Ladder[next].rate * (total + fixes) <= Ladder[l].rate * (total + more)
      <4>1. total + fixes <= total + more /\ total + more \in Nat
        BY <2>10, <2>1, <2>5, <2>8
      <4> HIDE DEF fixes
      <4> QED
        BY <4>1, <2>3, <2>4, <2>5, Times
    <3>4. Ladder[l].rate * (total + more) \in Nat
      BY <2>1, <2>3, <2>8
    <3> HIDE DEF fixes
    <3>5. 100 * (good + more) < Ladder[l].rate * (total + more)
      BY <3>2, <3>3, <3>4, <2>6, <2>1, <2>8
    <3> QED
      BY <3>5, <3>4, <2>1, <2>8 DEF Meets
  <2> HIDE DEF fixes, rate
  <2> QED
    BY <2>5, <2>7, <2>8, <2>9, <2>10
<1> QED
  BY <1>1, AutoMergeTypeCorrect, PTL

-----------------------------------------------------------------------------
(* The circuit breaker (module CircuitBreaker).                            *)
(*                                                                         *)
(* What is inductive counts the failures at the head of the trail: every   *)
(* one of them was recorded after the last row of a slot that says passed, *)
(* so they are left over when Threshold failures have been set against     *)
(* each bypass of that slot.  Only while such a row is still to be written *)
(* is nothing left over.                                                   *)

\* The k newest results are failures.
Streak(k) == k <= Len(trail) /\ \A i \in 1 .. k : trail[i] = "failed"

\* A row of r that says passed is still to be written.
Pending(r) == place[r] = "recording" /\ result[r] = "passed"

Owed(r, k) == Threshold * bypasses[r] + k <= failures + Threshold * lost[r]

LeftOver ==
  \A r \in Runs, k \in 0 .. Threshold : Streak(k) /\ (k = 0 \/ ~Pending(r)) => Owed(r, k)

\* Whoever is about to be waved through has the failures for it.
WavedIsOwed == \A r \in Runs : place[r] = "waved" => Owed(r, Threshold)

BreakerInv == BreakerTypeOK /\ LeftOver /\ WavedIsOwed

-----------------------------------------------------------------------------
\* The query returns the newest results, at most Threshold of them.
LEMMA NewestIs ==
  ASSUME BreakerAssumption, NEW seq \in Seq(Results)
  PROVE  /\ Newest(seq) \in Seq(Results)
         /\ Len(Newest(seq)) <= Threshold /\ Len(Newest(seq)) <= Len(seq)
         /\ \A i \in 1 .. Len(Newest(seq)) : Newest(seq)[i] = seq[i]
BY DEF BreakerAssumption, Newest

\* A new row moves every result one place back.
LEMMA Prepended ==
  ASSUME NEW b \in Results, NEW seq \in Seq(Results)
  PROVE  /\ <<b>> \o seq \in Seq(Results)
         /\ Len(<<b>> \o seq) = Len(seq) + 1
         /\ (<<b>> \o seq)[1] = b
         /\ \A i \in 1 .. Len(seq) : (<<b>> \o seq)[i + 1] = seq[i]
OBVIOUS

\* What is left when the oldest row has gone.
LEMMA Shortened ==
  ASSUME NEW seq \in Seq(Results), NEW n \in Nat, n = Len(seq) - 1
  PROVE  /\ SubSeq(seq, 1, n) \in Seq(Results)
         /\ Len(SubSeq(seq, 1, n)) = n
         /\ \A i \in 1 .. n : SubSeq(seq, 1, n)[i] = seq[i]
OBVIOUS

\* Threshold failures are what one more bypass takes, or one more lost row gives.
LEMMA OneMore ==
  ASSUME BreakerAssumption, NEW n \in Nat
  PROVE  Threshold * (n + 1) = Threshold * n + Threshold /\ Threshold * n \in Nat
BY DEF BreakerAssumption

\* The types: each action of a run writes what its variables may hold.
LEMMA BreakerTypeInvariant ==
  ASSUME BreakerAssumption
  PROVE  /\ BreakerInit => BreakerTypeOK
         /\ BreakerTypeOK /\ [BreakerNext]_breakerVars => BreakerTypeOK'
<1> USE DEF BreakerAssumption
<1>1. BreakerInit => BreakerTypeOK
  <2> SUFFICES ASSUME BreakerInit PROVE BreakerTypeOK
    OBVIOUS
  <2>1. <<>> \in Seq(Results) /\ Len(<<>>) = 0
    OBVIOUS
  <2>2. trail \in Seq(Results) /\ Len(trail) <= Threshold
    BY <2>1, BreakerAssumption DEF BreakerInit
  <2>3. /\ place \in [Runs -> {"idle", "held", "waved", "recording"}] /\ result \in [Runs -> Results]
        /\ bypasses \in [Runs -> Nat] /\ lost \in [Runs -> 0 .. MaxLost] /\ real \subseteq Runs
    BY BreakerAssumption DEF BreakerInit, Results
  <2>4. hot \in BOOLEAN
    BY Zenon DEF BreakerInit
  <2>5. failures \in 0 .. MaxFailures
    BY BreakerAssumption DEF BreakerInit
  <2> QED
    BY <2>2, <2>3, <2>4, <2>5, Zenon DEF BreakerTypeOK
<1>2. BreakerTypeOK /\ [BreakerNext]_breakerVars => BreakerTypeOK'
  <2> SUFFICES ASSUME BreakerTypeOK, [BreakerNext]_breakerVars PROVE BreakerTypeOK'
    OBVIOUS
  <2>1. ASSUME NEW r \in Runs, Ask(r) PROVE BreakerTypeOK'
    BY <2>1 DEF BreakerTypeOK, Ask
  <2>2. ASSUME NEW r \in Runs, Wave(r) PROVE BreakerTypeOK'
    BY <2>2 DEF BreakerTypeOK, Wave, Results
  <2>3. ASSUME NEW r \in Runs, Skip(r) PROVE BreakerTypeOK'
    BY <2>3 DEF BreakerTypeOK, Skip
  <2>4. ASSUME NEW r \in Runs, Record(r) PROVE BreakerTypeOK'
    <3>1. trail' \in Seq(Results) /\ Len(trail') <= Threshold
      BY <2>4, Prepended, NewestIs DEF BreakerTypeOK, Record
    <3>2. failures' \in 0 .. MaxFailures
      BY <2>4, BreakerAssumption DEF BreakerTypeOK, Record
    <3> QED
      BY <3>1, <3>2, <2>4 DEF BreakerTypeOK, Record
  <2>5. ASSUME NEW r \in Runs, Lose(r) PROVE BreakerTypeOK'
    BY <2>5, BreakerAssumption DEF BreakerTypeOK, Lose
  <2>6. ASSUME NEW r \in Runs, NEW answer \in Results, Evaluate(r, answer) PROVE BreakerTypeOK'
    BY <2>6 DEF BreakerTypeOK, Evaluate
  <2>7. CASE Cool
    BY <2>7 DEF BreakerTypeOK, Cool
  <2>8. CASE Forget
    <3>1. Len(trail) - 1 \in Nat
      BY <2>8 DEF BreakerTypeOK, Forget
    <3>2. trail' \in Seq(Results) /\ Len(trail') = Len(trail) - 1
      BY <3>1, <2>8, Shortened DEF BreakerTypeOK, Forget
    <3>3. Len(trail') <= Threshold
      BY <3>2, BreakerAssumption DEF BreakerTypeOK
    <3> QED
      BY <3>2, <3>3, <2>8 DEF BreakerTypeOK, Forget
  <2>9. CASE UNCHANGED breakerVars
    BY <2>9 DEF BreakerTypeOK, breakerVars
  <2> QED
    BY <2>1, <2>2, <2>3, <2>4, <2>5, <2>6, <2>7, <2>8, <2>9 DEF BreakerNext
<1> QED
  BY <1>1, <1>2

\* What the variables hold, in every state.
THEOREM BreakerTypeCorrect ==
  ASSUME BreakerAssumption
  PROVE  BreakerSpec => []BreakerTypeOK
<1>1. BreakerInit => BreakerTypeOK
  BY BreakerTypeInvariant
<1>2. BreakerTypeOK /\ [BreakerNext]_breakerVars => BreakerTypeOK'
  BY BreakerTypeInvariant
<1> QED
  BY <1>1, <1>2, PTL DEF BreakerSpec

-----------------------------------------------------------------------------
LEMMA InitLeftOver ==
  ASSUME BreakerAssumption
  PROVE  BreakerInit => LeftOver /\ WavedIsOwed
<1> USE DEF BreakerAssumption
<1> SUFFICES ASSUME BreakerInit PROVE LeftOver /\ WavedIsOwed
  OBVIOUS
<1>1. Len(trail) = 0
  BY DEF BreakerInit
<1>2. \A k \in 0 .. Threshold : Streak(k) => k = 0
  BY <1>1, BreakerAssumption DEF Streak
<1>3. \A r \in Runs : Owed(r, 0)
  BY BreakerAssumption DEF BreakerInit, Owed
<1> QED
  BY <1>2, <1>3 DEF BreakerInit, LeftOver, WavedIsOwed

LEMMA NextLeftOver ==
  ASSUME BreakerAssumption
  PROVE  BreakerInv /\ [BreakerNext]_breakerVars => LeftOver' /\ WavedIsOwed'
<1> USE DEF BreakerAssumption
<1> SUFFICES ASSUME BreakerInv, [BreakerNext]_breakerVars PROVE LeftOver' /\ WavedIsOwed'
  OBVIOUS
<1>1. BreakerTypeOK /\ LeftOver /\ WavedIsOwed
  BY DEF BreakerInv
\* A step that writes no row and waves nothing through changes no debt.
<1>2. ASSUME UNCHANGED <<trail, failures, bypasses, lost>>,
             \A r \in Runs : Pending(r) => Pending(r)',
             \A r \in Runs : place'[r] = "waved" => place[r] = "waved" \/ (Streak(Threshold) /\ ~Pending(r))
      PROVE  LeftOver' /\ WavedIsOwed'
  <2>1. \A r \in Runs, k \in 0 .. Threshold : Owed(r, k)' <=> Owed(r, k)
    BY <1>2 DEF Owed
  <2>2. \A k \in 0 .. Threshold : Streak(k)' <=> Streak(k)
    BY <1>2 DEF Streak
  <2>3. LeftOver'
    BY <1>1, <1>2, <2>1, <2>2 DEF LeftOver
  <2>4. Threshold \in 0 .. Threshold
    BY BreakerAssumption
  <2>5. WavedIsOwed'
    BY <1>1, <1>2, <2>1, <2>4 DEF LeftOver, WavedIsOwed
  <2> QED
    BY <2>3, <2>5
<1>3. ASSUME NEW r \in Runs, Ask(r) PROVE LeftOver' /\ WavedIsOwed'
  <2>1. \A q \in Runs : Pending(q) => Pending(q)'
    BY <1>1, <1>3 DEF Ask, Pending, BreakerTypeOK
  <2>2. State = "open" => Streak(Threshold)
    BY <1>1 DEF State, Tripped, Streak, BreakerTypeOK
  <2>3. \A q \in Runs : place'[q] = "waved" => place[q] = "waved" \/ (Streak(Threshold) /\ ~Pending(q))
    BY <1>1, <1>3, <2>2 DEF Ask, Pending, BreakerTypeOK
  <2> QED
    BY <1>2, <1>3, <2>1, <2>3 DEF Ask
<1>4. ASSUME NEW r \in Runs, NEW answer \in Results, Evaluate(r, answer) PROVE LeftOver' /\ WavedIsOwed'
  <2>1. \A q \in Runs : Pending(q) => Pending(q)'
    BY <1>1, <1>4 DEF Evaluate, Pending, BreakerTypeOK
  <2>2. \A q \in Runs : place'[q] = "waved" => place[q] = "waved" \/ (Streak(Threshold) /\ ~Pending(q))
    BY <1>1, <1>4 DEF Evaluate, BreakerTypeOK
  <2> QED
    BY <1>2, <1>4, <2>1, <2>2 DEF Evaluate
<1>5. ASSUME NEW r \in Runs, Skip(r) PROVE LeftOver' /\ WavedIsOwed'
  <2>1. \A q \in Runs : Pending(q) => Pending(q)'
    BY <1>1, <1>5 DEF Skip, Pending, BreakerTypeOK
  <2>2. \A q \in Runs : place'[q] = "waved" => place[q] = "waved" \/ (Streak(Threshold) /\ ~Pending(q))
    BY <1>1, <1>5 DEF Skip, BreakerTypeOK
  <2> QED
    BY <1>2, <1>5, <2>1, <2>2 DEF Skip
<1>6. CASE Cool
  BY <1>2, <1>6 DEF Cool, Pending
<1>7. CASE UNCHANGED breakerVars
  BY <1>2, <1>7 DEF breakerVars, Pending
\* The bypass is set against the failures that opened the breaker.
<1>8. ASSUME NEW r \in Runs, Wave(r) PROVE LeftOver' /\ WavedIsOwed'
  <2>1. Pending(r)'
    BY <1>1, <1>8 DEF Wave, Pending, BreakerTypeOK
  <2>2. Owed(r, 0)'
    <3>1. Owed(r, Threshold)
      BY <1>1, <1>8 DEF WavedIsOwed, Wave
    <3>2. bypasses'[r] = bypasses[r] + 1 /\ bypasses[r] \in Nat
      BY <1>1, <1>8 DEF Wave, BreakerTypeOK
    <3>3. Threshold * bypasses'[r] = Threshold * bypasses[r] + Threshold
      BY <3>2, OneMore
    <3>4. Threshold * bypasses[r] \in Nat
      BY <3>2, OneMore
    <3>5. failures' = failures /\ lost' = lost
      BY <1>8 DEF Wave
    <3>6. Threshold * bypasses[r] + Threshold <= failures + Threshold * lost[r]
      BY <3>1 DEF Owed
    <3> QED
      BY <3>3, <3>4, <3>5, <3>6, BreakerAssumption DEF Owed
  <2>3. \A q \in Runs : q # r => /\ place'[q] = place[q] /\ Pending(q)' = Pending(q)
                                /\ \A k \in 0 .. Threshold : Owed(q, k)' = Owed(q, k)
    BY <1>1, <1>8 DEF Wave, Pending, Owed, BreakerTypeOK
  <2>4. \A k \in 0 .. Threshold : Streak(k)' = Streak(k)
    BY <1>8 DEF Wave, Streak
  <2>5. place'[r] = "recording"
    BY <2>1 DEF Pending
  <2>6. ASSUME NEW q \in Runs, NEW k \in 0 .. Threshold, Streak(k)', k = 0 \/ ~Pending(q)'
        PROVE  Owed(q, k)'
    <3>1. CASE q = r
      BY <3>1, <2>1, <2>2, <2>6
    <3>2. CASE q # r
      BY <3>2, <2>3, <2>4, <2>6, <1>1 DEF LeftOver
    <3> QED
      BY <3>1, <3>2
  <2>7. ASSUME NEW q \in Runs, place'[q] = "waved" PROVE Owed(q, Threshold)'
    <3>1. q # r
      BY <2>5, <2>7
    <3>2. Threshold \in 0 .. Threshold
      BY BreakerAssumption
    <3> QED
      BY <3>1, <3>2, <2>3, <2>7, <1>1 DEF WavedIsOwed
  <2> QED
    BY <2>6, <2>7 DEF LeftOver, WavedIsOwed
\* A failure lengthens the streak by one, and is one more failure to set
\* against a bypass; a row that says passed ends the streak.
<1>9. ASSUME NEW r \in Runs, Record(r) PROVE LeftOver' /\ WavedIsOwed'
  <2>1. /\ <<result[r]>> \o trail \in Seq(Results)
        /\ (<<result[r]>> \o trail)[1] = result[r]
        /\ \A i \in 1 .. Len(trail) : (<<result[r]>> \o trail)[i + 1] = trail[i]
        /\ Len(<<result[r]>> \o trail) = Len(trail) + 1
    BY <1>1, Prepended DEF BreakerTypeOK
  <2>2. /\ trail' \in Seq(Results) /\ Len(trail') <= Len(trail) + 1
        /\ \A i \in 1 .. Len(trail') : trail'[i] = (<<result[r]>> \o trail)[i]
    BY <2>1, <1>9, NewestIs DEF Record
  <2>3. ASSUME NEW k \in 0 .. Threshold, Streak(k)', k # 0
        PROVE  result[r] = "failed" /\ Streak(k - 1)
    <3>1. k <= Len(trail') /\ \A i \in 1 .. k : trail'[i] = "failed"
      BY <2>3 DEF Streak
    <3>2. Len(trail) \in Nat /\ Len(trail') \in Nat
      BY <1>1, <2>2 DEF BreakerTypeOK
    <3>3. result[r] = "failed"
      BY <3>1, <3>2, <2>1, <2>2, <2>3
    <3>4. k - 1 <= Len(trail)
      BY <3>1, <3>2, <2>2
    <3>5. ASSUME NEW i \in 1 .. k - 1 PROVE trail[i] = "failed"
      <4>1. i \in 1 .. Len(trail) /\ i + 1 \in 1 .. k /\ i + 1 \in 1 .. Len(trail')
        BY <3>1, <3>2, <3>4
      <4> QED
        BY <4>1, <3>1, <2>1, <2>2
    <3> QED
      BY <3>3, <3>4, <3>5 DEF Streak
  <2>4. bypasses' = bypasses /\ lost' = lost /\ result' = result
    BY <1>9 DEF Record
  <2>5. failures' = failures + (IF result[r] = "passed" THEN 0 ELSE 1)
    BY <1>1, <1>9 DEF Record, BreakerTypeOK
  <2>6. \A q \in Runs : q # r => place'[q] = place[q]
    BY <1>1, <1>9 DEF Record, BreakerTypeOK
  <2>7. place'[r] = "idle"
    BY <1>1, <1>9 DEF Record, BreakerTypeOK
  <2>8. \A q \in Runs : Threshold * bypasses[q] \in Nat /\ Threshold * lost[q] \in Nat
    BY <1>1, BreakerAssumption, OneMore DEF BreakerTypeOK
  <2>9. failures \in Nat
    BY <1>1 DEF BreakerTypeOK
  <2>10. Streak(0)
    BY <1>1 DEF Streak, BreakerTypeOK
  <2>11. ASSUME NEW q \in Runs, NEW k \in 0 .. Threshold, Streak(k)', k = 0 \/ ~Pending(q)'
         PROVE  Owed(q, k)'
    <3>1. CASE k = 0
      <4>1. Owed(q, 0)
        BY <1>1, <2>10, BreakerAssumption DEF LeftOver
      <4> QED
        BY <4>1, <3>1, <2>4, <2>5, <2>8, <2>9 DEF Owed
    <3>2. CASE k # 0
      <4>1. result[r] = "failed" /\ Streak(k - 1)
        BY <3>2, <2>3, <2>11
      <4>2. ~Pending(q)
        BY <3>2, <4>1, <2>4, <2>6, <2>11 DEF Pending
      <4>3. k - 1 \in 0 .. Threshold
        BY <3>2, BreakerAssumption
      <4>4. Owed(q, k - 1)
        BY <4>1, <4>2, <4>3, <1>1 DEF LeftOver
      <4>5. failures' = failures + 1
        BY <4>1, <2>5
      <4> QED
        BY <4>4, <4>5, <2>4, <2>8, <2>9 DEF Owed
    <3> QED
      BY <3>1, <3>2
  <2>12. ASSUME NEW q \in Runs, place'[q] = "waved" PROVE Owed(q, Threshold)'
    <3>1. place[q] = "waved"
      BY <2>6, <2>7, <2>12
    <3>2. Owed(q, Threshold)
      BY <3>1, <1>1 DEF WavedIsOwed
    <3> QED
      BY <3>2, <2>4, <2>5, <2>8, <2>9, BreakerAssumption DEF Owed
  <2> QED
    BY <2>11, <2>12 DEF LeftOver, WavedIsOwed
\* A lost row leaves the streak as it is: it is counted in the allowance.
<1>10. ASSUME NEW r \in Runs, Lose(r) PROVE LeftOver' /\ WavedIsOwed'
  <2>1. \A q \in Runs : q # r => /\ place'[q] = place[q] /\ Pending(q)' = Pending(q)
                                /\ \A k \in 0 .. Threshold : Owed(q, k)' = Owed(q, k)
    BY <1>1, <1>10 DEF Lose, Pending, Owed, BreakerTypeOK
  <2>2. \A k \in 0 .. Threshold : Streak(k)' = Streak(k)
    BY <1>10 DEF Lose, Streak
  <2>3. Streak(0)
    BY <1>1 DEF Streak, BreakerTypeOK
  <2>4. Owed(r, 0)
    BY <1>1, <2>3, BreakerAssumption DEF LeftOver
  <2>5. \A k \in 0 .. Threshold : Owed(r, k)'
    <3>1. lost'[r] = lost[r] + 1 /\ lost[r] \in Nat /\ bypasses[r] \in Nat
      BY <1>1, <1>10 DEF Lose, BreakerTypeOK
    <3>2. Threshold * lost'[r] = Threshold * lost[r] + Threshold
      BY <3>1, OneMore
    <3>3. Threshold * bypasses[r] \in Nat /\ Threshold * lost[r] \in Nat /\ failures \in Nat
      BY <1>1, <3>1, OneMore DEF BreakerTypeOK
    <3>4. bypasses' = bypasses /\ failures' = failures
      BY <1>10 DEF Lose
    <3>5. Threshold * bypasses[r] <= failures + Threshold * lost[r]
      BY <2>4, <3>3 DEF Owed
    <3> QED
      BY <3>2, <3>3, <3>4, <3>5, BreakerAssumption DEF Owed
  <2>6. place'[r] = "idle"
    BY <1>1, <1>10 DEF Lose, BreakerTypeOK
  <2>7. LeftOver'
    BY <2>1, <2>2, <2>5, <1>1 DEF LeftOver
  <2>8. Threshold \in 0 .. Threshold
    BY BreakerAssumption
  <2>9. WavedIsOwed'
    BY <2>1, <2>6, <2>8, <1>1 DEF WavedIsOwed
  <2> QED
    BY <2>7, <2>9
<1>11. CASE Forget
  <2>1. Len(trail) - 1 \in Nat /\ trail' = SubSeq(trail, 1, Len(trail) - 1)
    BY <1>1, <1>11 DEF Forget, BreakerTypeOK
  <2>2. Len(trail') <= Len(trail) /\ \A i \in 1 .. Len(trail') : trail'[i] = trail[i]
    BY <1>1, <2>1, Shortened DEF BreakerTypeOK
  <2>3. \A k \in 0 .. Threshold : Streak(k)' => Streak(k)
    BY <1>1, <2>1, <2>2, Shortened DEF Streak, BreakerTypeOK
  <2>4. UNCHANGED <<place, result, failures, bypasses, lost>>
    BY <1>11 DEF Forget
  <2>5. \A q \in Runs : Pending(q)' = Pending(q) /\ \A k \in 0 .. Threshold : Owed(q, k)' = Owed(q, k)
    BY <2>4 DEF Pending, Owed
  <2>6. LeftOver'
    BY <2>3, <2>5, <1>1 DEF LeftOver
  <2>7. Threshold \in 0 .. Threshold
    BY BreakerAssumption
  <2> QED
    BY <2>4, <2>5, <2>6, <2>7, <1>1 DEF WavedIsOwed
<1> QED
  BY <1>3, <1>4, <1>5, <1>6, <1>7, <1>8, <1>9, <1>10, <1>11 DEF BreakerNext

LEMMA LeftOverSuffices ==
  ASSUME BreakerAssumption
  PROVE  BreakerTypeOK /\ LeftOver => BypassesAreRationed
<1> USE DEF BreakerAssumption
<1> SUFFICES ASSUME BreakerTypeOK, LeftOver, NEW r \in Runs
             PROVE  Threshold * bypasses[r] <= failures + Threshold * lost[r]
  BY DEF BypassesAreRationed
<1>1. Streak(0) /\ 0 \in 0 .. Threshold
  BY BreakerAssumption DEF Streak, BreakerTypeOK
<1>2. Owed(r, 0)
  BY <1>1 DEF LeftOver
<1>3. Threshold * bypasses[r] \in Nat
  BY OneMore DEF BreakerTypeOK
<1> QED
  BY <1>2, <1>3 DEF Owed

\* What the recording of a bypass as passed comes to (remediate.ts): however
\* many runs ask, evaluate and record at the same time, none is waved through
\* more often than the recorded failures pay for.
THEOREM Rationed ==
  ASSUME BreakerAssumption
  PROVE  BreakerSpec => []BypassesAreRationed
<1>1. BreakerInit => BreakerInv
  BY BreakerTypeInvariant, InitLeftOver DEF BreakerInv
<1>2. BreakerInv /\ [BreakerNext]_breakerVars => BreakerInv'
  BY BreakerTypeInvariant, NextLeftOver DEF BreakerInv
<1>3. BreakerInv => BypassesAreRationed
  BY LeftOverSuffices DEF BreakerInv
<1> QED
  BY <1>1, <1>2, <1>3, PTL DEF BreakerSpec
=============================================================================
