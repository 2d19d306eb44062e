---------------------------- MODULE Alerts_proofs ----------------------------
(***************************************************************************)
(* Proofs about Alerts: its type, its keys, its storms and its monitor.    *)
(***************************************************************************)
EXTENDS Alerts, TLAPS

-----------------------------------------------------------------------------
(* Phases                                                                  *)

\* A watch that has not reached its end is within one of its phases.
Watched == /\ mon = "none" => elapsed = 0
           /\ mon = "watching" => elapsed < Duration

LEMMA PhaseFacts ==
  ASSUME elapsed \in Nat, elapsed < Duration
  PROVE  /\ Phase \in 1 .. 3
         /\ elapsed < Phases[Phase][1]
         /\ elapsed + Phases[Phase][2] \in 0 .. (Duration + Phases[3][2])
         /\ Phase = 1 => elapsed + Phases[Phase][2] < Phases[2][1]
         /\ Phase = 3 => elapsed >= Phases[2][1]
<1> DEFINE In(p) == /\ elapsed < Phases[p][1]
                    /\ \A q \in 1 .. (p - 1) : elapsed >= Phases[q][1]
<1>1. /\ \A p \in 1 .. 3 : Phases[p][1] \in Nat /\ Phases[p][2] \in Nat
      /\ Phases[1][1] < Phases[2][1] /\ Phases[2][1] < Phases[3][1]
      /\ Phases[1][2] <= Phases[2][2] /\ Phases[2][2] <= Phases[3][2]
      /\ Phases[1][1] + Phases[1][2] <= Phases[2][1]
  BY AlertsAssumption
<1>2. \E p \in 1 .. 3 : In(p)
  <2>1. CASE elapsed < Phases[1][1]
    <3>1. In(1)
      BY <2>1
    <3> QED
      BY <3>1
  <2>2. CASE elapsed >= Phases[1][1] /\ elapsed < Phases[2][1]
    <3>1. \A q \in 1 .. (2 - 1) : q = 1
      OBVIOUS
    <3>2. In(2)
      BY <2>2, <3>1
    <3> QED
      BY <3>2
  <2>3. CASE elapsed >= Phases[1][1] /\ elapsed >= Phases[2][1]
    <3>1. \A q \in 1 .. (3 - 1) : q = 1 \/ q = 2
      OBVIOUS
    <3>2. In(3)
      BY <2>3, <3>1 DEF Duration
    <3> QED
      BY <3>2
  <2> QED
    BY <1>1, <2>1, <2>2, <2>3
<1>3. Phase \in 1 .. 3 /\ In(Phase)
  BY <1>2 DEF Phase
<1> HIDE DEF In
<1>4. elapsed < Phases[Phase][1]
  BY <1>3 DEF In
<1>6. Phase = 3 => elapsed >= Phases[2][1]
  BY <1>3 DEF In
<1>5. \A p \in 1 .. 3 : p = 1 \/ p = 2 \/ p = 3
  OBVIOUS
<1> QED
  BY <1>1, <1>3, <1>4, <1>5, <1>6 DEF Duration

-----------------------------------------------------------------------------
(* What every run of ingestion, every resolver and every poll keeps to     *)

\* Only the fixed alert's own row is older than the watch: whatever came after
\* it was inserted while no alert of its error was open.
WatchInv ==
  /\ \A i \in Rows : err[i] # None => i \in open \cup closed
  /\ closed \subseteq {i \in Rows : err[i] # None}
  /\ since \subseteq {i \in Rows : err[i] # None}
  /\ mon = "none" => since = {}
  /\ mon # "none" => /\ fixed \in Rows /\ err[fixed] # None
                     /\ Recurred # {} => fixed \in closed

\* Whoever has made a storm is about to insert the alert or to tell of it.
TriggerInv == \A n \in triggers : pc[n] \in {"insert", "notify"}

LEMMA TypeInit == Init => TypeOK /\ Watched
<1>1. Duration \in Nat /\ Phases[3][2] \in Nat
  BY AlertsAssumption DEF Duration
<1>2. 0 \in 0 .. (Duration + Phases[3][2])
  BY <1>1
<1>3. None \notin Errors
  BY AlertsAssumption
<1> QED
  BY <1>2, <1>3 DEF Init, TypeOK, Watched

LEMMA TypeStep == TypeOK /\ Watched /\ WatchInv /\ [Next]_vars => TypeOK' /\ Watched'
<1> SUFFICES ASSUME TypeOK, Watched, WatchInv, [Next]_vars
             PROVE  TypeOK' /\ Watched'
  OBVIOUS
<1> USE DEF TypeOK, Watched
<1>a. Duration \in Nat /\ Phases[3][2] \in Nat
  BY AlertsAssumption DEF Duration
<1>b. 0 < Duration
  BY AlertsAssumption DEF Duration
<1>1. ASSUME NEW n \in Ingests, NEW e \in Errors, Arrive(n, e)
      PROVE  TypeOK' /\ Watched'
  BY <1>1 DEF Arrive, Goto, table, watch, Callers, Duration
<1>2. ASSUME NEW n \in Callers, Ingest(n)
      PROVE  TypeOK' /\ Watched'
  <2>1. CASE Claim(n)
    BY <2>1 DEF Claim, Goto, table, watch, Duration
  <2>2. CASE Duplicate(n)
    BY <2>2 DEF Duplicate, Leave, table, watch, Duration
  <2>3. CASE ClaimUnavailable(n)
    BY <2>3 DEF ClaimUnavailable, Goto, table, watch, Duration
  <2>4. CASE JoinStorm(n)
    BY <2>4 DEF JoinStorm, Goto, table, watch, Duration
  <2>5. CASE CountRecent(n)
    BY <2>5 DEF CountRecent, Goto, table, watch, Duration
  <2>6. CASE TriggerStorm(n)
    BY <2>6 DEF TriggerStorm, Goto, table, watch, Duration
  <2>7. CASE Insert(n)
    <3>1. PICK i \in Vacant : /\ err' = [err EXCEPT ![i] = what[n]]
                              /\ open' = open \cup {i} /\ fresh' = fresh \cup {i}
                              /\ since' = IF mon = "none" THEN since ELSE since \cup {i}
      BY <2>7 DEF Insert
    <3>2. i \in Rows /\ err[i] = None
      BY <3>1 DEF Vacant
    <3>3. what[n] \in Errors /\ what[n] # None
      BY <2>7, AlertsAssumption DEF Insert, Goto
    <3>4. err' \in [Rows -> Errors \cup {None}]
      BY <3>1, <3>2, <3>3
    <3>5. open' \subseteq {j \in Rows : err'[j] # None}
      BY <3>1, <3>2, <3>3
    <3>6. \A j, k \in open' : err'[j] = err'[k] => j = k
      BY <2>7, <3>1, <3>2, <3>3 DEF Insert, OpenOf
    <3>7. pc' = [pc EXCEPT ![n] = "notify"] /\ UNCHANGED <<what, grouped, triggers, key>>
      BY <2>7 DEF Insert, Goto
    <3>8. since \subseteq since' /\ since' \subseteq Rows
      BY <3>1, <3>2
    <3> QED
      BY <2>7, <3>1, <3>2, <3>4, <3>5, <3>6, <3>7, <3>8 DEF Insert, Duration
  <2>8. CASE Conflict(n)
    BY <2>8 DEF Conflict, Leave, table, watch, Duration
  <2>9. CASE Notify(n)
    BY <2>9 DEF Notify, Leave, watch, Duration
  <2> QED
    BY <1>2, <2>1, <2>2, <2>3, <2>4, <2>5, <2>6, <2>7, <2>8, <2>9 DEF Ingest
<1>3. ASSUME NEW n \in Callers, Crash(n)
      PROVE  TypeOK' /\ Watched'
  BY <1>3 DEF Crash, Leave, table, watch, Duration
<1>4. ASSUME NEW i \in Rows, Resolve(i)
      PROVE  TypeOK' /\ Watched'
  BY <1>4, AlertsAssumption DEF Resolve, Close, ingest, watch, Duration
<1>5. ASSUME NEW i \in Rows, ResolveElsewhere(i)
      PROVE  TypeOK' /\ Watched'
  BY <1>5, AlertsAssumption DEF ResolveElsewhere, Close, ingest, watch, Duration
<1>6. ASSUME NEW i \in Rows, Reopen(i)
      PROVE  TypeOK' /\ Watched'
  <2>1. err[i] \in Errors /\ OpenOf(err[i]) = {}
    BY <1>6 DEF Reopen, WatchInv
  <2>2. \A j \in open : err[j] # err[i]
    BY <2>1 DEF OpenOf
  <2>3. open' = open \cup {i} /\ UNCHANGED err
    BY <1>6 DEF Reopen
  <2>4. open' \subseteq {j \in Rows : err'[j] # None}
    BY <2>1, <2>3, AlertsAssumption
  <2>5. \A j, k \in open' : err'[j] = err'[k] => j = k
    BY <2>2, <2>3
  <2> QED
    BY <1>6, <2>1, <2>3, <2>4, <2>5 DEF Reopen, ingest, watch, Duration
<1>7. ASSUME NEW i \in Rows, Merge(i)
      PROVE  TypeOK' /\ Watched'
  BY <1>7, <1>a, <1>b DEF Merge, table, ingest, Duration
<1>8. ASSUME NEW e \in Errors, DeleteKey(e) \/ DeleteKeyLost(e) \/ KeyExpires(e)
      PROVE  TypeOK' /\ Watched'
  BY <1>8 DEF DeleteKey, DeleteKeyLost, KeyExpires, table, ingest, watch, Duration
<1>9. CASE FiveMinutesPass
  BY <1>9 DEF FiveMinutesPass, ingest, watch, Duration
<1>10. CASE Poll
  <2>1. mon = "watching" /\ elapsed \in Nat /\ elapsed < Duration
    BY <1>10, <1>a DEF Poll
  <2>2. elapsed + Phases[Phase][2] \in 0 .. (Duration + Phases[3][2])
    BY <2>1, PhaseFacts
  <2>3. elapsed' = elapsed + Phases[Phase][2] /\ checked' \in {checked, Recurred, {}}
    BY <1>10 DEF Poll
  <2>4. Recurred \subseteq since
    BY DEF Recurred
  <2>5. mon' \in {"reverting", "watching", "passed"} /\ (mon' = "watching" => elapsed' < Duration)
    BY <1>10, <2>3 DEF Poll
  <2> QED
    BY <1>10, <1>a, <2>2, <2>3, <2>4, <2>5 DEF Poll, table, ingest, Duration
<1>11. CASE Revert
  BY <1>11, AlertsAssumption DEF Revert, Goto, table, Callers, Duration
<1>12. CASE RevertFails \/ MonitorCrash
  BY <1>12 DEF RevertFails, MonitorCrash, table, ingest, Duration
<1>13. CASE UNCHANGED vars
  BY <1>13 DEF vars, table, ingest, watch, Duration
<1> QED
  BY <1>1, <1>2, <1>3, <1>4, <1>5, <1>6, <1>7, <1>8, <1>9, <1>10, <1>11, <1>12, <1>13
     DEF Next, Watch

-----------------------------------------------------------------------------
(* The steps of an ingestion, by what they write                           *)

\* All of them but Insert leave the alerts as they are.
LEMMA IngestFacts ==
  ASSUME TypeOK, NEW n \in Callers, Ingest(n) \/ Crash(n)
  PROVE  /\ \/ UNCHANGED <<err, open, since>>
            \/ Insert(n)
         /\ UNCHANGED <<mon, fixed, elapsed, checked, closed>>
BY DEF Ingest, Claim, Duplicate, ClaimUnavailable, JoinStorm, CountRecent, TriggerStorm, Insert,
       Conflict, Notify, Crash, table, watch

LEMMA WatchStep == TypeOK /\ WatchInv /\ [Next]_vars => WatchInv'
<1> SUFFICES ASSUME TypeOK, WatchInv, [Next]_vars
             PROVE  WatchInv'
  OBVIOUS
<1> USE DEF WatchInv, Recurred
<1>1. CASE UNCHANGED <<err, open, since, mon, fixed, closed>>
  BY <1>1
<1>2. ASSUME NEW n \in Callers, Ingest(n) \/ Crash(n)
      PROVE  WatchInv'
  <2>1. CASE Insert(n)
    <3>1. PICK i \in Vacant : /\ err' = [err EXCEPT ![i] = what[n]]
                              /\ open' = open \cup {i}
                              /\ since' = IF mon = "none" THEN since ELSE since \cup {i}
      BY <2>1 DEF Insert
    <3>2. i \in Rows /\ err[i] = None
      BY <3>1 DEF Vacant
    <3>3. what[n] \in Errors /\ what[n] # None
      BY <2>1, AlertsAssumption DEF Insert, Goto, TypeOK
    <3>4. UNCHANGED <<mon, fixed, closed>>
      BY <2>1 DEF Insert
    <3>5. err' \in [Rows -> Errors \cup {None}] /\ err'[i] = what[n]
          /\ \A j \in Rows \ {i} : err'[j] = err[j]
      BY <3>1, <3>2, <3>3 DEF TypeOK
    <3>6. ASSUME mon # "none", Recurred' # {}
          PROVE  fixed \in closed
      <4>1. fixed \in Rows /\ fixed # i /\ err'[fixed] = err[fixed]
        BY <3>2, <3>5, <3>6
      <4>2. PICK j \in since' : err'[j] = err[fixed]
        BY <3>4, <3>6, <4>1
      <4>3. CASE j = i
        BY <2>1, <3>5, <4>1, <4>2, <4>3, <3>6 DEF Insert, OpenOf
      <4>4. CASE j # i
        BY <3>1, <3>5, <3>6, <4>2, <4>4 DEF TypeOK
      <4> QED
        BY <4>3, <4>4
    <3> QED
      BY <3>1, <3>2, <3>3, <3>4, <3>5, <3>6 DEF TypeOK
  <2> QED
    BY <1>1, <1>2, <2>1, IngestFacts
<1>3. ASSUME NEW i \in Rows, Resolve(i) \/ ResolveElsewhere(i)
      PROVE  WatchInv'
  BY <1>3 DEF Resolve, ResolveElsewhere, Close, ingest, watch, TypeOK
<1>4. ASSUME NEW i \in Rows, Reopen(i)
      PROVE  WatchInv'
  BY <1>4 DEF Reopen, ingest, watch
<1>5. ASSUME NEW i \in Rows, Merge(i)
      PROVE  WatchInv'
  BY <1>5 DEF Merge, table, ingest
<1>6. CASE Watch \/ MonitorCrash
  BY <1>6 DEF Watch, Poll, Revert, RevertFails, MonitorCrash, table, ingest
<1>7. CASE (\E n \in Ingests, e \in Errors : Arrive(n, e))
           \/ (\E e \in Errors : DeleteKey(e) \/ DeleteKeyLost(e) \/ KeyExpires(e))
           \/ FiveMinutesPass \/ UNCHANGED vars
  BY <1>1, <1>7 DEF Arrive, DeleteKey, DeleteKeyLost, KeyExpires, FiveMinutesPass, vars,
                    table, ingest, watch
<1> QED
  BY <1>2, <1>3, <1>4, <1>5, <1>6, <1>7 DEF Next

LEMMA TriggerStep == TypeOK /\ TriggerInv /\ [Next]_vars => TriggerInv'
<1> SUFFICES ASSUME TypeOK, TriggerInv, [Next]_vars
             PROVE  TriggerInv'
  OBVIOUS
<1> USE DEF TriggerInv, TypeOK
<1>1. ASSUME NEW n \in Callers, Ingest(n)
      PROVE  TriggerInv'
  BY <1>1 DEF Ingest, Claim, Duplicate, ClaimUnavailable, JoinStorm, CountRecent, TriggerStorm,
              Insert, Conflict, Notify, Goto, Leave
<1>2. ASSUME NEW n \in Callers, Crash(n)
      PROVE  TriggerInv'
  BY <1>2 DEF Crash, Leave
<1>3. ASSUME NEW n \in Ingests, NEW e \in Errors, Arrive(n, e)
      PROVE  TriggerInv'
  BY <1>3 DEF Arrive, Goto, Callers
<1>4. CASE Revert
  BY <1>4 DEF Revert, Goto, Callers
<1>5. CASE \/ \E i \in Rows : Resolve(i) \/ ResolveElsewhere(i) \/ Reopen(i) \/ Merge(i)
           \/ \E e \in Errors : DeleteKey(e) \/ DeleteKeyLost(e) \/ KeyExpires(e)
           \/ FiveMinutesPass \/ Poll \/ RevertFails \/ MonitorCrash \/ UNCHANGED vars
  BY <1>5 DEF Resolve, ResolveElsewhere, Reopen, Merge, DeleteKey, DeleteKeyLost, KeyExpires,
              FiveMinutesPass, Poll, RevertFails, MonitorCrash, vars, ingest
<1> QED
  BY <1>1, <1>2, <1>3, <1>4, <1>5 DEF Next, Watch

-----------------------------------------------------------------------------
(* The properties                                                          *)

LEMMA KeyStep == TypeOK /\ KeyHasReason /\ [Next]_vars => KeyHasReason'
<1> SUFFICES ASSUME TypeOK, KeyHasReason, [Next]_vars
             PROVE  KeyHasReason'
  OBVIOUS
<1> USE DEF KeyHasReason, TypeOK, OpenOf
<1>1. ASSUME NEW n \in Ingests, NEW e \in Errors, Arrive(n, e)
      PROVE  KeyHasReason'
  BY <1>1 DEF Arrive, Goto, Callers, table
<1>2. ASSUME NEW n \in Callers, Ingest(n)
      PROVE  KeyHasReason'
  <2>1. CASE Claim(n)
    BY <2>1 DEF Claim, Goto, table
  <2>2. CASE Duplicate(n)
    BY <2>2 DEF Duplicate, Leave, table
  <2>3. CASE ClaimUnavailable(n) \/ JoinStorm(n) \/ TriggerStorm(n)
    BY <2>3 DEF ClaimUnavailable, JoinStorm, TriggerStorm, Goto, table
  <2>4. CASE CountRecent(n)
    BY <2>4 DEF CountRecent, Goto, table
  <2>5. CASE Insert(n)
    <3>1. PICK i \in Vacant : err' = [err EXCEPT ![i] = what[n]] /\ open' = open \cup {i}
      BY <2>5 DEF Insert
    <3>2. i \in Rows /\ err[i] = None
      BY <3>1 DEF Vacant
    <3>3. err'[i] = what[n] /\ i \in open'
      BY <3>1, <3>2
    <3>4. \A j \in open : j \in open' /\ err'[j] = err[j]
      BY <3>1, <3>2
    <3>5. orphaned' = orphaned \ {what[n]} /\ pc' = [pc EXCEPT ![n] = "notify"]
          /\ UNCHANGED <<key, deleting, what>>
      BY <2>5 DEF Insert, Goto
    <3> QED
      BY <3>3, <3>4, <3>5
  <2>6. CASE Conflict(n)
    BY <2>6 DEF Conflict, Leave, table
  <2>7. CASE Notify(n)
    BY <2>7 DEF Notify, Leave
  <2> QED
    BY <1>2, <2>1, <2>2, <2>3, <2>4, <2>5, <2>6, <2>7 DEF Ingest
<1>3. ASSUME NEW n \in Callers, Crash(n)
      PROVE  KeyHasReason'
  BY <1>3 DEF Crash, Leave, table
<1>4. ASSUME NEW i \in Rows, Resolve(i)
      PROVE  KeyHasReason'
  BY <1>4 DEF Resolve, Close, ingest
<1>5. ASSUME NEW i \in Rows, ResolveElsewhere(i)
      PROVE  KeyHasReason'
  BY <1>5 DEF ResolveElsewhere, Close, ingest
<1>6. ASSUME NEW i \in Rows, Reopen(i) \/ Merge(i)
      PROVE  KeyHasReason'
  BY <1>6 DEF Reopen, Merge, table, ingest
<1>7. ASSUME NEW e \in Errors, DeleteKey(e) \/ DeleteKeyLost(e) \/ KeyExpires(e)
      PROVE  KeyHasReason'
  BY <1>7 DEF DeleteKey, DeleteKeyLost, KeyExpires, table, ingest
<1>8. CASE FiveMinutesPass \/ Poll \/ RevertFails \/ MonitorCrash \/ UNCHANGED vars
  BY <1>8 DEF FiveMinutesPass, Poll, RevertFails, MonitorCrash, vars, table, ingest
<1>9. CASE Revert
  BY <1>9 DEF Revert, Goto, table
<1> QED
  BY <1>1, <1>2, <1>3, <1>4, <1>5, <1>6, <1>7, <1>8, <1>9 DEF Next, Watch

LEMMA StormStep == TypeOK /\ TriggerInv /\ StormIsHeard /\ [Next]_vars => StormIsHeard'
<1> SUFFICES ASSUME TypeOK, TriggerInv, StormIsHeard, [Next]_vars
             PROVE  StormIsHeard'
  OBVIOUS
<1> USE DEF StormIsHeard, TriggerInv, TypeOK
<1>1. ASSUME NEW n \in Callers, Ingest(n)
      PROVE  StormIsHeard'
  <2>1. CASE Claim(n) \/ ClaimUnavailable(n) \/ JoinStorm(n) \/ CountRecent(n) \/ Insert(n)
    BY <2>1 DEF Claim, ClaimUnavailable, JoinStorm, CountRecent, Insert, table
  <2>2. CASE TriggerStorm(n)
    BY <2>2 DEF TriggerStorm
  <2>3. CASE Duplicate(n)
    BY <2>3 DEF Duplicate, Leave, table
  <2>4. CASE Conflict(n)
    BY <2>4 DEF Conflict, Leave, table
  <2>5. CASE Notify(n)
    BY <2>5 DEF Notify, Leave
  <2> QED
    BY <1>1, <2>1, <2>2, <2>3, <2>4, <2>5 DEF Ingest
<1>2. ASSUME NEW n \in Callers, Crash(n)
      PROVE  StormIsHeard'
  BY <1>2 DEF Crash, Leave, table
<1>3. CASE \/ \E n \in Ingests, e \in Errors : Arrive(n, e)
           \/ \E i \in Rows : Resolve(i) \/ ResolveElsewhere(i) \/ Reopen(i) \/ Merge(i)
           \/ \E e \in Errors : DeleteKey(e) \/ DeleteKeyLost(e) \/ KeyExpires(e)
           \/ FiveMinutesPass \/ Watch \/ MonitorCrash \/ UNCHANGED vars
  BY <1>3 DEF Arrive, Resolve, ResolveElsewhere, Reopen, Merge, DeleteKey, DeleteKeyLost,
              KeyExpires, FiveMinutesPass, Watch, Poll, Revert, RevertFails, MonitorCrash,
              vars, table, ingest
<1> QED
  BY <1>1, <1>2, <1>3 DEF Next

\* canary_slow is entered with nothing seen: a poll of canary_normal that saw
\* something reverted.
EntersQuiet == mon = "watching" /\ elapsed >= Phases[2][1] => checked = {}

LEMMA QuietStep ==
  TypeOK /\ Watched /\ EntersQuiet /\ PassedMeansQuiet /\ [Next]_vars
    => EntersQuiet' /\ PassedMeansQuiet'
<1> SUFFICES ASSUME TypeOK, Watched, EntersQuiet, PassedMeansQuiet, [Next]_vars
             PROVE  EntersQuiet' /\ PassedMeansQuiet'
  OBVIOUS
<1> USE DEF EntersQuiet, PassedMeansQuiet
<1>1. CASE Poll
  <2> SUFFICES ASSUME \/ mon' = "watching" /\ elapsed' >= Phases[2][1]
                      \/ mon' = "passed"
               PROVE  checked' = {}
    OBVIOUS
  <2>1. PICK sentry \in 0 .. 1, uptime \in 0 .. 1, answers \in BOOLEAN :
          LET seen     == IF sentry = 0 /\ answers THEN Recurred ELSE {}
              recurred == IF seen # {} THEN 1 ELSE 0
              now      == elapsed + Phases[Phase][2]
          IN /\ ~Evidence(sentry + uptime + recurred)
             /\ elapsed' = now /\ (now < Duration => mon' = "watching")
             /\ checked' = IF Phase = 3 THEN checked ELSE seen
    BY <1>1 DEF Poll
  <2>2. mon = "watching" /\ Duration \in Nat /\ elapsed \in Nat /\ elapsed < Duration
    BY <1>1, AlertsAssumption DEF Poll, Watched, TypeOK, Duration
  <2>3. Phase \in 1 .. 3
    BY <2>2, PhaseFacts
  <2>4. CASE Phase = 3
    BY <2>1, <2>2, <2>4, PhaseFacts
  <2>5. CASE Phase = 2
    BY <2>1, <2>5 DEF Evidence
  <2>6. CASE Phase = 1
    <3>1. elapsed' < Phases[2][1]
      BY <2>1, <2>2, <2>6, PhaseFacts
    <3>2. elapsed' < Duration
      BY <2>1, <2>2, <2>6, <3>1, AlertsAssumption DEF Duration
    <3>3. mon' = "watching"
      BY <2>1, <3>2
    <3>4. elapsed' \in Nat /\ Phases[2][1] \in Nat
      BY <2>1, <2>2, <2>6, AlertsAssumption
    <3> QED
      BY <3>1, <3>3, <3>4
  <2> QED
    BY <2>3, <2>4, <2>5, <2>6
<1>2. ASSUME NEW n \in Callers, Ingest(n) \/ Crash(n)
      PROVE  EntersQuiet' /\ PassedMeansQuiet'
  BY <1>2, IngestFacts
<1>3. CASE \/ \E n \in Ingests, e \in Errors : Arrive(n, e)
           \/ \E i \in Rows : Resolve(i) \/ ResolveElsewhere(i) \/ Reopen(i)
           \/ \E e \in Errors : DeleteKey(e) \/ DeleteKeyLost(e) \/ KeyExpires(e)
           \/ FiveMinutesPass \/ Revert \/ RevertFails \/ MonitorCrash \/ UNCHANGED vars
  BY <1>3 DEF Arrive, Resolve, ResolveElsewhere, Reopen, DeleteKey, DeleteKeyLost,
              KeyExpires, FiveMinutesPass, Revert, RevertFails, MonitorCrash, vars, watch
<1>4. ASSUME NEW i \in Rows, Merge(i)
      PROVE  EntersQuiet' /\ PassedMeansQuiet'
  BY <1>4, AlertsAssumption DEF Merge, Watched
<1> QED
  BY <1>1, <1>2, <1>3, <1>4 DEF Next, Watch

-----------------------------------------------------------------------------
IInv == TypeOK /\ Watched /\ WatchInv /\ TriggerInv
        /\ KeyHasReason /\ StormIsHeard /\ EntersQuiet /\ PassedMeansQuiet

LEMMA Always == Spec => []IInv
<1>1. Init => IInv
  <2> SUFFICES ASSUME Init
               PROVE  IInv
    OBVIOUS
  <2>1. TypeOK /\ Watched
    BY TypeInit
  <2>2. /\ WatchInv /\ TriggerInv /\ KeyHasReason /\ StormIsHeard
        /\ EntersQuiet /\ PassedMeansQuiet
    BY DEF Init, WatchInv, TriggerInv, KeyHasReason, StormIsHeard, EntersQuiet,
           PassedMeansQuiet
  <2> QED
    BY <2>1, <2>2 DEF IInv
<1>2. IInv /\ [Next]_vars => IInv'
  BY TypeStep, WatchStep, TriggerStep, KeyStep, StormStep, QuietStep DEF IInv
<1> QED
  BY <1>1, <1>2, PTL DEF Spec

\* The variables of Alerts keep to their values for every number of rows and
\* ingestions: two open alerts never have one error, and a watch ends at most
\* one poll late.
THEOREM AlertsTypeCorrect == Spec => []TypeOK
<1>1. IInv => TypeOK
  BY DEF IInv
<1> QED
  BY <1>1, Always, PTL

\* The key in front of createAlertIfNew: what it refuses is an open alert's,
\* an ingestion's or about to be deleted, but for the keys left by a crash,
\* a lost deletion or a resolver that does not delete them.
THEOREM KeysHaveReasons == Spec => []KeyHasReason
<1>1. IInv => KeyHasReason
  BY DEF IInv
<1> QED
  BY <1>1, Always, PTL

\* However many ingestions race for a storm (getOrCreateStormId), it is told
\* of unless an alert that made one was refused or lost.
THEOREM StormsAreHeard == Spec => []StormIsHeard
<1>1. IInv => StormIsHeard
  BY DEF IInv
<1> QED
  BY <1>1, Always, PTL

\* Why the monitor's question to the table of alerts (post-merge-monitor.ts)
\* does not catch what its documentation says: it finds nothing while nobody
\* has resolved the fixed alert.
THEOREM MonitorIsDeaf == Spec => []DeafWhileOpen
<1>1. IInv => DeafWhileOpen
  BY DEF IInv, WatchInv, DeafWhileOpen
<1> QED
  BY <1>1, Always, PTL

\* For every length of the phases and the polls, if one of canary_normal is
\* sure to come: what passed was quiet when the last poll before canary_slow
\* looked (post-merge-monitor.ts).
THEOREM PassedWasQuiet == Spec => []PassedMeansQuiet
<1>1. IInv => PassedMeansQuiet
  BY DEF IInv
<1> QED
  BY <1>1, Always, PTL
=============================================================================
