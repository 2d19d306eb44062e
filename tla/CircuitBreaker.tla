--------------------------- MODULE CircuitBreaker ---------------------------
(***************************************************************************)
(* The circuit breaker in front of one gate of auto-merge                  *)
(* (web/lib/ai/circuit-breaker.ts, remediate.ts): a gate that fails time   *)
(* after time is waved through.  It keeps no state of its own: open,       *)
(* half-open and closed are read off the newest rows of gateTelemetry, and *)
(* every run that evaluates the gate adds a row which nobody waits for.    *)
(* A gate that is waved through is recorded as passed, which closes the    *)
(* circuit.                                                                *)
(***************************************************************************)
EXTENDS Integers, Sequences, FiniteSets

CONSTANTS
  Runs,         \* remediations of the project, one after the other in a slot
  Threshold,    \* FAILURE_THRESHOLD
  MaxFailures,  \* bound: failures recorded
  MaxLost       \* bound: rows of a slot that are never written

\* What the theorems assume of the constants.
BreakerAssumption ==
  /\ Threshold \in Nat \ {0} /\ MaxFailures \in Nat /\ MaxLost \in Nat

VARIABLES
  trail,        \* results of the last LOOKBACK_MS, newest first
  hot,          \* the newest is less than RECOVERY_MS old
  place,        \* where a run is
  result,       \* what a run has to record
  real,         \* history: runs whose result is the gate's own answer
  failures,     \* history: failures recorded
  bypasses,     \* history: how often a slot was waved through
  lost          \* history: how many of its rows were not written

Results == {"passed", "failed"}     \* gateTelemetry.result

breakerVars == <<trail, hot, place, result, real, failures, bypasses, lost>>

\* The query's ORDER BY and LIMIT.
Newest(seq) == SubSeq(seq, 1, IF Len(seq) < Threshold THEN Len(seq) ELSE Threshold)

BreakerTypeOK ==
  /\ trail \in Seq(Results) /\ Len(trail) <= Threshold
  /\ hot \in BOOLEAN
  /\ place \in [Runs -> {"idle", "held", "waved", "recording"}]
  /\ result \in [Runs -> Results] /\ real \subseteq Runs
  /\ failures \in 0 .. MaxFailures
  /\ bypasses \in [Runs -> Nat] /\ lost \in [Runs -> 0 .. MaxLost]

BreakerInit ==
  /\ trail = <<>> /\ hot = FALSE
  /\ place = [r \in Runs |-> "idle"]
  /\ result = [r \in Runs |-> "failed"] /\ real = {}
  /\ failures = 0
  /\ bypasses = [r \in Runs |-> 0] /\ lost = [r \in Runs |-> 0]

-----------------------------------------------------------------------------
\* The last Threshold results are all failures.  (Only that many are kept
\* here of the Threshold + 1 that are fetched.)
Tripped == Len(trail) = Threshold /\ \A i \in DOMAIN trail : trail[i] = "failed"

\* getCircuitState: half_open is let through to the gate, like closed.
State == CASE ~Tripped       -> "closed"
           [] Tripped /\ hot  -> "open"
           [] Tripped /\ ~hot -> "half_open"

\* shouldBypassGate, one of five queries before the gates are evaluated.
Ask(r) ==
  /\ place[r] = "idle"
  /\ place' = [place EXCEPT ![r] = IF State = "open" THEN "waved" ELSE "held"]
  /\ UNCHANGED <<trail, hot, result, real, failures, bypasses, lost>>

\* pushGate, of a gate that is bypassed: passed, whatever it says.
Wave(r) ==
  /\ place[r] = "waved"
  /\ place' = [place EXCEPT ![r] = "recording"]
  /\ result' = [result EXCEPT ![r] = "passed"] /\ real' = real \ {r}
  /\ bypasses' = [bypasses EXCEPT ![r] = @ + 1]
  /\ UNCHANGED <<trail, hot, failures, lost>>

Evaluate(r, answer) ==
  /\ place[r] = "held"
  /\ place' = [place EXCEPT ![r] = "recording"]
  /\ result' = [result EXCEPT ![r] = answer] /\ real' = real \cup {r}
  /\ UNCHANGED <<trail, hot, failures, bypasses, lost>>

\* The gate has no data: it is not pushed, and nothing is recorded.
Skip(r) ==
  /\ place[r] \in {"held", "waved"}
  /\ place' = [place EXCEPT ![r] = "idle"]
  /\ UNCHANGED <<trail, hot, result, real, failures, bypasses, lost>>

\* recordGateResult: checkedAt is the time of the insert.
Record(r) ==
  /\ place[r] = "recording"
  /\ result[r] = "passed" \/ failures < MaxFailures
  /\ place' = [place EXCEPT ![r] = "idle"]
  /\ trail' = Newest(<<result[r]>> \o trail) /\ hot' = TRUE
  /\ failures' = IF result[r] = "passed" THEN failures ELSE failures + 1
  /\ UNCHANGED <<result, real, bypasses, lost>>

\* .catch(() => {}), or the process ends first.
Lose(r) ==
  /\ place[r] = "recording" /\ lost[r] < MaxLost
  /\ place' = [place EXCEPT ![r] = "idle"]
  /\ lost' = [lost EXCEPT ![r] = @ + 1]
  /\ UNCHANGED <<trail, hot, result, real, failures, bypasses>>

Cool ==
  /\ hot
  /\ hot' = FALSE
  /\ UNCHANGED <<trail, place, result, real, failures, bypasses, lost>>

\* The oldest result leaves the window; the newest, at 15 minutes, long cooled.
Forget ==
  /\ Len(trail) > IF hot THEN 1 ELSE 0
  /\ trail' = SubSeq(trail, 1, Len(trail) - 1)
  /\ UNCHANGED <<hot, place, result, real, failures, bypasses, lost>>

BreakerNext ==
  \/ \E r \in Runs : Ask(r) \/ Wave(r) \/ Skip(r) \/ Record(r) \/ Lose(r)
  \/ \E r \in Runs, answer \in Results : Evaluate(r, answer)
  \/ Cool \/ Forget

BreakerSpec == BreakerInit /\ [][BreakerNext]_breakerVars

-----------------------------------------------------------------------------
\* docs/auto-merge-gates.md: a gate is bypassed for fifteen minutes, then "one
\* real attempt is allowed. If it passes, the circuit closes".  So an open
\* circuit closes by an answer of the gate itself, or because its failures
\* are too old to count.
ClosesByProbe ==
  [][State = "open" /\ State' = "closed" =>
       Forget \/ \E r \in real : Record(r)]_breakerVars

\* What the code does instead, however the runs overlap: a slot is waved
\* through at most once for every Threshold failures recorded, but for the
\* rows of its own that were lost; the bypass closes the circuit, and the gate
\* has to fail Threshold times anew.
BypassesAreRationed ==
  \A r \in Runs : Threshold * bypasses[r] <= failures + Threshold * lost[r]
=============================================================================
