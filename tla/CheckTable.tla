----------------------------- MODULE CheckTable -----------------------------
(***************************************************************************)
(* The table of checks the display shows (src/vivipi/core/state.py), fed   *)
(* by probe results (core/execution.py, runtime/app.py).                   *)
(*                                                                         *)
(* A direct check reports one observation of itself. A SERVICE check polls *)
(* an endpoint that reports a list of further checks, its children; every  *)
(* poll first removes the rows the previous poll of that service left.     *)
(* Thresholds turn consecutive observations into the status that is shown. *)
(* Names, latencies and timestamps are left out, so is the order of rows.  *)
(***************************************************************************)
EXTENDS Integers, FiniteSets

CONSTANTS
  Direct,              \* direct check definitions
  Services,            \* SERVICE check definitions
  ChildrenOf,          \* check ids a service may report
  FailuresToDegraded, FailuresToFailed, SuccessesToRecover, \* thresholds
  NoSource,            \* source_identifier None
  MaxStreak            \* bound: length of a run of equal observations

Children == UNION {ChildrenOf[s] : s \in Services}
Definitions == Direct \cup Services
Ids == Definitions \cup Children
Statuses == {"OK", "DEG", "FAIL", "UNKNOWN"}

(* TransitionThresholds.__post_init__, and the identity of checks. *)
ASSUME ThresholdsAssumption ==
  /\ FailuresToDegraded \in Nat \ {0}
  /\ FailuresToFailed \in Nat /\ FailuresToFailed >= FailuresToDegraded
  /\ SuccessesToRecover \in Nat \ {0}
  /\ MaxStreak \in Nat

ASSUME IdentityAssumption == Direct \cap Services = {} /\ NoSource \notin Ids

(* What the derivation of service ids should ensure; nothing in the code    *)
(* enforces it, so it is a hypothesis and not an assumption.                *)
DistinctIds ==
  /\ Children \cap Definitions = {}
  /\ \A s, r \in Services : s # r => ChildrenOf[s] \cap ChildrenOf[r] = {}

VARIABLES
  rows,      \* AppState.checks: a function from the ids present to CheckRuntime
  misses,    \* history: consecutive FAIL observations of each id
  hits,      \* history: consecutive OK observations of each id
  reported   \* history: children in the latest poll of each service

vars == <<rows, misses, hits, reported>>

Row == [status : Statuses, failures : Nat, successes : Nat,
        source : Ids \cup {NoSource}]

NewRow(source) ==
  [status |-> "UNKNOWN", failures |-> 0, successes |-> 0, source |-> source]

(* _failure_status; the mutants escalate one failure early or late. *)
EagerFailureStatus(failures) ==
  IF failures + 1 >= FailuresToFailed THEN "FAIL" ELSE "DEG"

LateFailureStatus(failures) ==
  IF failures > FailuresToFailed THEN "FAIL" ELSE "DEG"

FailureStatus(failures) ==
  IF failures >= FailuresToFailed THEN "FAIL"
  ELSE IF failures >= FailuresToDegraded THEN "DEG"
  ELSE "UNKNOWN"

(* apply_observation, by the status observed. The mutants keep the failure *)
(* count over an observation that reached the device, or do not normalise  *)
(* the status text of a payload.                                           *)
ReachableKeepsCount(row, seen) ==
  [row EXCEPT !.status = seen, !.successes = 0]

AfterReachable(row, seen) ==
  [row EXCEPT !.status = seen, !.failures = 0, !.successes = 0]

(* The mutant does not look at the threshold. *)
RecoverAtOnce(row) ==
  [row EXCEPT !.status = "OK", !.failures = 0, !.successes = @ + 1]

AfterSuccess(row) ==
  LET successes == row.successes + 1 IN
  [row EXCEPT
     !.status = IF successes >= SuccessesToRecover THEN "OK" ELSE @,
     !.failures = 0,
     !.successes = successes]

AfterFailure(row) ==
  LET failures == row.failures + 1 IN
  [row EXCEPT
     !.status = FailureStatus(failures),
     !.failures = failures,
     !.successes = 0]

Applied(row, seen) ==
  CASE seen \in {"UNKNOWN", "DEG"} -> AfterReachable(row, seen)
    [] seen = "OK" -> AfterSuccess(row)
    [] seen = "FAIL" -> AfterFailure(row)

(* The rows integrate_observations keeps when drop is the source that is   *)
(* replaced; the mutant replaces nothing.                                  *)
KeepAll(drop) == DOMAIN rows
Kept(drop) ==
  {i \in DOMAIN rows : drop = NoSource \/ rows[i].source # drop}

Integrate(seen, source, drop) ==
  rows' = [i \in Kept(drop) \cup DOMAIN seen |->
             IF i \in DOMAIN seen
             THEN [Applied(IF i \in Kept(drop) THEN rows[i] ELSE NewRow(source),
                           seen[i]) EXCEPT !.source = source]
             ELSE rows[i]]

(* The history of observations, kept beside the table. *)
Streak(count, seen, status) ==
  [i \in Ids |-> IF i \notin DOMAIN seen THEN count[i]
                 ELSE IF seen[i] = status THEN count[i] + 1 ELSE 0]

Observe(seen) ==
  /\ \A i \in DOMAIN seen : /\ seen[i] = "FAIL" => misses[i] < MaxStreak
                            /\ seen[i] = "OK" => hits[i] < MaxStreak
  /\ misses' = Streak(misses, seen, "FAIL")
  /\ hits' = Streak(hits, seen, "OK")

Init ==
  /\ rows = [d \in Definitions |-> NewRow(NoSource)]
  /\ misses = [i \in Ids |-> 0] /\ hits = [i \in Ids |-> 0]
  /\ reported = [s \in Services |-> {}]

-----------------------------------------------------------------------------
(* One completed check run. *)

(* An observation of the definition itself. *)
DirectObservation(d, status) == [i \in {d} |-> status]

DirectResult(d, status) ==
  LET seen == DirectObservation(d, status) IN
  /\ Integrate(seen, NoSource, NoSource)
  /\ Observe(seen)
  /\ UNCHANGED reported

(* A 2xx answer with a valid payload: one observation per reported child. *)
ServiceAnswers(s, seen) ==
  /\ Integrate(seen, s, s)
  /\ Observe(seen)
  /\ reported' = [reported EXCEPT ![s] = DOMAIN seen]

(* No answer is FAIL; an error answer or a malformed payload is DEG. *)
ServiceFails(s, status) ==
  LET seen == DirectObservation(s, status) IN
  /\ Integrate(seen, NoSource, s)
  /\ Observe(seen)
  /\ reported' = [reported EXCEPT ![s] = {}]

(* The executor itself raised: the definition's own row, as its own source. *)
ExecutorRaises(d) ==
  LET seen == DirectObservation(d, "FAIL") IN
  /\ Integrate(seen, d, IF d \in Services THEN d ELSE NoSource)
  /\ Observe(seen)
  /\ reported' = [s \in Services |-> IF s = d THEN {} ELSE reported[s]]

(* reset_runtime_state rebuilds the table from the definitions. *)
Reset ==
  /\ rows' = [d \in Definitions |-> NewRow(NoSource)]
  /\ misses' = [i \in Ids |-> 0] /\ hits' = [i \in Ids |-> 0]
  /\ reported' = [s \in Services |-> {}]

DirectNext ==
  \/ \E d \in Direct, status \in {"OK", "DEG", "FAIL"} : DirectResult(d, status)
  \/ \E d \in Direct : ExecutorRaises(d)

ServiceNext(s) ==
  \/ \E some \in SUBSET ChildrenOf[s] :
       \E seen \in [some -> Statuses] : ServiceAnswers(s, seen)
  \/ \E status \in {"DEG", "FAIL"} : ServiceFails(s, status)
  \/ ExecutorRaises(s)

Next == DirectNext \/ (\E s \in Services : ServiceNext(s)) \/ Reset

Spec == Init /\ [][Next]_vars

-----------------------------------------------------------------------------
TypeOK ==
  /\ DOMAIN rows \subseteq Ids
  /\ \A i \in DOMAIN rows : rows[i] \in Row
  /\ misses \in [Ids -> 0..MaxStreak] /\ hits \in [Ids -> 0..MaxStreak]
  /\ \A s \in Services : reported[s] \subseteq ChildrenOf[s]

(* tests/unit/core/test_state.py:283-287: "a full outage (FAIL) requires    *)
(* two consecutive UNREACHABLE misses". A row turns FAIL only after as many *)
(* consecutive FAIL observations as the threshold asks for, whatever was    *)
(* observed, replaced or reset before.                                      *)
OutageIsEarned ==
  [][\A i \in DOMAIN rows' :
       rows'[i].status = "FAIL" /\ ~(i \in DOMAIN rows /\ rows[i].status = "FAIL")
         => misses'[i] >= FailuresToFailed]_vars

(* The other direction, for direct checks: as many consecutive misses as    *)
(* the threshold asks for are never shown as anything but an outage.        *)
OutageIsShown ==
  /\ TypeOK
  /\ \A d \in Direct : misses[d] >= FailuresToFailed => rows[d].status = "FAIL"

(* docs/spec.md "FAIL -> OK after 1 success", configurable: a row turns OK  *)
(* only after that many consecutive OK observations.                        *)
RecoveryIsEarned ==
  [][\A i \in DOMAIN rows' :
       rows'[i].status = "OK" /\ ~(i \in DOMAIN rows /\ rows[i].status = "OK")
         => hits'[i] >= SuccessesToRecover]_vars

(* A child is in the table exactly as long as its service's latest poll     *)
(* reported it: no child outlives a poll that left it out or failed.        *)
ChildrenAreCurrent ==
  \A s \in Services : ChildrenOf[s] \cap DOMAIN rows = reported[s]
=============================================================================
