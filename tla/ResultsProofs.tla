----------------------------- MODULE ResultsProofs -----------------------------
(***************************************************************************)
(* Proofs about what a result leaves behind: its row in the check table,   *)
(* for every set of checks and services and every choice of the            *)
(* thresholds, and its lines in the log, for every set of checks, every    *)
(* capacity of the rings and every retry interval.                         *)
(***************************************************************************)
EXTENDS CheckTable, RuntimeLog, FiniteSetTheorems, NaturalsInduction, WellFoundedInduction, TLAPS

-----------------------------------------------------------------------------
(* The check table.                                                        *)

(* What every completed run does: some observations are integrated, for a  *)
(* source, and the rows of at most one service are replaced.               *)
Observations(seen) == DOMAIN seen \subseteq Ids /\ \A i \in DOMAIN seen : seen[i] \in Statuses

Completes(seen, source, drop) ==
  /\ Observations(seen)
  /\ source \in Ids \cup {NoSource}
  /\ Integrate(seen, source, drop)
  /\ Observe(seen)

LEMMA EveryStep ==
  Next => Reset \/ \E seen, source, drop : Completes(seen, source, drop)
<1>1. ASSUME NEW d \in Direct, NEW status \in {"OK", "DEG", "FAIL"}, DirectResult(d, status)
      PROVE  \E seen, source, drop : Completes(seen, source, drop)
  <2>1. Completes([i \in {d} |-> status], NoSource, NoSource)
    BY <1>1 DEF DirectResult, DirectObservation, Completes, Observations, Statuses, Ids, Definitions
  <2> QED BY <2>1
<1>2. ASSUME NEW d \in Definitions, ExecutorRaises(d)
      PROVE  \E seen, source, drop : Completes(seen, source, drop)
  <2>1. Completes([i \in {d} |-> "FAIL"], d, IF d \in Services THEN d ELSE NoSource)
    BY <1>2 DEF ExecutorRaises, DirectObservation, Completes, Observations, Statuses, Ids, Definitions
  <2> QED BY <2>1
<1>3. ASSUME NEW s \in Services, NEW some \in SUBSET ChildrenOf[s],
             NEW seen \in [some -> Statuses], ServiceAnswers(s, seen)
      PROVE  \E source, drop : Completes(seen, source, drop)
  <2>1. Completes(seen, s, s)
    BY <1>3 DEF ServiceAnswers, Completes, Observations, Ids, Definitions, Children
  <2> QED BY <2>1
<1>4. ASSUME NEW s \in Services, NEW status \in {"DEG", "FAIL"}, ServiceFails(s, status)
      PROVE  \E seen, source, drop : Completes(seen, source, drop)
  <2>1. Completes([i \in {s} |-> status], NoSource, s)
    BY <1>4 DEF ServiceFails, DirectObservation, Completes, Observations, Statuses, Ids, Definitions
  <2> QED BY <2>1
<1> QED BY <1>1, <1>2, <1>3, <1>4 DEF Next, DirectNext, ServiceNext, Definitions

-----------------------------------------------------------------------------
(* The counters of a row never exceed the true streaks of observations: a  *)
(* replaced row starts again at zero, a kept row counts every observation. *)
CountersAreHonest ==
  /\ DOMAIN rows \subseteq Ids
  /\ misses \in [Ids -> Nat] /\ hits \in [Ids -> Nat]
  /\ \A i \in DOMAIN rows :
       /\ rows[i] \in Row
       /\ rows[i].failures <= misses[i]
       /\ rows[i].successes <= hits[i]

(* One row, one observation.                                               *)
LEMMA ChangedRow ==
  ASSUME NEW row \in Row, NEW status \in Statuses, NEW f \in Nat, NEW n \in Nat
  PROVE  [row EXCEPT !.status = status, !.failures = f, !.successes = n] \in Row
  BY DEF Row

LEMMA AppliedType ==
  ASSUME NEW row \in Row, NEW seen \in Statuses
  PROVE  Applied(row, seen) \in Row
<1>1. CASE seen \in {"UNKNOWN", "DEG"}
  BY <1>1, ChangedRow DEF Applied, AfterReachable, Statuses
<1>2. CASE seen = "OK"
  <2> DEFINE status == IF row.successes + 1 >= SuccessesToRecover THEN "OK" ELSE row.status
             n == row.successes + 1
  <2>1. status \in Statuses /\ n \in Nat
    BY DEF Row, Statuses
  <2>2. Applied(row, seen) = [row EXCEPT !.status = status, !.failures = 0, !.successes = n]
    BY <1>2 DEF Applied, AfterSuccess
  <2> HIDE DEF status, n
  <2>3. [row EXCEPT !.status = status, !.failures = 0, !.successes = n] \in Row
    BY <2>1 DEF Row
  <2> QED BY <2>2, <2>3
<1>3. CASE seen = "FAIL"
  <2>1. FailureStatus(row.failures + 1) \in Statuses /\ row.failures + 1 \in Nat
    BY DEF FailureStatus, Statuses, Row
  <2> QED BY <1>3, <2>1, ChangedRow DEF Applied, AfterFailure
<1> QED BY <1>1, <1>2, <1>3 DEF Statuses

LEMMA AppliedCounts ==
  ASSUME NEW row \in Row, NEW seen \in Statuses
  PROVE  /\ Applied(row, seen).failures = IF seen = "FAIL" THEN row.failures + 1 ELSE 0
         /\ Applied(row, seen).successes = IF seen = "OK" THEN row.successes + 1 ELSE 0
  BY DEF Applied, AfterReachable, AfterSuccess, AfterFailure, Row, Statuses

LEMMA AppliedOutage ==
  ASSUME NEW row \in Row, NEW seen \in Statuses,
         row.status # "FAIL", Applied(row, seen).status = "FAIL"
  PROVE  seen = "FAIL" /\ row.failures + 1 >= FailuresToFailed
  BY DEF Applied, AfterReachable, AfterSuccess, AfterFailure, FailureStatus, Row, Statuses

LEMMA AppliedRecovery ==
  ASSUME NEW row \in Row, NEW seen \in Statuses,
         row.status # "OK", Applied(row, seen).status = "OK"
  PROVE  seen = "OK" /\ row.successes + 1 >= SuccessesToRecover
  BY DEF Applied, AfterReachable, AfterSuccess, AfterFailure, FailureStatus, Row, Statuses

(* The row an observation is applied to: a kept one, or a new one.         *)
Before(i, source, drop) == IF i \in Kept(drop) THEN rows[i] ELSE NewRow(source)

LEMMA BeforeType ==
  ASSUME CountersAreHonest, NEW i \in Ids, NEW source \in Ids \cup {NoSource}, NEW drop
  PROVE  /\ Before(i, source, drop) \in Row
         /\ Before(i, source, drop).failures <= misses[i]
         /\ Before(i, source, drop).successes <= hits[i]
<1>1. NewRow(source) \in Row /\ NewRow(source).failures = 0 /\ NewRow(source).successes = 0
  BY DEF NewRow, Row, Statuses
<1>2. CASE i \in Kept(drop)
  BY <1>2 DEF Before, Kept, CountersAreHonest
<1>3. CASE i \notin Kept(drop)
  BY <1>1, <1>3 DEF Before, CountersAreHonest
<1> QED BY <1>2, <1>3

(* The rows such a step leaves.                                            *)
Rewritten(seen, source, drop) ==
  \A i \in DOMAIN seen :
    /\ rows'[i].status = Applied(Before(i, source, drop), seen[i]).status
    /\ rows'[i].failures = Applied(Before(i, source, drop), seen[i]).failures
    /\ rows'[i].successes = Applied(Before(i, source, drop), seen[i]).successes
    /\ rows'[i].source = source
    /\ rows'[i] \in Row

LEMMA CompletedRow ==
  ASSUME CountersAreHonest, NEW seen, NEW source, NEW drop, Completes(seen, source, drop)
  PROVE  /\ DOMAIN rows' = Kept(drop) \cup DOMAIN seen
         /\ Rewritten(seen, source, drop)
         /\ \A i \in Kept(drop) \ DOMAIN seen : rows'[i] = rows[i]
<1>1. rows' = [i \in Kept(drop) \cup DOMAIN seen |->
                 IF i \in DOMAIN seen
                 THEN [Applied(Before(i, source, drop), seen[i]) EXCEPT !.source = source]
                 ELSE rows[i]]
  BY DEF Completes, Integrate, Before
<1>2. ASSUME NEW i \in DOMAIN seen
      PROVE  LET row == Applied(Before(i, source, drop), seen[i])
                 new == [row EXCEPT !.source = source] IN
             /\ new.status = row.status /\ new.failures = row.failures
             /\ new.successes = row.successes /\ new.source = source /\ new \in Row
  <2>1. Applied(Before(i, source, drop), seen[i]) \in Row
    BY BeforeType, AppliedType DEF Completes, Observations
  <2> QED BY <2>1 DEF Row, Completes
<1> QED BY <1>1, <1>2 DEF Rewritten

LEMMA StreakStep ==
  ASSUME CountersAreHonest, NEW seen, Observations(seen), Observe(seen)
  PROVE  /\ misses' \in [Ids -> Nat] /\ hits' \in [Ids -> Nat]
         /\ \A i \in Ids :
              IF i \in DOMAIN seen
              THEN /\ misses'[i] = IF seen[i] = "FAIL" THEN misses[i] + 1 ELSE 0
                   /\ hits'[i] = IF seen[i] = "OK" THEN hits[i] + 1 ELSE 0
              ELSE misses'[i] = misses[i] /\ hits'[i] = hits[i]
  BY DEF CountersAreHonest, Observe, Streak

LEMMA HonestStep == CountersAreHonest /\ [Next]_vars => CountersAreHonest'
<1> SUFFICES ASSUME CountersAreHonest, [Next]_vars PROVE CountersAreHonest'
  OBVIOUS
<1>1. CASE UNCHANGED vars
  BY <1>1 DEF vars, CountersAreHonest
<1>2. CASE Reset
  BY <1>2 DEF Reset, CountersAreHonest, NewRow, Row, Statuses, Ids
<1>3. ASSUME NEW seen, NEW source, NEW drop, Completes(seen, source, drop)
      PROVE  CountersAreHonest'
  <2>0. DOMAIN rows' = Kept(drop) \cup DOMAIN seen /\ Rewritten(seen, source, drop)
    BY <1>3, CompletedRow
  <2>1. DOMAIN rows' \subseteq Ids
    BY <1>3, <2>0 DEF CountersAreHonest, Completes, Observations, Kept
  <2>2. misses' \in [Ids -> Nat] /\ hits' \in [Ids -> Nat]
    BY <1>3, StreakStep DEF Completes
  <2>3. ASSUME NEW i \in DOMAIN rows'
        PROVE  rows'[i] \in Row /\ rows'[i].failures <= misses'[i]
               /\ rows'[i].successes <= hits'[i]
    <3>1. i \in Ids
      BY <2>1
    <3>2. CASE i \in DOMAIN seen
      <4> DEFINE row == Before(i, source, drop)
      <4>1. row \in Row /\ row.failures <= misses[i] /\ row.successes <= hits[i]
        BY <1>3, <3>1, BeforeType DEF Completes
      <4>2. seen[i] \in Statuses
        BY <1>3, <3>2 DEF Completes, Observations
      <4>3. rows'[i] \in Row
            /\ rows'[i].failures = Applied(row, seen[i]).failures
            /\ rows'[i].successes = Applied(row, seen[i]).successes
        BY <2>0, <3>2 DEF Rewritten
      <4>4. misses'[i] = (IF seen[i] = "FAIL" THEN misses[i] + 1 ELSE 0)
            /\ hits'[i] = (IF seen[i] = "OK" THEN hits[i] + 1 ELSE 0)
        BY <1>3, <3>1, <3>2, StreakStep DEF Completes
      <4>5. Applied(row, seen[i]).failures = (IF seen[i] = "FAIL" THEN row.failures + 1 ELSE 0)
            /\ Applied(row, seen[i]).successes = (IF seen[i] = "OK" THEN row.successes + 1 ELSE 0)
        BY <4>1, <4>2, AppliedCounts
      <4>6. misses[i] \in Nat /\ hits[i] \in Nat /\ row.failures \in Nat /\ row.successes \in Nat
        BY <3>1, <4>1 DEF CountersAreHonest, Row
      <4> HIDE DEF row
      <4> QED BY <4>1, <4>3, <4>4, <4>5, <4>6
    <3>3. CASE i \notin DOMAIN seen
      <4>1. i \in DOMAIN rows /\ rows'[i] = rows[i]
        BY <1>3, <3>3, CompletedRow DEF Kept
      <4>2. misses'[i] = misses[i] /\ hits'[i] = hits[i]
        BY <1>3, <3>1, <3>3, StreakStep DEF Completes
      <4> QED BY <4>1, <4>2 DEF CountersAreHonest
    <3> QED BY <3>2, <3>3
  <2> QED BY <2>1, <2>2, <2>3 DEF CountersAreHonest
<1> QED BY <1>1, <1>2, <1>3, EveryStep

LEMMA InitHonest == Init => CountersAreHonest
  BY DEF Init, CountersAreHonest, NewRow, Row, Statuses, Ids

(* What the threshold properties say of one step.                          *)
Outage ==
  \A i \in DOMAIN rows' :
    rows'[i].status = "FAIL" /\ ~(i \in DOMAIN rows /\ rows[i].status = "FAIL")
      => misses'[i] >= FailuresToFailed

Recovery ==
  \A i \in DOMAIN rows' :
    rows'[i].status = "OK" /\ ~(i \in DOMAIN rows /\ rows[i].status = "OK")
      => hits'[i] >= SuccessesToRecover

LEMMA EarnedStep == CountersAreHonest /\ [Next]_vars => Outage /\ Recovery
<1> SUFFICES ASSUME CountersAreHonest, [Next]_vars PROVE Outage /\ Recovery
  OBVIOUS
<1>1. CASE UNCHANGED vars
  BY <1>1 DEF vars, Outage, Recovery
<1>2. CASE Reset
  BY <1>2 DEF Reset, NewRow, Outage, Recovery
<1>3. ASSUME NEW seen, NEW source, NEW drop, Completes(seen, source, drop)
      PROVE  Outage /\ Recovery
  <2> SUFFICES ASSUME NEW i \in DOMAIN rows'
               PROVE  /\ rows'[i].status = "FAIL" /\ ~(i \in DOMAIN rows /\ rows[i].status = "FAIL")
                          => misses'[i] >= FailuresToFailed
                      /\ rows'[i].status = "OK" /\ ~(i \in DOMAIN rows /\ rows[i].status = "OK")
                          => hits'[i] >= SuccessesToRecover
    BY DEF Outage, Recovery
  <2>0. Rewritten(seen, source, drop)
    BY <1>3, CompletedRow
  <2>1. CASE i \notin DOMAIN seen
    BY <1>3, <2>1, CompletedRow DEF Kept
  <2>2. CASE i \in DOMAIN seen
    <3> DEFINE row == Before(i, source, drop)
    <3>1. i \in Ids /\ seen[i] \in Statuses
      BY <1>3, <2>2 DEF Completes, Observations
    <3>2. row \in Row /\ row.failures <= misses[i] /\ row.successes <= hits[i]
      BY <1>3, <3>1, BeforeType DEF Completes
    <3>3. (i \in DOMAIN rows /\ rows[i].status = row.status) \/ row.status = "UNKNOWN"
      BY DEF Before, Kept, NewRow
    <3>4. rows'[i].status = Applied(row, seen[i]).status
      BY <2>0, <2>2 DEF Rewritten
    <3>5. (seen[i] = "FAIL" => misses'[i] = misses[i] + 1)
          /\ (seen[i] = "OK" => hits'[i] = hits[i] + 1)
      BY <1>3, <2>2, <3>1, StreakStep DEF Completes
    <3>6. misses[i] \in Nat /\ hits[i] \in Nat /\ row.failures \in Nat /\ row.successes \in Nat
      BY <3>1, <3>2 DEF CountersAreHonest, Row
    <3> HIDE DEF row
    <3>7. ASSUME row.status # "FAIL", Applied(row, seen[i]).status = "FAIL"
          PROVE  misses'[i] >= FailuresToFailed
      BY <3>1, <3>2, <3>5, <3>6, <3>7, AppliedOutage, ThresholdsAssumption
      DEF ThresholdsAssumption
    <3>8. ASSUME row.status # "OK", Applied(row, seen[i]).status = "OK"
          PROVE  hits'[i] >= SuccessesToRecover
      BY <3>1, <3>2, <3>5, <3>6, <3>8, AppliedRecovery, ThresholdsAssumption
      DEF ThresholdsAssumption
    <3> QED BY <3>3, <3>4, <3>7, <3>8
  <2> QED BY <2>1, <2>2
<1> QED BY <1>1, <1>2, <1>3, EveryStep

(* An outage is never shown before its threshold of consecutive misses.    *)
THEOREM OutagesAreEarned == Spec => OutageIsEarned
<1>1. CountersAreHonest /\ [Next]_vars => [Outage]_vars
  BY EarnedStep
<1> QED BY <1>1, InitHonest, HonestStep, PTL DEF Spec, OutageIsEarned, Outage

(* A recovery is never shown before its threshold of successes.            *)
THEOREM RecoveriesAreEarned == Spec => RecoveryIsEarned
<1>1. CountersAreHonest /\ [Next]_vars => [Recovery]_vars
  BY EarnedStep
<1> QED BY <1>1, InitHonest, HonestStep, PTL DEF Spec, RecoveryIsEarned, Recovery

-----------------------------------------------------------------------------
(* The history stays within its bound, and every service has its poll.    *)
StreaksAreBounded ==
  /\ misses \in [Ids -> 0..MaxStreak] /\ hits \in [Ids -> 0..MaxStreak]
  /\ reported \in [Services -> SUBSET Children]
  /\ \A s \in Services : reported[s] \subseteq ChildrenOf[s]

LEMMA InitBounded == Init => StreaksAreBounded
  BY ThresholdsAssumption DEF Init, StreaksAreBounded, ThresholdsAssumption

LEMMA ObserveBounded ==
  ASSUME StreaksAreBounded, NEW seen, DOMAIN seen \subseteq Ids, Observe(seen)
  PROVE  misses' \in [Ids -> 0..MaxStreak] /\ hits' \in [Ids -> 0..MaxStreak]
<1>1. \A i \in Ids : misses[i] \in 0..MaxStreak /\ hits[i] \in 0..MaxStreak
  BY DEF StreaksAreBounded
<1>2. \A i \in DOMAIN seen : (seen[i] = "FAIL" => misses[i] < MaxStreak)
                             /\ (seen[i] = "OK" => hits[i] < MaxStreak)
  BY DEF Observe
<1>3. /\ misses' = [i \in Ids |-> IF i \notin DOMAIN seen THEN misses[i]
                                  ELSE IF seen[i] = "FAIL" THEN misses[i] + 1 ELSE 0]
      /\ hits' = [i \in Ids |-> IF i \notin DOMAIN seen THEN hits[i]
                                ELSE IF seen[i] = "OK" THEN hits[i] + 1 ELSE 0]
  BY DEF Observe, Streak
<1> QED BY <1>1, <1>2, <1>3, ThresholdsAssumption DEF ThresholdsAssumption

LEMMA BoundedStep == StreaksAreBounded /\ [Next]_vars => StreaksAreBounded'
<1> SUFFICES ASSUME StreaksAreBounded, [Next]_vars PROVE StreaksAreBounded'
  OBVIOUS
<1>0. \A s \in Services : ChildrenOf[s] \subseteq Children
  BY DEF Children
<1>1. CASE UNCHANGED vars
  BY <1>1 DEF vars, StreaksAreBounded
<1>2. CASE Reset
  BY <1>2, ThresholdsAssumption DEF Reset, StreaksAreBounded, ThresholdsAssumption
<1>3. ASSUME NEW d \in Direct, NEW status \in {"OK", "DEG", "FAIL"}, DirectResult(d, status)
      PROVE  StreaksAreBounded'
  <2>1. Observe([i \in {d} |-> status]) /\ UNCHANGED reported
    BY <1>3 DEF DirectResult, DirectObservation
  <2> QED BY <2>1, ObserveBounded DEF StreaksAreBounded, Ids, Definitions
<1>4. ASSUME NEW d \in Definitions, ExecutorRaises(d) PROVE StreaksAreBounded'
  <2>1. /\ Observe([i \in {d} |-> "FAIL"])
        /\ reported' = [s \in Services |-> IF s = d THEN {} ELSE reported[s]]
    BY <1>4 DEF ExecutorRaises, DirectObservation
  <2> QED BY <2>1, ObserveBounded DEF StreaksAreBounded, Ids
<1>5. ASSUME NEW s \in Services, NEW some \in SUBSET ChildrenOf[s],
             NEW seen \in [some -> Statuses], ServiceAnswers(s, seen)
      PROVE  StreaksAreBounded'
  <2>1. Observe(seen) /\ reported' = [reported EXCEPT ![s] = some]
    BY <1>5 DEF ServiceAnswers
  <2>2. DOMAIN seen \subseteq Ids
    BY DEF Ids, Children
  <2> QED BY <1>0, <2>1, <2>2, ObserveBounded DEF StreaksAreBounded
<1>6. ASSUME NEW s \in Services, NEW status \in {"DEG", "FAIL"}, ServiceFails(s, status)
      PROVE  StreaksAreBounded'
  <2>1. Observe([i \in {s} |-> status]) /\ reported' = [reported EXCEPT ![s] = {}]
    BY <1>6 DEF ServiceFails, DirectObservation
  <2> QED BY <2>1, ObserveBounded DEF StreaksAreBounded, Ids, Definitions
<1> QED BY <1>1, <1>2, <1>3, <1>4, <1>5, <1>6 DEF Next, DirectNext, ServiceNext, Definitions

LEMMA TableTyped == CountersAreHonest /\ StreaksAreBounded => TypeOK
  BY DEF CountersAreHonest, StreaksAreBounded, TypeOK

-----------------------------------------------------------------------------
(* If no two definitions and services share an id, every row of a child is *)
(* owned by its service and no poll ever drops the row of a direct check,  *)
(* so that the counter of such a row is exactly the streak of its misses.  *)
ChildrenHaveTheirSource ==
  \A s \in Services : \A i \in ChildrenOf[s] :
    /\ i \in DOMAIN rows <=> i \in reported[s]
    /\ i \in DOMAIN rows => rows[i].source = s

DirectRowsStay ==
  \A d \in Direct :
    /\ d \in DOMAIN rows /\ rows[d].source \in {NoSource, d}
    /\ rows[d].failures = misses[d]
    /\ misses[d] >= FailuresToFailed => rows[d].status = "FAIL"

RowsHaveTheirSource == ChildrenHaveTheirSource /\ DirectRowsStay

(* What a poll of the service drop, or a run that replaces nothing, keeps. *)
LEMMA KeptRows ==
  ASSUME DistinctIds, CountersAreHonest, RowsHaveTheirSource, NEW drop \in Services \cup {NoSource}
  PROVE  /\ Direct \subseteq Kept(drop)
         /\ \A s \in Services : s # drop => ChildrenOf[s] \cap Kept(drop) = ChildrenOf[s] \cap DOMAIN rows
         /\ drop \in Services => ChildrenOf[drop] \cap Kept(drop) = {}
<1>1. Direct \subseteq Kept(drop)
  BY IdentityAssumption DEF IdentityAssumption, RowsHaveTheirSource, DirectRowsStay, Kept, Ids, Definitions
<1>2. ASSUME NEW s \in Services, s # drop
      PROVE  ChildrenOf[s] \cap Kept(drop) = ChildrenOf[s] \cap DOMAIN rows
  BY <1>2 DEF RowsHaveTheirSource, ChildrenHaveTheirSource, Kept
<1>3. ASSUME drop \in Services PROVE ChildrenOf[drop] \cap Kept(drop) = {}
  BY <1>3, IdentityAssumption DEF IdentityAssumption, RowsHaveTheirSource, ChildrenHaveTheirSource, Kept, Ids, Definitions
<1> QED BY <1>1, <1>2, <1>3

(* A miss that reaches the threshold is shown, whatever the row was.       *)
LEMMA DirectApplied ==
  ASSUME NEW row \in Row, NEW seen \in Statuses
  PROVE  row.failures + 1 >= FailuresToFailed /\ seen = "FAIL" => Applied(row, seen).status = "FAIL"
  BY DEF Applied, AfterFailure, FailureStatus, Row, Statuses

LEMMA DirectStep ==
  ASSUME DistinctIds, CountersAreHonest, RowsHaveTheirSource,
         NEW seen, NEW source, NEW drop \in Services \cup {NoSource},
         Completes(seen, source, drop),
         \A d \in Direct : d \in DOMAIN seen => source \in {NoSource, d}
  PROVE  DirectRowsStay'
<1> SUFFICES ASSUME NEW d \in Direct
             PROVE  /\ d \in DOMAIN rows' /\ rows'[d].source \in {NoSource, d}
                    /\ rows'[d].failures = misses'[d]
                    /\ misses'[d] >= FailuresToFailed => rows'[d].status = "FAIL"
  BY DEF DirectRowsStay
<1>1. d \in Ids /\ d \in Kept(drop) /\ d \in DOMAIN rows
  BY KeptRows DEF Ids, Definitions, Kept
<1>2. /\ rows[d].source \in {NoSource, d} /\ rows[d].failures = misses[d]
      /\ misses[d] >= FailuresToFailed => rows[d].status = "FAIL"
      /\ rows[d] \in Row /\ misses[d] \in Nat
  BY <1>1 DEF RowsHaveTheirSource, DirectRowsStay, CountersAreHonest
<1>3. DOMAIN rows' = Kept(drop) \cup DOMAIN seen /\ Rewritten(seen, source, drop)
      /\ \A i \in Kept(drop) \ DOMAIN seen : rows'[i] = rows[i]
  BY CompletedRow
<1>4. CASE d \in DOMAIN seen
  <2>1. Before(d, source, drop) = rows[d] /\ seen[d] \in Statuses
    BY <1>1, <1>4 DEF Before, Completes, Observations
  <2>2. /\ rows'[d].status = Applied(rows[d], seen[d]).status
        /\ rows'[d].failures = Applied(rows[d], seen[d]).failures
        /\ rows'[d].source = source
    BY <1>3, <1>4, <2>1 DEF Rewritten
  <2>3. misses'[d] = IF seen[d] = "FAIL" THEN misses[d] + 1 ELSE 0
    BY <1>1, <1>4, StreakStep DEF Completes
  <2>4. Applied(rows[d], seen[d]).failures = IF seen[d] = "FAIL" THEN rows[d].failures + 1 ELSE 0
    BY <1>2, <2>1, AppliedCounts
  <2>5. rows[d].failures + 1 >= FailuresToFailed /\ seen[d] = "FAIL" => Applied(rows[d], seen[d]).status = "FAIL"
    BY <1>2, <2>1, DirectApplied
  <2>6. FailuresToFailed \in Nat \ {0}
    BY ThresholdsAssumption DEF ThresholdsAssumption
  <2> QED BY <1>1, <1>2, <1>3, <1>4, <2>2, <2>3, <2>4, <2>5, <2>6
<1>5. CASE d \notin DOMAIN seen
  <2>1. misses'[d] = misses[d]
    BY <1>1, <1>5, StreakStep DEF Completes
  <2> QED BY <1>1, <1>2, <1>3, <1>5, <2>1
<1> QED BY <1>4, <1>5

(* A run of a definition that replaces no rows leaves all children alone.  *)
LEMMA ChildrenStay ==
  ASSUME DistinctIds, CountersAreHonest, RowsHaveTheirSource,
         NEW seen, NEW source, Completes(seen, source, NoSource),
         DOMAIN seen \cap Children = {}, UNCHANGED reported
  PROVE  ChildrenHaveTheirSource'
<1>1. /\ DOMAIN rows' = Kept(NoSource) \cup DOMAIN seen
      /\ \A i \in Kept(NoSource) \ DOMAIN seen : rows'[i] = rows[i]
  BY CompletedRow
<1>2. Kept(NoSource) = DOMAIN rows
  BY DEF Kept
<1>3. \A s \in Services : \A i \in ChildrenOf[s] : i \notin DOMAIN seen
  BY DEF Children
<1> QED BY <1>1, <1>2, <1>3 DEF RowsHaveTheirSource, ChildrenHaveTheirSource

(* A poll of s replaces the children of s and leaves all others alone.     *)
LEMMA ChildrenReplaced ==
  ASSUME DistinctIds, CountersAreHonest, RowsHaveTheirSource,
         NEW s \in Services, NEW seen, NEW source, Completes(seen, source, s),
         \A i \in DOMAIN seen : i \in Children => i \in ChildrenOf[s] /\ source = s,
         \A r \in Services : reported'[r] = IF r = s THEN DOMAIN seen \cap ChildrenOf[s] ELSE reported[r]
  PROVE  ChildrenHaveTheirSource'
<1>1. /\ DOMAIN rows' = Kept(s) \cup DOMAIN seen /\ Rewritten(seen, source, s)
      /\ \A i \in Kept(s) \ DOMAIN seen : rows'[i] = rows[i]
  BY CompletedRow
<1>2. /\ \A r \in Services : r # s => ChildrenOf[r] \cap Kept(s) = ChildrenOf[r] \cap DOMAIN rows
      /\ ChildrenOf[s] \cap Kept(s) = {}
  BY KeptRows
<1> SUFFICES ASSUME NEW r \in Services, NEW i \in ChildrenOf[r]
             PROVE  /\ i \in DOMAIN rows' <=> i \in reported'[r]
                    /\ i \in DOMAIN rows' => rows'[i].source = r
  BY DEF ChildrenHaveTheirSource
<1>3. i \in Children
  BY DEF Children
<1>4. CASE r = s
  <2>1. i \in DOMAIN rows' <=> i \in DOMAIN seen
    BY <1>1, <1>2, <1>4
  <2>2. i \in DOMAIN seen => rows'[i].source = s
    BY <1>1, <1>3 DEF Rewritten
  <2> QED BY <1>4, <2>1, <2>2
<1>5. CASE r # s
  <2>1. i \notin DOMAIN seen
    BY <1>3, <1>5 DEF DistinctIds
  <2>2. /\ i \in DOMAIN rows' <=> i \in DOMAIN rows
        /\ i \in DOMAIN rows => rows'[i] = rows[i]
    BY <1>1, <1>2, <1>5, <2>1
  <2> QED BY <1>5, <2>2 DEF RowsHaveTheirSource, ChildrenHaveTheirSource
<1> QED BY <1>4, <1>5

LEMMA SourceStep ==
  ASSUME DistinctIds
  PROVE  CountersAreHonest /\ StreaksAreBounded /\ RowsHaveTheirSource /\ [Next]_vars => RowsHaveTheirSource'
<1> SUFFICES ASSUME CountersAreHonest, StreaksAreBounded, RowsHaveTheirSource, [Next]_vars
             PROVE  RowsHaveTheirSource'
  OBVIOUS
<1>1. CASE UNCHANGED vars
  BY <1>1 DEF vars, RowsHaveTheirSource, ChildrenHaveTheirSource, DirectRowsStay
<1>2. CASE Reset
  <2>1. \A s \in Services : \A i \in ChildrenOf[s] : i \notin Definitions
    BY DEF DistinctIds, Children
  <2> QED BY <1>2, <2>1, ThresholdsAssumption
          DEF Reset, RowsHaveTheirSource, ChildrenHaveTheirSource, DirectRowsStay, NewRow, Ids,
              Definitions, ThresholdsAssumption
<1>3. ASSUME NEW d \in Direct, NEW status \in {"OK", "DEG", "FAIL"}, DirectResult(d, status)
      PROVE  RowsHaveTheirSource'
  <2> DEFINE seen == [i \in {d} |-> status]
  <2>1. Completes(seen, NoSource, NoSource) /\ UNCHANGED reported
    BY <1>3 DEF DirectResult, DirectObservation, Completes, Observations, Statuses, Ids, Definitions
  <2>2. DOMAIN seen \cap Children = {}
    BY DEF DistinctIds, Definitions
  <2> HIDE DEF seen
  <2> QED BY <2>1, <2>2, ChildrenStay, DirectStep DEF RowsHaveTheirSource
<1>4. ASSUME NEW d \in Direct, ExecutorRaises(d) PROVE RowsHaveTheirSource'
  <2> DEFINE seen == [i \in {d} |-> "FAIL"]
  <2>1. d \notin Services
    BY IdentityAssumption DEF IdentityAssumption
  <2>2. Completes(seen, d, NoSource) /\ reported' = [s \in Services |-> reported[s]]
    BY <1>4, <2>1 DEF ExecutorRaises, DirectObservation, Completes, Observations, Statuses, Ids, Definitions
  <2>3. UNCHANGED reported
    BY <2>2 DEF StreaksAreBounded
  <2>4. DOMAIN seen = {d} /\ DOMAIN seen \cap Children = {}
    BY DEF DistinctIds, Definitions
  <2> HIDE DEF seen
  <2> QED BY <2>2, <2>3, <2>4, ChildrenStay, DirectStep DEF RowsHaveTheirSource
<1>5. ASSUME NEW s \in Services, ExecutorRaises(s) PROVE RowsHaveTheirSource'
  <2> DEFINE seen == [i \in {s} |-> "FAIL"]
  <2>1. Completes(seen, s, s) /\ reported' = [r \in Services |-> IF r = s THEN {} ELSE reported[r]]
    BY <1>5 DEF ExecutorRaises, DirectObservation, Completes, Observations, Statuses, Ids, Definitions
  <2>2. DOMAIN seen = {s} /\ s \notin Children /\ s \notin Direct /\ s \notin ChildrenOf[s]
    BY IdentityAssumption DEF IdentityAssumption, DistinctIds, Definitions, Children
  <2> HIDE DEF seen
  <2>3. \A r \in Services : reported'[r] = IF r = s THEN {} ELSE reported[r]
    BY <2>1
  <2>4. \A r \in Services : reported'[r] = IF r = s THEN DOMAIN seen \cap ChildrenOf[s] ELSE reported[r]
    BY <2>2, <2>3
  <2>5. Completes(seen, s, s) /\ \A i \in DOMAIN seen : i \in Children => i \in ChildrenOf[s]
    BY <2>1, <2>2
  <2>6. ChildrenHaveTheirSource'
    BY <2>4, <2>5, ChildrenReplaced, Zenon
  <2> QED BY <2>1, <2>2, <2>6, DirectStep DEF RowsHaveTheirSource
<1>6. ASSUME NEW s \in Services, NEW some \in SUBSET ChildrenOf[s],
             NEW seen \in [some -> Statuses], ServiceAnswers(s, seen)
      PROVE  RowsHaveTheirSource'
  <2>1. Completes(seen, s, s) /\ reported' = [reported EXCEPT ![s] = some]
    BY <1>6 DEF ServiceAnswers, Completes, Observations, Ids, Definitions, Children
  <2>2. DOMAIN seen = some /\ some \subseteq ChildrenOf[s] /\ ChildrenOf[s] \subseteq Children
    BY DEF Children
  <2>3. \A r \in Services : reported'[r] = IF r = s THEN some \cap ChildrenOf[s] ELSE reported[r]
    BY <2>1, <2>2 DEF StreaksAreBounded
  <2>4. ChildrenHaveTheirSource'
    BY <2>1, <2>2, <2>3, ChildrenReplaced
  <2>5. \A d \in Direct : d \notin some
    BY <2>2 DEF DistinctIds, Definitions
  <2> QED BY <2>1, <2>2, <2>4, <2>5, DirectStep DEF RowsHaveTheirSource
<1>7. ASSUME NEW s \in Services, NEW status \in {"DEG", "FAIL"}, ServiceFails(s, status)
      PROVE  RowsHaveTheirSource'
  <2> DEFINE seen == [i \in {s} |-> status]
  <2>1. Completes(seen, NoSource, s) /\ reported' = [reported EXCEPT ![s] = {}]
    BY <1>7 DEF ServiceFails, DirectObservation, Completes, Observations, Statuses, Ids, Definitions
  <2>2. DOMAIN seen = {s} /\ s \notin Children /\ s \notin Direct /\ s \notin ChildrenOf[s]
    BY IdentityAssumption DEF IdentityAssumption, DistinctIds, Definitions, Children
  <2>3. \A r \in Services : reported'[r] = IF r = s THEN {} ELSE reported[r]
    BY <2>1 DEF StreaksAreBounded
  <2> HIDE DEF seen
  <2>4. ChildrenHaveTheirSource'
    BY <2>1, <2>2, <2>3, ChildrenReplaced
  <2> QED BY <2>1, <2>2, <2>4, DirectStep DEF RowsHaveTheirSource
<1> QED BY <1>1, <1>2, <1>3, <1>4, <1>5, <1>6, <1>7 DEF Next, DirectNext, ServiceNext

LEMMA InitSource ==
  ASSUME DistinctIds PROVE Init => RowsHaveTheirSource
<1>1. \A s \in Services : \A i \in ChildrenOf[s] : i \notin Definitions
  BY DEF DistinctIds, Children
<1> QED BY <1>1, ThresholdsAssumption
        DEF Init, RowsHaveTheirSource, ChildrenHaveTheirSource, DirectRowsStay, NewRow, Ids,
            Definitions, ThresholdsAssumption

(* A child is shown exactly while the latest poll of its service reports   *)
(* it, if no two definitions and services share an id.                     *)
THEOREM ChildrenStayCurrent ==
  ASSUME DistinctIds PROVE Spec => []ChildrenAreCurrent
<1>1. StreaksAreBounded /\ RowsHaveTheirSource => ChildrenAreCurrent
  BY DEF StreaksAreBounded, RowsHaveTheirSource, ChildrenHaveTheirSource, ChildrenAreCurrent
<1> QED BY <1>1, InitSource, SourceStep, InitHonest, HonestStep, InitBounded, BoundedStep, PTL
        DEF Spec

(* A direct check that missed as often as its threshold asks for is shown  *)
(* as an outage, under the same hypothesis.                                *)
THEOREM OutagesAreShown ==
  ASSUME DistinctIds PROVE Spec => []OutageIsShown
<1>1. CountersAreHonest /\ StreaksAreBounded /\ RowsHaveTheirSource => OutageIsShown
  BY TableTyped DEF RowsHaveTheirSource, DirectRowsStay, OutageIsShown
<1> QED BY <1>1, InitSource, SourceStep, InitHonest, HonestStep, InitBounded, BoundedStep, PTL
        DEF Spec

-----------------------------------------------------------------------------
(* The log: its rings.                                                     *)

LEMMA Remainder ==
  ASSUME NEW c \in Nat \ {0}, NEW a \in Int, NEW q \in Int, NEW r \in 0 .. c - 1, a = c * q + r
  PROVE  a % c = r
<1>1. a = c * (a \div c) + (a % c) /\ a \div c \in Int /\ a % c \in 0 .. c - 1
  OBVIOUS
<1> DEFINE d == q - (a \div c)
<1>2. d \in Int /\ c * d = (a % c) - r
  BY <1>1
<1>3. d = 0
  <2>1. CASE d >= 1
    <3>1. c * d >= c
      BY <2>1, <1>2
    <3> QED
      BY <3>1, <1>1, <1>2
  <2>2. CASE d <= -1
    <3>1. c * d <= -c
      BY <2>2, <1>2
    <3> QED
      BY <3>1, <1>1, <1>2
  <2> QED
    BY <2>1, <2>2, <1>2
<1> QED
  BY <1>2, <1>3, <1>1

(* A place is moved on before or after it is wrapped.                      *)
LEMMA WrapLate ==
  ASSUME NEW c \in Nat \ {0}, NEW a \in Int, NEW b \in Int
  PROVE  ((a % c) + b) % c = (a + b) % c
<1> DEFINE q == a \div c   s == ((a % c) + b) \div c   r == ((a % c) + b) % c
<1>1. a = c * q + (a % c) /\ q \in Int /\ a % c \in Int
  OBVIOUS
<1>2. (a % c) + b = c * s + r /\ s \in Int /\ r \in 0 .. c - 1
  BY <1>1
<1>3. a + b = c * (q + s) + r
  <2>1. c * (q + s) = c * q + c * s
    BY <1>1, <1>2
  <2> QED
    BY <2>1, <1>1, <1>2
<1> HIDE DEF q, s, r
<1>4. (a + b) % c = r
  <2>1. a + b \in Int /\ q + s \in Int
    BY <1>1, <1>2
  <2> QED
    BY <2>1, <1>2, <1>3, Remainder
<1> QED
  BY <1>4 DEF r

LEMMA NearPlaces ==
  ASSUME NEW c \in Nat \ {0}, NEW n \in 0 .. c - 1
  PROVE  /\ n % c = n
         /\ \A d \in 1 .. c - 1 : (n - d) % c # n
<1>1. n % c = n
  BY n = c * 0 + n, Remainder
<1>2. ASSUME NEW d \in 1 .. c - 1 PROVE (n - d) % c # n
  <2>1. CASE d <= n
    <3>1. n - d = c * 0 + (n - d) /\ n - d \in 0 .. c - 1
      BY <2>1
    <3>2. (n - d) % c = n - d
      BY <3>1, Remainder
    <3> QED
      BY <3>2
  <2>2. CASE d > n
    <3>1. n - d = c * (-1) + (n - d + c) /\ n - d + c \in 0 .. c - 1
      BY <2>2
    <3>2. (n - d) % c = n - d + c
      BY <3>1, Remainder
    <3> QED
      BY <3>2
  <2> QED
    BY <2>1, <2>2
<1> QED
  BY <1>1, <1>2

(* The same, with the remainder as an operator of its own.                 *)
Wrap(a, c) == a % c

LEMMA WrapFacts ==
  ASSUME NEW c \in Nat \ {0}
  PROVE  /\ \A a \in Int : Wrap(a, c) \in 0 .. c - 1
         /\ \A a, b \in Int : Wrap(Wrap(a, c) + b, c) = Wrap(a + b, c)
         /\ \A n \in 0 .. c - 1 : Wrap(n, c) = n /\ \A d \in 1 .. c - 1 : Wrap(n - d, c) # n
<1>1. ASSUME NEW a \in Int PROVE Wrap(a, c) \in 0 .. c - 1
  BY DEF Wrap
<1>2. ASSUME NEW a \in Int, NEW b \in Int PROVE Wrap(Wrap(a, c) + b, c) = Wrap(a + b, c)
  BY WrapLate DEF Wrap
<1>3. ASSUME NEW n \in 0 .. c - 1
      PROVE  Wrap(n, c) = n /\ \A d \in 1 .. c - 1 : Wrap(n - d, c) # n
  BY NearPlaces DEF Wrap
<1> QED
  BY <1>1, <1>2, <1>3

(* The places of a ring of m items and of l after the next one.            *)
PlacesMatch(c, n, m, l, k) ==
  /\ \A i \in 1 .. l : Wrap(Wrap(Wrap(n + 1, c) - l, c) + i - 1, c) = Wrap(n - (l - i), c)
  /\ \A i \in 1 .. l - 1 : /\ Wrap(Wrap(n - m, c) + (i + k) - 1, c) = Wrap(n - (l - i), c)
                          /\ Wrap(n - (l - i), c) \in (0 .. c - 1) \ {n}
                          /\ i + k \in 1 .. m

LEMMA Places ==
  ASSUME NEW c \in Nat \ {0}, NEW n \in 0 .. c - 1, NEW m \in 0 .. c, NEW l \in 1 .. c,
         NEW k \in {0, 1}, l = m + 1 - k
  PROVE  PlacesMatch(c, n, m, l, k)
<1>1. /\ \A a \in Int : Wrap(a, c) \in 0 .. c - 1
      /\ \A a, b \in Int : Wrap(Wrap(a, c) + b, c) = Wrap(a + b, c)
  BY WrapFacts
<1>2. ASSUME NEW i \in 1 .. l
      PROVE  Wrap(Wrap(Wrap(n + 1, c) - l, c) + i - 1, c) = Wrap(n - (l - i), c)
  <2>1. PICK z \in Int : z = Wrap(n + 1, c)
    BY <1>1
  <2>2. PICK y \in Int : y = Wrap(z - l, c)
    BY <1>1
  <2>3. Wrap(y + (i - 1), c) = Wrap((z - l) + (i - 1), c)
    BY <1>1, <2>2
  <2>4. Wrap(z + (i - 1 - l), c) = Wrap((n + 1) + (i - 1 - l), c)
    BY <1>1, <2>1
  <2>5. /\ (z - l) + (i - 1) = z + (i - 1 - l) /\ (n + 1) + (i - 1 - l) = n - (l - i)
        /\ y + (i - 1) = y + i - 1
    OBVIOUS
  <2> QED
    BY <2>1, <2>2, <2>3, <2>4, <2>5
<1>3. ASSUME NEW i \in 1 .. l - 1
      PROVE  /\ Wrap(Wrap(n - m, c) + (i + k) - 1, c) = Wrap(n - (l - i), c)
             /\ Wrap(n - (l - i), c) \in (0 .. c - 1) \ {n}
             /\ i + k \in 1 .. m
  <2>1. PICK y \in Int : y = Wrap(n - m, c)
    BY <1>1
  <2>2. Wrap(y + (i + k - 1), c) = Wrap((n - m) + (i + k - 1), c)
    BY <1>1, <2>1
  <2>3. (n - m) + (i + k - 1) = n - (l - i) /\ y + (i + k - 1) = y + (i + k) - 1
    OBVIOUS
  <2>4. l - i \in 1 .. c - 1 /\ n - (l - i) \in Int
    OBVIOUS
  <2>5. Wrap(n - (l - i), c) \in 0 .. c - 1 /\ Wrap(n - (l - i), c) # n
    BY <1>1, <2>4, WrapFacts
  <2> QED
    BY <2>1, <2>2, <2>3, <2>5
<1> QED
  BY <1>2, <1>3 DEF PlacesMatch

(* Two rings' items, the second after x was appended to the first.         *)
Grown(old, new, x) ==
  \E m \in Nat, l \in Nat \ {0}, k \in {0, 1} :
    /\ DOMAIN old = 1 .. m /\ DOMAIN new = 1 .. l /\ l = m + 1 - k
    /\ new[l] = x
    /\ \A i \in 1 .. l - 1 : new[i] = old[i + k]

(* A ring to which an item is appended holds all it held and the item, or, *)
(* when it was full, the same without the oldest, for every capacity and   *)
(* wherever its next place is (RingBuffer.append and items).               *)
THEOREM RingGrows ==
  ASSUME NEW c \in Nat \ {0}, NEW S, NEW r, NEW x \in S, IsRing(r, c, S)
  PROVE  /\ IsRing(RingAppend(r, x), c, S)
         /\ Grown(AllItems(r), AllItems(RingAppend(r, x)), x)
<1>1. PICK n, m, items : n = r.next /\ m = r.count /\ items = r.items
  OBVIOUS
<1>2. /\ r.capacity = c /\ items \in [0 .. c - 1 -> S \cup {None}]
      /\ n \in 0 .. c - 1 /\ m \in 0 .. c
  BY <1>1 DEF IsRing
<1>3. PICK new : new = RingAppend(r, x)
  OBVIOUS
<1>4. PICK l : l = IF m < c THEN m + 1 ELSE m
  OBVIOUS
<1>5. PICK k : k = m + 1 - l
  OBVIOUS
<1>6. l \in 1 .. c /\ k \in {0, 1} /\ l = m + 1 - k
  BY <1>2, <1>4, <1>5
<1>7. /\ new.capacity = c /\ new.items = [items EXCEPT ![n] = x]
      /\ new.next = (n + 1) % c /\ new.count = l
  BY <1>1, <1>2, <1>3, <1>4 DEF RingAppend, IsRing
<1>8. IsRing(new, c, S)
  <2>1. (n + 1) % c \in 0 .. c - 1
    BY <1>2
  <2>2. [items EXCEPT ![n] = x] \in [0 .. c - 1 -> S \cup {None}]
    BY <1>2
  <2>3. l \in 0 .. c
    BY <1>6
  <2> QED
    BY <1>7, <2>1, <2>2, <2>3 DEF IsRing
<1>9. /\ AllItems(r) = [i \in 1 .. m |-> items[Wrap(Wrap(n - m, c) + i - 1, c)]]
      /\ AllItems(new) = [i \in 1 .. l |-> new.items[Wrap(Wrap(Wrap(n + 1, c) - l, c) + i - 1, c)]]
  <2>1. ~ (m < m) /\ ~ (l < l)
    BY <1>2, <1>6
  <2> QED
    BY <1>1, <1>2, <1>7, <2>1 DEF AllItems, RingItems, Wrap
<1> HIDE DEF Wrap
<1>14. PlacesMatch(c, n, m, l, k)
  BY <1>2, <1>6, Places
<1>10. \A i \in 1 .. l : AllItems(new)[i] = new.items[Wrap(n - (l - i), c)]
  BY <1>9, <1>14 DEF PlacesMatch
<1>11. AllItems(new)[l] = x
  <2>1. n - (l - l) = n /\ Wrap(n, c) = n /\ l \in 1 .. l
    BY <1>2, <1>6, WrapFacts
  <2> QED
    BY <1>2, <1>7, <1>10, <2>1
<1>12. ASSUME NEW i \in 1 .. l - 1 PROVE AllItems(new)[i] = AllItems(r)[i + k]
  <2>1. PICK p : p = Wrap(n - (l - i), c)
    OBVIOUS
  <2>2. /\ p \in 0 .. c - 1 /\ p # n /\ i + k \in 1 .. m
        /\ Wrap(Wrap(n - m, c) + (i + k) - 1, c) = p
    BY <2>1, <1>14 DEF PlacesMatch
  <2>3. i \in 1 .. l
    BY <1>6
  <2>4. AllItems(new)[i] = items[p]
    BY <1>2, <1>7, <1>10, <2>1, <2>2, <2>3
  <2>5. AllItems(r)[i + k] = items[p]
    BY <1>9, <2>2
  <2> QED
    BY <2>4, <2>5
<1>13. Grown(AllItems(r), AllItems(new), x)
  <2>1. DOMAIN AllItems(r) = 1 .. m /\ DOMAIN AllItems(new) = 1 .. l
    BY <1>9
  <2>2. m \in Nat /\ l \in Nat \ {0}
    BY <1>2, <1>6
  <2> QED
    BY <1>6, <1>11, <1>12, <2>1, <2>2 DEF Grown
<1> QED
  BY <1>3, <1>8, <1>13

-----------------------------------------------------------------------------
(* Lines one after the other.                                              *)

LEMMA LeastIsThere ==
  ASSUME NEW T \in SUBSET Nat, T # {}
  PROVE  \E n \in T : \A m \in T : n <= m
<1>1. IsWellFoundedOn(OpToRel(<, Nat), Nat)
  BY NatLessThanWellFounded
<1>2. PICK n \in T : \A m \in T : ~(<<m, n>> \in OpToRel(<, Nat))
  BY <1>1, WFMin
<1>3. \A m \in T : ~(m < n)
  BY <1>2 DEF OpToRel
<1> QED
  BY <1>3

(* The loggers in the course of the first n lines.                         *)
IsCourse(after, n, t, lines) ==
  after = [i \in 0 .. n |-> IF i = 0 THEN t ELSE Emit(after[i - 1], lines[i].level, lines[i].line)]

LEMMA CourseExists ==
  ASSUME NEW t, NEW lines, NEW n \in Nat
  PROVE  \E after : IsCourse(after, n, t, lines)
<1> DEFINE T == {m \in Nat : ~ \E after : IsCourse(after, m, t, lines)}
<1>1. ASSUME NEW m \in T, \A k \in T : m <= k PROVE FALSE
  <2>1. CASE m = 0
    <3> DEFINE g == [i \in 0 .. 0 |-> t]
    <3>1. IsCourse(g, 0, t, lines)
      BY DEF IsCourse
    <3> QED
      BY <2>1, <3>1
  <2>2. CASE m # 0
    <3>1. m - 1 \in Nat /\ ~ (m <= m - 1)
      BY <2>2
    <3>2. PICK h : IsCourse(h, m - 1, t, lines)
      BY <1>1, <3>1
    <3> DEFINE g == [i \in 0 .. m |-> IF i = m THEN Emit(h[m - 1], lines[m].level, lines[m].line) ELSE h[i]]
    <3>3. \A i \in 0 .. m : g[i] = IF i = 0 THEN t ELSE Emit(g[i - 1], lines[i].level, lines[i].line)
      <4> SUFFICES ASSUME NEW i \in 0 .. m
                   PROVE  g[i] = IF i = 0 THEN t ELSE Emit(g[i - 1], lines[i].level, lines[i].line)
        OBVIOUS
      <4>1. CASE i = m
        <5>1. m - 1 \in 0 .. m /\ m - 1 # m /\ m \in 0 .. m
          BY <2>2
        <5>2. g[m - 1] = h[m - 1] /\ g[m] = Emit(h[m - 1], lines[m].level, lines[m].line)
          BY <5>1
        <5> QED
          BY <2>2, <4>1, <5>2
      <4>2. CASE i # m
        <5>1. i \in 0 .. m - 1
          BY <4>2
        <5>2. g[i] = h[i] /\ h[i] = IF i = 0 THEN t ELSE Emit(h[i - 1], lines[i].level, lines[i].line)
          BY <3>2, <4>2, <5>1 DEF IsCourse
        <5>3. i # 0 => i - 1 \in 0 .. m /\ i - 1 # m
          BY <5>1
        <5>4. i # 0 => g[i - 1] = h[i - 1]
          BY <5>3
        <5> QED
          BY <5>2, <5>4
      <4> QED
        BY <4>1, <4>2
    <3> HIDE DEF g
    <3>4. g = [i \in 0 .. m |-> g[i]]
      BY DEF g
    <3>5. IsCourse(g, m, t, lines)
      BY <3>3, <3>4 DEF IsCourse
    <3> QED
      BY <3>5
  <2> QED
    BY <2>1, <2>2
<1>2. T = {}
  BY <1>1, LeastIsThere
<1> QED
  BY <1>2

Past(t, line) == Emit(t, line.level, line.line)

(* Every set of them that holds the first and, with each, the next, holds  *)
(* all; the last comes from the last line.                                 *)
LEMMA EmittedCourse ==
  ASSUME NEW t, NEW S, NEW lines \in Seq(S)
  PROVE  \E U : /\ t \in U /\ Emitted(t, lines) \in U
                /\ Len(lines) > 0 => \E u \in U : Emitted(t, lines) = Past(u, lines[Len(lines)])
                /\ \A G \in SUBSET U :
                     t \in G /\ (\A u \in G, e \in S : Past(u, e) \in U => Past(u, e) \in G) => G = U
<1> DEFINE n == Len(lines)
<1>1. n \in Nat /\ \A i \in 1 .. n : lines[i] \in S
  OBVIOUS
<1>2. PICK after : IsCourse(after, n, t, lines) /\ Emitted(t, lines) = after[n]
  <2> DEFINE f == CHOOSE after : IsCourse(after, n, t, lines)
  <2>1. IsCourse(f, n, t, lines)
    BY <1>1, CourseExists
  <2>2. Emitted(t, lines) = f[n]
    BY DEF Emitted, IsCourse
  <2> QED
    BY <2>1, <2>2
<1> HIDE DEF n
<1>3. after[0] = t /\ \A i \in 1 .. n : after[i] = Past(after[i - 1], lines[i])
  BY <1>1, <1>2 DEF IsCourse, Past
<1> DEFINE U == {after[i] : i \in 0 .. n}
<1>4. t \in U /\ Emitted(t, lines) \in U
  BY <1>1, <1>2, <1>3
<1>5. n > 0 => after[n - 1] \in U /\ Emitted(t, lines) = Past(after[n - 1], lines[n])
  BY <1>1, <1>2, <1>3
<1>6. ASSUME NEW G \in SUBSET U, t \in G,
             \A u \in G, e \in S : Past(u, e) \in U => Past(u, e) \in G
      PROVE  G = U
  <2> DEFINE T == {i \in 0 .. n : after[i] \notin G}
  <2>1. ASSUME NEW i \in T, \A j \in T : i <= j PROVE FALSE
    <3>1. i \in 1 .. n
      BY <1>3, <1>6
    <3>2. i - 1 \in 0 .. n /\ ~ (i <= i - 1)
      BY <1>1, <3>1
    <3>3. after[i - 1] \in G
      BY <2>1, <3>2
    <3>4. after[i] = Past(after[i - 1], lines[i]) /\ lines[i] \in S /\ after[i] \in U
      BY <1>1, <1>3, <3>1
    <3> QED
      BY <1>6, <3>3, <3>4
  <2>2. T \in SUBSET Nat
    BY <1>1
  <2>3. T = {}
    <3> HIDE DEF T
    <3> QED
      BY <2>1, <2>2, LeastIsThere
  <2> QED
    BY <2>3
<1> HIDE DEF U
<1> QED
  BY <1>4, <1>5, <1>6 DEF n

-----------------------------------------------------------------------------
(* Sequences of lines.                                                     *)

LEMMA PartsOfLines ==
  ASSUME NEW S
  PROVE  /\ <<>> \in Seq(S)
         /\ \A e \in S : <<e>> \in Seq(S)
         /\ \A d, e \in S : <<d, e>> \in Seq(S)
         /\ \A k, l \in Seq(S) : k \o l \in Seq(S)
OBVIOUS

LEMMA SetInSequence ==
  ASSUME NEW S, IsFiniteSet(S)
  PROVE  SetToSeq(S) \in Seq(S)
<1>1. Cardinality(S) \in Nat /\ ExistsBijection(1 .. Cardinality(S), S)
  BY FS_CardinalityType
<1>2. PICK f : f \in [1 .. Cardinality(S) -> S] /\ IsInjective(f)
  BY <1>1 DEF ExistsBijection, Bijection, Injection, IsInjective
<1>3. SetToSeq(S) \in [1 .. Cardinality(S) -> S]
  BY <1>2 DEF SetToSeq
<1> QED
  BY <1>1, <1>3

-----------------------------------------------------------------------------
(* What an appended line does to the newest one.                           *)

LEMMA NewestGrows ==
  ASSUME NEW old, NEW new, NEW x, Grown(old, new, x), NEW c, NEW i \in Newest(new, c)
  PROVE  /\ Tells(x, c) => new[i] = x
         /\ ~ Tells(x, c) => \E j \in Newest(old, c) : old[j] = new[i]
<1>1. PICK m \in Nat, l \in Nat \ {0}, k \in {0, 1} :
        /\ DOMAIN old = 1 .. m /\ DOMAIN new = 1 .. l /\ l = m + 1 - k
        /\ new[l] = x
        /\ \A h \in 1 .. l - 1 : new[h] = old[h + k]
  BY DEF Grown
<1>2. /\ i \in 1 .. l /\ Tells(new[i], c)
      /\ \A j \in 1 .. l : j > i => ~ Tells(new[j], c)
  BY <1>1 DEF Newest
<1>3. Tells(x, c) => i = l
  BY <1>1, <1>2
<1>4. ASSUME ~ Tells(x, c) PROVE \E j \in Newest(old, c) : old[j] = new[i]
  <2>1. i # l
    BY <1>1, <1>2, <1>4
  <2>2. i \in 1 .. l - 1 /\ i + k \in 1 .. m /\ old[i + k] = new[i]
    BY <1>1, <1>2, <2>1
  <2>3. ASSUME NEW j \in 1 .. m, j > i + k PROVE ~ Tells(old[j], c)
    <3>1. j - k \in 1 .. l - 1 /\ j - k > i /\ (j - k) + k = j
      BY <1>1, <2>2, <2>3
    <3>2. new[j - k] = old[j]
      BY <1>1, <3>1
    <3> QED
      BY <1>2, <3>1, <3>2
  <2>4. i + k \in Newest(old, c)
    BY <1>1, <1>2, <2>2, <2>3 DEF Newest
  <2> QED
    BY <2>2, <2>4
<1> QED
  BY <1>1, <1>3, <1>4

(* A dump tells what shown says of the checks in H.                        *)
Truthful(r, H, shown) ==
  \A c \in H : \A i \in Newest(AllItems(r), c) : AllItems(r)[i].status = shown[c]

LEMMA AppendTruthful ==
  ASSUME NEW S, NEW r, IsRing(r, LogCapacity, S), NEW x \in S, NEW H, NEW shown, Truthful(r, H, shown),
         \A c \in H : Tells(x, c) => x.status = shown[c]
  PROVE  Truthful(RingAppend(r, x), H, shown)
<1>1. Grown(AllItems(r), AllItems(RingAppend(r, x)), x)
  BY RingGrows, RuntimeLogAssumption
<1> QED
  BY <1>1, NewestGrows DEF Truthful

LEMMA AppendTelling ==
  ASSUME NEW S, NEW r, IsRing(r, LogCapacity, S), NEW x \in S, NEW c, Tells(x, c), NEW shown,
         x.status = shown[c]
  PROVE  Truthful(RingAppend(r, x), {c}, shown)
<1>1. Grown(AllItems(r), AllItems(RingAppend(r, x)), x)
  BY RingGrows, RuntimeLogAssumption
<1> QED
  BY <1>1, NewestGrows DEF Truthful

-----------------------------------------------------------------------------
(* The logger: its ring and its sink.                                      *)

(* While the way is free the next try is due one interval after it became  *)
(* so at the latest.                                                       *)
SinkFits(s) ==
  s # None => /\ s \in Sinks /\ s.retryAt <= now + Retry
              /\ link = "up" => s.retryAt <= upSince + Retry

SilenceFits(s, silent) ==
  silent # None => /\ s # None /\ silent \in 0 .. now
                   /\ link = "up" => silent <= upSince \/ silent < upSince + Retry

(* There is one complaint of a sink that has warned, and none of another.  *)
ComplaintFits(r, s) ==
  /\ \A i \in DOMAIN AllItems(r) : AllItems(r)[i] = Unavailable => s # None /\ s.warned
  /\ \A i, j \in DOMAIN AllItems(r) :
       AllItems(r)[i] = Unavailable /\ AllItems(r)[j] = Unavailable => i = j

LoggerFits(t) ==
  /\ DOMAIN t = {"ring", "sink", "silentAt", "level"} /\ t.level \in Levels
  /\ IsRing(t.ring, LogCapacity, Lines)
  /\ SinkFits(t.sink) /\ SilenceFits(t.sink, t.silentAt) /\ ComplaintFits(t.ring, t.sink)

Clock == now \in Nat /\ upSince \in 0 .. now /\ link \in {"up", "noroute", "nodns"}

LEMMA Delivered ==
  ASSUME Clock, NEW s, s # None, SinkFits(s), NEW silent, SilenceFits(s, silent)
  PROVE  LET d == Deliver(s)
         IN  /\ d.sink # None /\ SinkFits(d.sink)
             /\ SilenceFits(d.sink, IF d.told THEN silent ELSE now)
             /\ s.warned => d.sink.warned
             /\ d.warns => ~ s.warned /\ d.sink.warned
<1>1. s \in Sinks /\ Retry \in Nat /\ now \in Nat /\ None \notin Sinks /\ None \notin Int
  BY RuntimeLogAssumption DEF SinkFits, Clock
<1>2. CASE now < s.retryAt
  <2>1. Deliver(s) = [sink |-> s, told |-> FALSE, warns |-> FALSE]
    BY <1>2 DEF Deliver
  <2>2. SilenceFits(s, now)
    BY <1>1, <1>2 DEF SilenceFits, SinkFits, Clock, Sinks
  <2> QED
    BY <2>1, <2>2
<1>3. CASE ~ (now < s.retryAt) /\ Reaches(s)
  <2> DEFINE e == [s EXCEPT !.open = TRUE]
  <2>1. Deliver(s) = [sink |-> e, told |-> TRUE, warns |-> FALSE]
    BY <1>3 DEF Deliver
  <2>2. e \in Sinks /\ e.retryAt = s.retryAt /\ e.warned = s.warned
    BY <1>1 DEF Sinks
  <2> HIDE DEF e
  <2>3. SinkFits(e) /\ SilenceFits(e, silent) /\ e # None
    BY <1>1, <2>2 DEF SinkFits, SilenceFits
  <2> QED
    BY <2>1, <2>2, <2>3
<1>4. CASE ~ (now < s.retryAt) /\ ~ Reaches(s)
  <2> DEFINE e == [open |-> FALSE, warned |-> TRUE, retryAt |-> now + Retry]
  <2>1. Deliver(s) = [sink |-> e, told |-> FALSE, warns |-> ~ s.warned]
    BY <1>4 DEF Deliver
  <2>2. e \in Sinks /\ e.retryAt = now + Retry /\ e.warned /\ link # "up"
    BY <1>1, <1>4 DEF Sinks, Reaches
  <2> HIDE DEF e
  <2>3. SinkFits(e) /\ SilenceFits(e, now) /\ e # None
    BY <1>1, <2>2 DEF SinkFits, SilenceFits
  <2>4. PICK w \in BOOLEAN : w = ~ s.warned
    BY <1>1 DEF Sinks
  <2>5. Deliver(s).sink = e /\ Deliver(s).told = FALSE /\ Deliver(s).warns = w
    BY <2>1, <2>4
  <2> QED
    BY <2>2, <2>3, <2>4, <2>5
<1> QED
  BY <1>2, <1>3, <1>4

LEMMA AppendComplaint ==
  ASSUME NEW r, IsRing(r, LogCapacity, Lines), NEW x \in Lines, NEW s, NEW e,
         ComplaintFits(r, s), s # None /\ s.warned => e # None /\ e.warned,
         x = Unavailable => (s = None \/ ~ s.warned) /\ e # None /\ e.warned
  PROVE  ComplaintFits(RingAppend(r, x), e)
<1> DEFINE old == AllItems(r)   new == AllItems(RingAppend(r, x))
<1>0. Grown(old, new, x)
  BY RingGrows, RuntimeLogAssumption
<1> HIDE DEF old, new
<1>1. PICK m \in Nat, l \in Nat \ {0}, k \in {0, 1} :
        /\ DOMAIN old = 1 .. m /\ DOMAIN new = 1 .. l /\ l = m + 1 - k
        /\ new[l] = x
        /\ \A h \in 1 .. l - 1 : new[h] = old[h + k]
  BY <1>0 DEF Grown
<1>2. /\ \A i \in 1 .. m : old[i] = Unavailable => s # None /\ s.warned
      /\ \A i, j \in 1 .. m : old[i] = Unavailable /\ old[j] = Unavailable => i = j
  BY <1>1 DEF ComplaintFits, old
<1>3. \A i \in 1 .. l : i = l \/ (i \in 1 .. l - 1 /\ i + k \in 1 .. m)
  BY <1>1
<1>4. ASSUME NEW i \in 1 .. l, new[i] = Unavailable PROVE e # None /\ e.warned
  BY <1>1, <1>2, <1>3, <1>4
<1>5. ASSUME NEW i \in 1 .. l, NEW j \in 1 .. l, new[i] = Unavailable, new[j] = Unavailable PROVE i = j
  <2>1. CASE i = l \/ j = l
    <3>1. x = Unavailable
      BY <1>1, <1>5, <2>1
    <3>2. \A h \in 1 .. m : old[h] # Unavailable
      BY <1>2, <3>1
    <3>3. \A h \in 1 .. l : new[h] = Unavailable => h = l
      BY <1>1, <1>3, <3>2
    <3> QED
      BY <1>5, <3>3
  <2>2. CASE i # l /\ j # l
    <3>1. i + k = j + k
      BY <1>1, <1>2, <1>3, <1>5, <2>2
    <3> QED
      BY <3>1
  <2> QED
    BY <2>1, <2>2
<1> QED
  BY <1>1, <1>4, <1>5 DEF ComplaintFits, new

Entries == [level : Levels, line : Lines \ {Unavailable}]

LEMMA PastFits ==
  ASSUME Clock, NEW t, LoggerFits(t), NEW e \in Entries
  PROVE  LoggerFits(Past(t, e)) /\ Past(t, e).level = t.level
<1>1. e.line \in Lines /\ e.line # Unavailable /\ e.level \in Levels
  BY DEF Entries
<1>2. Unavailable \in Lines
  BY DEF Unavailable, Note, Lines, Kinds
<1> DEFINE kept == RingAppend(t.ring, e.line)
<1>3. IsRing(kept, LogCapacity, Lines)
  BY <1>1, RingGrows, RuntimeLogAssumption DEF LoggerFits
<1> HIDE DEF kept
<1>4. CASE e.level < t.level
  BY <1>4 DEF Past, Emit
<1>5. CASE ~ (e.level < t.level) /\ t.sink = None
  <2>1. Past(t, e) = [t EXCEPT !.ring = kept]
    BY <1>5 DEF Past, Emit, kept
  <2>2. ComplaintFits(kept, t.sink)
    BY <1>1, <1>5, AppendComplaint DEF LoggerFits, kept
  <2> QED
    BY <1>3, <2>1, <2>2 DEF LoggerFits
<1>6. CASE ~ (e.level < t.level) /\ t.sink # None
  <2> DEFINE d == Deliver(t.sink)
             longer == IF d.warns THEN RingAppend(kept, Unavailable) ELSE kept
             silent == IF d.told THEN t.silentAt ELSE now
  <2>1. Past(t, e) = [t EXCEPT !.ring = longer, !.sink = d.sink, !.silentAt = silent]
    BY <1>6 DEF Past, Emit, kept
  <2>2. /\ d.sink # None /\ SinkFits(d.sink) /\ SilenceFits(d.sink, silent)
        /\ t.sink.warned => d.sink.warned
        /\ d.warns => ~ t.sink.warned /\ d.sink.warned
    BY <1>6, Delivered DEF LoggerFits
  <2> HIDE DEF d, silent
  <2>3. ComplaintFits(kept, IF d.warns THEN t.sink ELSE d.sink)
    BY <1>1, <1>6, <2>2, AppendComplaint DEF LoggerFits, kept
  <2>4. ComplaintFits(longer, d.sink) /\ IsRing(longer, LogCapacity, Lines)
    <3>1. CASE d.warns
      <4>1. IsRing(RingAppend(kept, Unavailable), LogCapacity, Lines)
        BY <1>2, <1>3, RingGrows, RuntimeLogAssumption
      <4> QED
        BY <1>2, <1>3, <1>6, <2>2, <2>3, <3>1, <4>1, AppendComplaint
    <3>2. CASE ~ d.warns
      BY <1>3, <2>3, <3>2
    <3> QED
      BY <3>1, <3>2
  <2> HIDE DEF longer
  <2> QED
    BY <2>1, <2>2, <2>4 DEF LoggerFits
<1> QED
  BY <1>4, <1>5, <1>6

(* A line that says of a check in H what shown says, or nothing, leaves a  *)
(* truthful dump truthful; a line that tells makes it so if it is logged.  *)
LEMMA PastTells ==
  ASSUME Clock, NEW t, LoggerFits(t), NEW e \in Entries, NEW H \in SUBSET Checks, NEW shown
  PROVE  /\ Truthful(t.ring, H, shown) /\ (\A c \in H : Tells(e.line, c) => e.line.status = shown[c])
              => Truthful(Past(t, e).ring, H, shown)
         /\ \A c \in Checks : Tells(e.line, c) /\ e.line.status = shown[c] /\ ~ (e.level < t.level)
              => Truthful(Past(t, e).ring, {c}, shown)
<1>1. e.line \in Lines /\ Unavailable \in Lines /\ \A c \in Checks : ~ Tells(Unavailable, c)
  BY RuntimeLogAssumption DEF Entries, Unavailable, Note, Lines, Kinds, Tells
<1> DEFINE kept == RingAppend(t.ring, e.line)
<1>2. IsRing(kept, LogCapacity, Lines) /\ IsRing(t.ring, LogCapacity, Lines)
  BY <1>1, RingGrows, RuntimeLogAssumption DEF LoggerFits
<1>3. ~ (e.level < t.level) => Past(t, e).ring \in {kept, RingAppend(kept, Unavailable)}
  BY DEF Past, Emit, LoggerFits
<1>4. e.level < t.level => Past(t, e) = t
  BY DEF Past, Emit
<1>5. ASSUME NEW K \in SUBSET Checks, Truthful(kept, K, shown)
      PROVE  Truthful(RingAppend(kept, Unavailable), K, shown)
  BY <1>1, <1>2, <1>5, AppendTruthful
<1>6. ASSUME Truthful(t.ring, H, shown), \A c \in H : Tells(e.line, c) => e.line.status = shown[c]
      PROVE  Truthful(Past(t, e).ring, H, shown)
  <2>1. Truthful(kept, H, shown)
    BY <1>1, <1>2, <1>6, AppendTruthful
  <2> HIDE DEF kept
  <2> QED
    BY <1>3, <1>4, <1>5, <1>6, <2>1
<1>7. ASSUME NEW c \in Checks, Tells(e.line, c), e.line.status = shown[c], ~ (e.level < t.level)
      PROVE  Truthful(Past(t, e).ring, {c}, shown)
  <2>1. Truthful(kept, {c}, shown)
    BY <1>1, <1>2, <1>7, AppendTelling
  <2> HIDE DEF kept
  <2> QED
    BY <1>3, <1>5, <1>7, <2>1
<1> QED
  BY <1>6, <1>7

(* Lines that say of the checks in H what shown says, or nothing.          *)
Fitting(H, shown) ==
  {e \in Entries : \A c \in H : Tells(e.line, c) => e.line.status = shown[c]}

LEMMA CourseFits ==
  ASSUME Clock, NEW t, LoggerFits(t), NEW H \in SUBSET Checks, NEW shown, Truthful(t.ring, H, shown),
         NEW lines \in Seq(Fitting(H, shown))
  PROVE  LET u == Emitted(t, lines)
         IN  /\ LoggerFits(u) /\ Truthful(u.ring, H, shown)
             /\ \A c \in Checks :
                  /\ Len(lines) > 0 /\ Tells(lines[Len(lines)].line, c)
                  /\ lines[Len(lines)].line.status = shown[c] /\ ~ (lines[Len(lines)].level < t.level)
                  => Truthful(u.ring, {c}, shown)
<1>1. PICK U : /\ t \in U /\ Emitted(t, lines) \in U
               /\ Len(lines) > 0 => \E u \in U : Emitted(t, lines) = Past(u, lines[Len(lines)])
               /\ \A G \in SUBSET U :
                    t \in G /\ (\A u \in G, e \in Fitting(H, shown) : Past(u, e) \in U => Past(u, e) \in G) => G = U
  BY EmittedCourse
<1> DEFINE G == {u \in U : LoggerFits(u) /\ u.level = t.level /\ Truthful(u.ring, H, shown)}
<1>2. t \in G
  BY <1>1
<1>3. ASSUME NEW u \in G, NEW e \in Fitting(H, shown), Past(u, e) \in U PROVE Past(u, e) \in G
  <2>1. e \in Entries /\ \A c \in H : Tells(e.line, c) => e.line.status = shown[c]
    BY DEF Fitting
  <2>2. LoggerFits(Past(u, e)) /\ Past(u, e).level = t.level
    BY <2>1, PastFits
  <2>3. Truthful(Past(u, e).ring, H, shown)
    BY <2>1, PastTells
  <2> QED
    BY <1>3, <2>2, <2>3
<1>4. G = U
  BY <1>1, <1>2, <1>3
<1>5. LoggerFits(Emitted(t, lines)) /\ Truthful(Emitted(t, lines).ring, H, shown)
  BY <1>1, <1>4
<1>6. ASSUME NEW c \in Checks, Len(lines) > 0, Tells(lines[Len(lines)].line, c),
             lines[Len(lines)].line.status = shown[c], ~ (lines[Len(lines)].level < t.level)
      PROVE  Truthful(Emitted(t, lines).ring, {c}, shown)
  <2>1. PICK u \in U : Emitted(t, lines) = Past(u, lines[Len(lines)])
    BY <1>1, <1>6
  <2>2. LoggerFits(u) /\ u.level = t.level
    BY <1>4
  <2>3. lines[Len(lines)] \in Entries
    BY <1>6 DEF Fitting
  <2> QED
    BY <1>6, <2>1, <2>2, <2>3, PastTells
<1> QED
  BY <1>5, <1>6

-----------------------------------------------------------------------------
(* The inductive invariant.                                                *)

Spoken == {c \in Checks : ~ hushed[c]}
Said == [c \in Checks |-> results[c].status]

LogFits ==
  IsRing(ring, LogCapacity, Lines) /\ SinkFits(sink) /\ SilenceFits(sink, silentAt) /\ ComplaintFits(ring, sink)

(* The rows of the console's snapshot.                                     *)
RowsFit ==
  /\ results \in [Checks -> [status : Shown, details : Details \cup {"pending", "executor exception"}]]
  /\ pending \in [Checks -> Shown \cup {None}]
  /\ hushed \in [Checks -> BOOLEAN] /\ runs \in [Checks -> Nat]
  /\ lastError \in [Checks -> Details \cup {"pending", "exception", None}]
  /\ \A c \in Checks :
       /\ pending[c] # None => pending[c] = results[c].status
       /\ lastError[c] = None <=> results[c].status = "OK" \/ (results[c] = Pending /\ runs[c] = 0)

Settled ==
  /\ IsRing(errors, ErrorCapacity, {"startup", "check", "display", "network"})
  /\ level \in Levels /\ base \in Levels /\ debug \in BOOLEAN /\ (debug => level = Debug)
  /\ link \in {"up", "noroute", "nodns"} /\ now \in 0 .. MaxNow /\ upSince \in 0 .. now

LogInv == Settled /\ RowsFit /\ LogFits /\ Truthful(ring, Spoken, Said)

(* Lines of a step, and what they leave of the log.                        *)
LEMMA LoggedFits ==
  ASSUME LogInv, UNCHANGED <<link, now, upSince>>, NEW lv \in Levels,
         NEW H \in SUBSET Checks, NEW shown, Truthful(ring, H, shown),
         NEW lines \in Seq(Fitting(H, shown)), Logged(lines, lv)
  PROVE  /\ LogFits' /\ Truthful(ring', H, shown)
         /\ \A c \in Checks :
              /\ Len(lines) > 0 /\ Tells(lines[Len(lines)].line, c)
              /\ lines[Len(lines)].line.status = shown[c] /\ ~ (lines[Len(lines)].level < lv)
              => Truthful(ring', {c}, shown)
<1> DEFINE t == Logger(sink, lv)
<1>1. Clock
  BY RuntimeLogAssumption DEF LogInv, Settled, Clock
<1>2. LoggerFits(t) /\ t.ring = ring /\ t.level = lv
  BY DEF LogInv, LogFits, LoggerFits, Logger
<1> DEFINE u == Emitted(t, lines)
<1>3. ring' = u.ring /\ sink' = u.sink /\ silentAt' = u.silentAt
  BY DEF Logged, Leaves
<1> HIDE DEF t
<1>4. /\ LoggerFits(u) /\ Truthful(u.ring, H, shown)
      /\ \A c \in Checks :
           /\ Len(lines) > 0 /\ Tells(lines[Len(lines)].line, c)
           /\ lines[Len(lines)].line.status = shown[c] /\ ~ (lines[Len(lines)].level < t.level)
           => Truthful(u.ring, {c}, shown)
  BY <1>1, <1>2, CourseFits
<1> HIDE DEF u
<1>5. LogFits'
  BY <1>3, <1>4 DEF LogFits, LoggerFits, SinkFits, SilenceFits, ComplaintFits
<1> QED
  BY <1>2, <1>3, <1>4, <1>5

(* Notes fit whatever is shown; a line about a check fits when it names no *)
(* status, or the one shown.                                               *)
LEMMA EntriesFit ==
  ASSUME NEW H \in SUBSET Checks, NEW shown, NEW lv \in Levels, NEW kind \in Kinds \ {"unavailable"}
  PROVE  /\ At(lv, Note(kind)) \in Fitting(H, shown)
         /\ At(lv, About(kind, None, None)) \in Fitting(H, shown)
         /\ \A c \in Checks : /\ At(lv, About(kind, c, None)) \in Fitting(H, shown)
                              /\ shown[c] \in Shown => At(lv, About(kind, c, shown[c])) \in Fitting(H, shown)
<1>1. None \notin Checks /\ None \notin Shown
  BY RuntimeLogAssumption
<1>2. \A id \in Checks \cup {None}, st \in Shown \cup {None} : At(lv, About(kind, id, st)) \in Entries
  BY DEF At, About, Entries, Lines, Unavailable, Note
<1>3. \A id, st, c : Tells(At(lv, About(kind, id, st)).line, c) <=> id = c /\ st # None
  BY DEF At, About, Tells
<1>4. \A id, st : At(lv, About(kind, id, st)).line.status = st
  BY DEF At, About
<1>5. Note(kind) = About(kind, None, None)
  BY DEF Note, About
<1> QED
  BY <1>1, <1>2, <1>3, <1>4, <1>5 DEF Fitting

LEMMA TransitionsFit ==
  ASSUME LogInv, NEW c \in Checks, NEW st \in Shown, NEW H \in SUBSET Checks, NEW shown, shown[c] = st
  PROVE  TransitionLines(c, results[c].status, st) \in Seq(Fitting(H, shown))
<1>1. At(Warn, About("transition", c, st)) \in Fitting(H, shown)
  BY EntriesFit DEF Levels, Kinds
<1> QED
  BY <1>1, PartsOfLines DEF TransitionLines

LEMMA LastOfTwo ==
  ASSUME NEW S, NEW k \in Seq(S), NEW e \in S
  PROVE  Len(k \o <<e>>) > 0 /\ (k \o <<e>>)[Len(k \o <<e>>)] = e
OBVIOUS

(* The lines of a result end with the change of the status, if it is one.  *)
LEMMA ResultLogged ==
  ASSUME LogInv, UNCHANGED <<link, now, upSince, level>>, NEW c \in Checks, NEW st \in Shown,
         Said' = [Said EXCEPT ![c] = st], Tracked(c, st),
         NEW lines \in Seq(Fitting(Checks, Said')),
         Logged(lines \o TransitionLines(c, results[c].status, st), level)
  PROVE  LogFits' /\ Truthful(ring', Spoken', Said')
<1>1. level \in Levels /\ Said \in [Checks -> Shown] /\ Said[c] = results[c].status /\ hushed \in [Checks -> BOOLEAN]
  BY DEF LogInv, Settled, RowsFit, Said
<1> DEFINE told == Said'
           all == lines \o TransitionLines(c, results[c].status, st)
<1>2. told = [Said EXCEPT ![c] = st]
  OBVIOUS
<1> HIDE DEF told
<1>3. told[c] = st /\ \A d \in Checks \ {c} : told[d] = Said[d]
  BY <1>1, <1>2
<1>4. all \in Seq(Fitting(Checks, told))
  BY <1>3, TransitionsFit, PartsOfLines DEF told
<1>5. \A H \in SUBSET Checks : Fitting(Checks, told) \subseteq Fitting(H, told)
  BY DEF Fitting
<1>6. \A H \in SUBSET Checks : all \in Seq(Fitting(H, told))
  BY <1>4, <1>5
<1>7. Truthful(ring, Spoken, Said) /\ Spoken \in SUBSET Checks
  BY DEF LogInv, Spoken
<1>10. Logged(all, level) /\ UNCHANGED <<link, now, upSince>>
  OBVIOUS
<1> HIDE DEF all
<1>8. CASE results[c].status = st
  <2>1. hushed' = hushed /\ told = Said
    BY <1>1, <1>2, <1>8 DEF Tracked
  <2>2. Spoken' = Spoken
    BY <2>1 DEF Spoken
  <2>3. LogFits' /\ Truthful(ring', Spoken, told)
    BY <1>1, <1>6, <1>7, <1>10, <2>1, LoggedFits
  <2> QED
    BY <2>2, <2>3 DEF told
<1>9. CASE results[c].status # st
  <2> DEFINE H == Spoken \ {c}
  <2>1. Truthful(ring, H, told) /\ H \in SUBSET Checks
    BY <1>3, <1>7 DEF Truthful
  <2>2. hushed' = [hushed EXCEPT ![c] = level > Warn]
    BY <1>9 DEF Tracked
  <2>3. Spoken' \subseteq H \cup {c} /\ (c \in Spoken' => ~ (Warn < level))
    BY <1>1, <2>2 DEF Spoken, Levels, Warn, Debug, Info, Error
  <2>4. LogFits' /\ Truthful(ring', H, told)
    BY <1>1, <1>6, <1>10, <2>1, LoggedFits
  <2>5. c \in Spoken' => Truthful(ring', {c}, told)
    <3> DEFINE e == At(Warn, About("transition", c, st))
    <3>1. all = lines \o <<e>>
      BY <1>9 DEF TransitionLines, all
    <3>2. e \in Fitting(Checks, told)
      BY <1>3, EntriesFit DEF Levels, Kinds
    <3>3. Len(all) > 0 /\ all[Len(all)] = e
      BY <3>1, <3>2, LastOfTwo DEF told
    <3>4. Tells(e.line, c) /\ e.line.status = told[c] /\ e.level = Warn
      BY <1>3, RuntimeLogAssumption DEF At, About, Tells
    <3> HIDE DEF e
    <3>5. /\ Logged(all, level) /\ all \in Seq(Fitting(H, told))
      BY <1>6, <1>10, <2>1
    <3>6. \A d \in Checks :
            /\ Len(all) > 0 /\ Tells(all[Len(all)].line, d)
            /\ all[Len(all)].line.status = told[d] /\ ~ (all[Len(all)].level < level)
            => Truthful(ring', {d}, told)
      BY <1>1, <1>10, <2>1, <3>5, LoggedFits
    <3>7. ~ (Warn < level) => ~ (level > Warn) /\ ~ (Warn < level)
      BY <1>1 DEF Levels, Warn, Debug, Info, Error
    <3> QED
      BY <2>3, <3>3, <3>4, <3>6
  <2> QED
    BY <2>3, <2>4, <2>5 DEF Truthful, told
<1> QED
  BY <1>8, <1>9

LEMMA ErrorKept ==
  ASSUME NEW scope \in {"startup", "check", "display", "network"},
         IsRing(errors, ErrorCapacity, {"startup", "check", "display", "network"}), Recorded(scope)
  PROVE  IsRing(errors', ErrorCapacity, {"startup", "check", "display", "network"})
BY RingGrows, RuntimeLogAssumption DEF Recorded

(* Lines that only note, and those of an exception without a check.        *)
LEMMA NotesFit ==
  ASSUME NEW H \in SUBSET Checks, NEW shown
  PROVE  LET F == Fitting(H, shown)
         IN  /\ \A lv \in Levels, kind \in Kinds \ {"unavailable"} : At(lv, Note(kind)) \in F
             /\ ExceptionLines(None) \in Seq(F)
             /\ Debug \in Levels /\ Info \in Levels /\ Warn \in Levels /\ Error \in Levels
<1>1. Error \in Levels /\ "exception" \in Kinds \ {"unavailable"}
  BY DEF Levels, Kinds
<1>2. At(Error, About("exception", None, None)) \in Fitting(H, shown)
  BY <1>1, EntriesFit
<1> QED
  BY <1>2, EntriesFit, PartsOfLines DEF ExceptionLines, Levels

(* A step that logs and leaves what the lines tell of as it is.            *)
LEMMA NotesLogged ==
  ASSUME LogInv, UNCHANGED <<link, now, upSince, results, hushed>>, NEW lv \in Levels,
         NEW lines \in Seq(Fitting(Spoken, Said)), Logged(lines, lv)
  PROVE  LogFits' /\ Truthful(ring', Spoken', Said')
<1>1. Truthful(ring, Spoken, Said) /\ Spoken \in SUBSET Checks
  BY DEF LogInv, Spoken
<1>2. Spoken' = Spoken /\ Said' = Said
  BY DEF Spoken, Said
<1> HIDE DEF Spoken, Said
<1> QED
  BY <1>1, <1>2, LoggedFits

-----------------------------------------------------------------------------
(* The start, and one lemma for each action.                               *)

LEMMA NewRingFits ==
  ASSUME NEW c \in Nat \ {0}, NEW S
  PROVE  IsRing(NewRing(c), c, S) /\ DOMAIN AllItems(NewRing(c)) = {}
<1>1. IsRing(NewRing(c), c, S)
  BY DEF IsRing, NewRing
<1>2. NewRing(c).count = 0 /\ ~ (0 < 0)
  BY DEF NewRing
<1>3. DOMAIN AllItems(NewRing(c)) = 1 .. 0
  BY <1>2 DEF AllItems, RingItems
<1> QED
  BY <1>1, <1>3

LEMMA SettingsOfCapacity ==
  /\ LogCapacity \in Nat \ {0} /\ ErrorCapacity \in Nat \ {0} /\ MaxNow \in Nat /\ Retry \in Nat
  /\ None \notin Checks /\ None \notin Details /\ None \notin Shown /\ None \notin {"pending", "exception"}
BY RuntimeLogAssumption

(* What is noted of a status.                                              *)
LEMMA TrackedFits ==
  ASSUME LogInv, NEW c \in Checks, NEW st \in Shown, Tracked(c, st)
  PROVE  /\ pending' \in [Checks -> Shown \cup {None}] /\ hushed' \in [Checks -> BOOLEAN]
         /\ pending'[c] # None => pending'[c] = st
         /\ \A d \in Checks \ {c} : pending'[d] = pending[d]
<1>1. /\ pending \in [Checks -> Shown \cup {None}] /\ hushed \in [Checks -> BOOLEAN]
      /\ pending[c] # None => pending[c] = results[c].status
  BY DEF LogInv, RowsFit
<1>2. CASE results[c].status = st
  <2>1. pending' = pending /\ hushed' = hushed
    BY <1>2 DEF Tracked
  <2> QED
    BY <1>1, <1>2, <2>1
<1>3. CASE results[c].status # st
  <2>1. PICK b \in BOOLEAN : b = (level > Warn)
    <3>1. level \in Int /\ Warn \in Int
      BY DEF LogInv, Settled, Levels, Debug, Info, Warn, Error
    <3>2. ASSUME NEW lv \in Int, NEW w \in Int PROVE \E b \in BOOLEAN : b = (lv > w)
      BY (lv > w) \in BOOLEAN
    <3> QED
      BY <3>1, <3>2
  <2>2. pending' = [pending EXCEPT ![c] = st] /\ hushed' = [hushed EXCEPT ![c] = b]
    BY <1>3, <2>1 DEF Tracked
  <2>3. hushed' \in [Checks -> BOOLEAN]
    BY <1>1, <2>2
  <2>4. /\ pending' \in [Checks -> Shown \cup {None}] /\ pending'[c] = st
        /\ \A d \in Checks \ {c} : pending'[d] = pending[d]
    BY <1>1, <2>2
  <2> QED
    BY <2>3, <2>4
<1> QED
  BY <1>2, <1>3

LEMMA StartFits == LogInit => LogInv
<1> SUFFICES ASSUME LogInit PROVE LogInv
  OBVIOUS
<1> USE SettingsOfCapacity
<1>1. Settled
  <2>1. IsRing(errors, ErrorCapacity, {"startup", "check", "display", "network"})
    BY NewRingFits DEF LogInit
  <2>2. now = 0 /\ upSince = 0 /\ 0 \in 0 .. MaxNow /\ 0 \in 0 .. 0
    BY DEF LogInit
  <2>3. level \in Levels /\ base \in Levels /\ debug = FALSE
    BY DEF LogInit, Levels
  <2> QED
    BY <2>1, <2>2, <2>3 DEF LogInit, Settled
<1>2. Pending \in [status : Shown, details : Details \cup {"pending", "executor exception"}] /\ Pending.status # "OK"
  BY DEF Pending, Shown
<1>3. RowsFit
  BY <1>2 DEF LogInit, RowsFit, NoTimes
<1>4. DOMAIN AllItems(ring) = {} /\ IsRing(ring, LogCapacity, Lines)
  BY NewRingFits DEF LogInit
<1>5. FreshSink \in Sinks /\ FreshSink.retryAt = 0
  BY DEF FreshSink, Sinks
<1>6. SinkFits(sink)
  BY <1>5 DEF LogInit, SinkFits
<1>7. LogFits
  BY <1>4, <1>6 DEF LogInit, LogFits, SilenceFits, ComplaintFits
<1>8. Truthful(ring, Spoken, Said)
  BY <1>4 DEF Truthful, Newest
<1> QED
  BY <1>1, <1>3, <1>7, <1>8 DEF LogInv

LEMMA SerialLineFits == LogInv /\ SerialLine => LogInv'
<1> SUFFICES ASSUME LogInv, SerialLine PROVE LogInv'
  OBVIOUS
<1>1. UNCHANGED <<config, booted, level, base, debug, link, now, errors, failures, upSince, ops, ring, table>>
  BY DEF SerialLine, Free
<1>2. Settled' /\ RowsFit'
  BY <1>1 DEF LogInv, Settled, RowsFit, table
<1>3. Truthful(ring', Spoken', Said')
  <2>1. ring' = ring /\ Spoken' = Spoken /\ Said' = Said
    BY <1>1 DEF table, Spoken, Said
  <2> QED
    BY <2>1 DEF LogInv
<1> DEFINE d == Deliver(sink)
<1>4. sink # None /\ sink' = d.sink /\ silentAt' = IF d.told THEN silentAt ELSE now
  BY DEF SerialLine
<1>5. Clock
  BY SettingsOfCapacity DEF LogInv, Settled, Clock
<1>6. /\ d.sink # None /\ SinkFits(d.sink)
      /\ SilenceFits(d.sink, IF d.told THEN silentAt ELSE now)
      /\ sink.warned => d.sink.warned
  BY <1>4, <1>5, Delivered DEF LogInv, LogFits
<1> HIDE DEF d
<1>7. SinkFits(sink') /\ SilenceFits(sink', silentAt') /\ sink' # None /\ (sink.warned => sink'.warned)
  BY <1>4, <1>6
<1>8. SinkFits(sink)' /\ SilenceFits(sink, silentAt)'
  BY <1>1, <1>7 DEF SinkFits, SilenceFits
<1>9. ComplaintFits(ring, sink)'
  BY <1>1, <1>7 DEF LogInv, LogFits, ComplaintFits
<1> QED
  BY <1>1, <1>2, <1>3, <1>8, <1>9 DEF LogInv, LogFits

LEMMA ReadyFits == LogInv /\ Ready => LogInv'
<1> SUFFICES ASSUME LogInv, Ready PROVE LogInv'
  OBVIOUS
<1> USE SettingsOfCapacity
<1>1. UNCHANGED <<level, base, debug, link, now, failures, upSince, ops, table>>
  BY DEF Ready
<1> DEFINE told(failed) == <<At(Info, Note("boot"))>>
                    \o (IF failed THEN ExceptionLines(None) \o <<At(Warn, Note("diagnostic"))>> ELSE <<>>)
           s == IF sink = None /\ HasSink(config, config.targets) THEN FreshSink ELSE sink
<1>2. PICK failed \in BOOLEAN :
        /\ Leaves(Emitted(Logger(s, level), told(failed)))
        /\ IF failed THEN Recorded("startup") ELSE UNCHANGED errors
  BY DEF Ready
<1>3. Spoken \in SUBSET Checks /\ Truthful(ring, Spoken, Said) /\ Clock
  BY DEF Spoken, LogInv, Settled, Clock
<1>4. told(failed) \in Seq(Fitting(Spoken, Said))
  BY <1>3, NotesFit, PartsOfLines DEF Kinds
<1>5. LoggerFits(Logger(s, level))
  <2>1. FreshSink \in Sinks /\ FreshSink.retryAt = 0
    BY DEF FreshSink, Sinks
  <2>2. SinkFits(s) /\ SilenceFits(s, silentAt) /\ ComplaintFits(ring, s)
    BY <1>3, <2>1 DEF LogInv, LogFits, SinkFits, SilenceFits, ComplaintFits, Clock
  <2> HIDE DEF s
  <2> QED
    BY <2>2 DEF LogInv, LogFits, Settled, LoggerFits, Logger
<1> DEFINE t == Logger(s, level)   u == Emitted(t, told(failed))
<1>6. t.ring = ring
  BY DEF Logger
<1>7. ring' = u.ring /\ sink' = u.sink /\ silentAt' = u.silentAt
  BY <1>2 DEF Leaves
<1> HIDE DEF t, told
<1>8. LoggerFits(u) /\ Truthful(u.ring, Spoken, Said)
  BY <1>3, <1>4, <1>5, <1>6, CourseFits DEF t
<1> HIDE DEF u
<1>9. LogFits'
  BY <1>1, <1>7, <1>8 DEF LogFits, LoggerFits, SinkFits, SilenceFits, ComplaintFits
<1>10. Truthful(ring, Spoken, Said)'
  <2>1. Spoken' = Spoken /\ Said' = Said
    BY <1>1 DEF table, Spoken, Said
  <2> QED
    BY <1>7, <1>8, <2>1
<1>11. Settled'
  BY <1>1, <1>2, ErrorKept DEF LogInv, Settled
<1>12. RowsFit'
  BY <1>1 DEF LogInv, RowsFit, table
<1> QED
  BY <1>9, <1>10, <1>11, <1>12 DEF LogInv

LEMMA ProbeEndsFits ==
  ASSUME LogInv, NEW c \in Checks, NEW o \in Outcomes, NEW manual \in BOOLEAN, ProbeEnds(c, o, manual)
  PROVE  LogInv'
<1> USE SettingsOfCapacity
<1>1. UNCHANGED <<link, now, upSince, level, base, debug, errors, failures>>
  BY DEF ProbeEnds, Works
<1>2. /\ results' = [results EXCEPT ![c] = o]
      /\ lastError' = [lastError EXCEPT ![c] = IF o.status = "OK" THEN None ELSE o.details]
      /\ runs' = [runs EXCEPT ![c] = @ + 1]
      /\ Tracked(c, o.status)
  BY DEF ProbeEnds
<1>3. /\ o \in [status : Shown, details : Details \cup {"pending"}] /\ o.status \in Shown
      /\ o.details # None
  BY DEF Outcomes, Pending, Shown
<1>4. Settled'
  BY <1>1 DEF LogInv, Settled
<1>5. RowsFit'
  <2>1. /\ results' \in [Checks -> [status : Shown, details : Details \cup {"pending", "executor exception"}]]
        /\ results'[c] = o /\ \A d \in Checks \ {c} : results'[d] = results[d]
    BY <1>2, <1>3 DEF LogInv, RowsFit
  <2>2. /\ lastError' \in [Checks -> Details \cup {"pending", "exception", None}]
        /\ (lastError'[c] = None <=> o.status = "OK") /\ \A d \in Checks \ {c} : lastError'[d] = lastError[d]
    BY <1>2, <1>3 DEF LogInv, RowsFit
  <2>3. /\ runs' \in [Checks -> Nat] /\ runs'[c] # 0 /\ \A d \in Checks \ {c} : runs'[d] = runs[d]
    <3>1. runs \in [Checks -> Nat]
      BY DEF LogInv, RowsFit
    <3>2. runs[c] \in Nat
      BY <3>1
    <3>3. runs[c] + 1 \in Nat \ {0}
      BY <3>2
    <3> QED
      BY <1>2, <3>1, <3>3
  <2>4. /\ pending' \in [Checks -> Shown \cup {None}] /\ hushed' \in [Checks -> BOOLEAN]
        /\ pending'[c] # None => pending'[c] = o.status
        /\ \A d \in Checks \ {c} : pending'[d] = pending[d]
    BY <1>2, <1>3, TrackedFits
  <2>5. ASSUME NEW d \in Checks
        PROVE  /\ pending'[d] # None => pending'[d] = results'[d].status
               /\ lastError'[d] = None <=> results'[d].status = "OK" \/ (results'[d] = Pending /\ runs'[d] = 0)
    <3>1. CASE d = c
      BY <3>1, <2>1, <2>2, <2>3, <2>4
    <3>2. CASE d # c
      BY <3>2, <2>1, <2>2, <2>3, <2>4 DEF LogInv, RowsFit
    <3> QED
      BY <3>1, <3>2
  <2> QED
    BY <2>1, <2>2, <2>3, <2>4, <2>5 DEF RowsFit
<1>6. Said' = [Said EXCEPT ![c] = o.status]
  BY <1>2, <1>3 DEF LogInv, RowsFit, Said
<1>7. Said'[c] = o.status
  BY <1>6 DEF Said
<1> DEFINE lines == (IF o = Pending THEN <<>> ELSE TraceLines(c, o)) \o ResultLines(c, o, manual)
<1>8. lines \in Seq(Fitting(Checks, Said'))
  <2> DEFINE told == Said'   F == Fitting(Checks, told)
  <2>1. told[c] = o.status
    BY <1>7
  <2> HIDE DEF told
  <2>2. \A lv \in Levels, kind \in Kinds \ {"unavailable"} : At(lv, About(kind, c, o.status)) \in F
    BY <1>3, <2>1, EntriesFit
  <2>3. {"probe-end", "run", "failure", "steady"} \subseteq Kinds \ {"unavailable"}
    BY DEF Kinds
  <2>4. {Debug, Info, Warn, Error} \subseteq Levels
    BY DEF Levels
  <2>5. /\ At(Info, About("probe-end", c, o.status)) \in F /\ At(Info, About("run", c, o.status)) \in F
        /\ At(Error, About("failure", c, o.status)) \in F /\ At(Warn, About("failure", c, o.status)) \in F
        /\ At(Debug, About("steady", c, o.status)) \in F
    BY <2>2, <2>3, <2>4
  <2> HIDE DEF F
  <2>6. TraceLines(c, o) \in Seq(F)
    BY <2>5, PartsOfLines DEF TraceLines
  <2>7. ResultLines(c, o, manual) \in Seq(F)
    BY <2>5, PartsOfLines DEF ResultLines
  <2>8. lines \in Seq(F)
    BY <2>6, <2>7, PartsOfLines
  <2> QED
    BY <2>8 DEF F, told
<1>9. Logged(lines \o TransitionLines(c, results[c].status, o.status), level)
  BY DEF ProbeEnds
<1> HIDE DEF lines
<1>10. LogFits' /\ Truthful(ring', Spoken', Said')
  BY <1>1, <1>2, <1>3, <1>6, <1>8, <1>9, ResultLogged
<1> QED
  BY <1>4, <1>5, <1>10 DEF LogInv

LEMMA ProbeRaisesFits ==
  ASSUME LogInv, NEW c \in Checks, ProbeRaises(c)
  PROVE  LogInv'
<1> USE SettingsOfCapacity
<1> DEFINE row == [status |-> "FAIL", details |-> "executor exception"]
<1>1. UNCHANGED <<link, now, upSince, level, base, debug, failures, runs, signatures>>
  BY DEF ProbeRaises, Works
<1>2. /\ results' = [results EXCEPT ![c] = row] /\ lastError' = [lastError EXCEPT ![c] = "exception"]
      /\ Recorded("check") /\ Tracked(c, "FAIL")
  BY DEF ProbeRaises
<1>3. "FAIL" \in Shown /\ row.status = "FAIL" /\ row \in [status : Shown, details : {"executor exception"}]
      /\ row # Pending
  BY DEF Shown, Pending
<1> HIDE DEF row
<1>4. Settled'
  BY <1>1, <1>2, ErrorKept DEF LogInv, Settled
<1>5. RowsFit'
  <2>1. /\ results' \in [Checks -> [status : Shown, details : Details \cup {"pending", "executor exception"}]]
        /\ results'[c] = row /\ \A d \in Checks \ {c} : results'[d] = results[d]
    BY <1>2, <1>3 DEF LogInv, RowsFit
  <2>2. /\ lastError' \in [Checks -> Details \cup {"pending", "exception", None}]
        /\ lastError'[c] # None /\ \A d \in Checks \ {c} : lastError'[d] = lastError[d]
    BY <1>2 DEF LogInv, RowsFit
  <2>3. runs' = runs /\ runs \in [Checks -> Nat]
    BY <1>1 DEF LogInv, RowsFit
  <2>4. /\ pending' \in [Checks -> Shown \cup {None}] /\ hushed' \in [Checks -> BOOLEAN]
        /\ pending'[c] # None => pending'[c] = "FAIL"
        /\ \A d \in Checks \ {c} : pending'[d] = pending[d]
    BY <1>2, <1>3, TrackedFits
  <2>5. ASSUME NEW d \in Checks
        PROVE  /\ pending'[d] # None => pending'[d] = results'[d].status
               /\ lastError'[d] = None <=> results'[d].status = "OK" \/ (results'[d] = Pending /\ runs'[d] = 0)
    <3>1. CASE d = c
      BY <3>1, <1>3, <2>1, <2>2, <2>4
    <3>2. CASE d # c
      BY <3>2, <2>1, <2>2, <2>3, <2>4 DEF LogInv, RowsFit
    <3> QED
      BY <3>1, <3>2
  <2> QED
    BY <2>1, <2>2, <2>3, <2>4, <2>5 DEF RowsFit
<1>6. Said' = [Said EXCEPT ![c] = "FAIL"]
  BY <1>2, <1>3 DEF LogInv, RowsFit, Said
<1>7. Said'[c] = "FAIL"
  BY <1>6 DEF Said
<1> DEFINE lines == <<At(Warn, About("probe-error", c, None))>> \o ExceptionLines(c)
<1>8. lines \in Seq(Fitting(Checks, Said'))
  <2> DEFINE told == Said'   F == Fitting(Checks, told)
  <2>1. told[c] = "FAIL"
    BY <1>7
  <2> HIDE DEF told
  <2>2. {"probe-error", "exception"} \subseteq Kinds \ {"unavailable"} /\ Warn \in Levels /\ Error \in Levels
    BY DEF Kinds, Levels
  <2>3. /\ At(Warn, About("probe-error", c, None)) \in F
        /\ At(Error, About("exception", c, "FAIL")) \in F
    BY <1>3, <2>1, <2>2, EntriesFit
  <2> HIDE DEF F
  <2>4. ExceptionLines(c) \in Seq(F)
    BY <2>3, PartsOfLines DEF ExceptionLines
  <2>5. lines \in Seq(F)
    BY <2>3, <2>4, PartsOfLines
  <2> QED
    BY <2>5 DEF F, told
<1>9. Logged(lines \o TransitionLines(c, results[c].status, "FAIL"), level)
  BY DEF ProbeRaises
<1> HIDE DEF lines
<1>10. LogFits' /\ Truthful(ring', Spoken', Said')
  BY <1>1, <1>2, <1>3, <1>6, <1>8, <1>9, ResultLogged
<1> QED
  BY <1>4, <1>5, <1>10 DEF LogInv

LEMMA DrawnFits ==
  ASSUME LogInv, NEW moved \in BOOLEAN, Drawn(moved)
  PROVE  LogInv'
<1> USE SettingsOfCapacity
<1>1. /\ UNCHANGED <<link, now, upSince, level, base, debug, errors, results, lastError, signatures, runs, hushed>>
      /\ pending' = NoTimes(None)
  BY DEF Drawn, Works
<1> DEFINE F == Fitting(Spoken, Said)
           lines == (IF failures > 0 THEN <<At(Warn, Note("recovered"))>> ELSE <<>>)
                    \o (IF moved THEN <<At(Info, Note("liveness"))>> ELSE <<>>) \o PropagationLines
<1>2. Spoken \in SUBSET Checks /\ level \in Levels
  BY DEF Spoken, LogInv, Settled
<1>3. PropagationLines \in Seq(F)
  <2> DEFINE waiting == {c \in Checks : pending[c] # None}
             S == {At(Info, About("propagation", c, pending[c])) : c \in waiting}
  <2>1. IsFiniteSet(S)
    <3>1. IsFiniteSet(waiting)
      BY FS_Subset, RuntimeLogAssumption
    <3> DEFINE f == [c \in waiting |-> At(Info, About("propagation", c, pending[c]))]
    <3>2. f \in [waiting -> S] /\ \A e \in S : \E c \in waiting : f[c] = e
      OBVIOUS
    <3> HIDE DEF f, S
    <3>3. f \in Surjection(waiting, S)
      BY <3>2 DEF Surjection
    <3> QED
      BY <3>1, <3>3, FS_Surjection
  <2>2. ASSUME NEW c \in waiting PROVE At(Info, About("propagation", c, pending[c])) \in F
    <3>1. pending[c] = Said[c] /\ Said[c] \in Shown /\ c \in Checks
      BY <2>2 DEF LogInv, RowsFit, Said
    <3>2. Info \in Levels /\ "propagation" \in Kinds \ {"unavailable"}
      BY DEF Levels, Kinds
    <3> QED
      BY <1>2, <3>1, <3>2, EntriesFit
  <2>3. SetToSeq(S) \in Seq(S)
    <3> HIDE DEF S
    <3> QED
      BY <2>1, SetInSequence
  <2>4. S \subseteq F
    BY <2>2
  <2>5. PropagationLines = SetToSeq(S)
    BY DEF PropagationLines
  <2> HIDE DEF S
  <2> QED
    BY <2>3, <2>4, <2>5
<1>4. lines \in Seq(F)
  <2>1. At(Warn, Note("recovered")) \in F /\ At(Info, Note("liveness")) \in F
    BY <1>2, NotesFit DEF Kinds
  <2> HIDE DEF F
  <2> QED
    BY <1>3, <2>1, PartsOfLines
<1>5. Logged(lines, level)
  BY DEF Drawn
<1> HIDE DEF lines
<1>6. LogFits' /\ Truthful(ring', Spoken', Said')
  BY <1>1, <1>2, <1>4, <1>5, NotesLogged
<1>7. Settled' /\ RowsFit'
  BY <1>1 DEF LogInv, Settled, RowsFit, NoTimes
<1> QED
  BY <1>6, <1>7 DEF LogInv

LEMMA DrawFailsFits == LogInv /\ DrawFails => LogInv'
<1> SUFFICES ASSUME LogInv, DrawFails PROVE LogInv'
  OBVIOUS
<1>1. UNCHANGED <<link, now, upSince, level, base, debug, results, lastError, signatures, runs, pending, hushed>>
  BY DEF DrawFails, Works, table
<1> DEFINE F == Fitting(Spoken, Said)
           lines == ExceptionLines(None) \o <<At(Warn, Note("diagnostic")), At(Error, Note("draw-failed"))>>
<1>2. Spoken \in SUBSET Checks /\ level \in Levels
  BY DEF Spoken, LogInv, Settled
<1>3. lines \in Seq(F)
  <2>1. /\ At(Warn, Note("diagnostic")) \in F /\ At(Error, Note("draw-failed")) \in F
        /\ ExceptionLines(None) \in Seq(F)
    BY <1>2, NotesFit DEF Kinds
  <2> HIDE DEF F
  <2> QED
    BY <2>1, PartsOfLines
<1>4. Logged(lines, level) /\ Recorded("display")
  BY DEF DrawFails
<1> HIDE DEF lines
<1>5. LogFits' /\ Truthful(ring', Spoken', Said')
  BY <1>1, <1>2, <1>3, <1>4, NotesLogged
<1>6. Settled' /\ RowsFit'
  BY <1>1, <1>4, ErrorKept DEF LogInv, Settled, RowsFit
<1> QED
  BY <1>5, <1>6 DEF LogInv

LEMMA NetworkResultFits ==
  ASSUME LogInv, NEW o \in {"connected", "failed", "raised"}, NetworkResult(o)
  PROVE  LogInv'
<1>1. UNCHANGED <<link, now, upSince, level, base, debug, results, lastError, signatures, runs, pending, hushed>>
  BY DEF NetworkResult, Works, table
<1> DEFINE F == Fitting(Spoken, Said)
<1>2. Spoken \in SUBSET Checks /\ level \in Levels
  BY DEF Spoken, LogInv, Settled
<1>3. PICK lines \in Seq(F) : Logged(lines, level)
  <2>1. /\ At(Info, Note("connected")) \in F /\ At(Warn, Note("diagnostic")) \in F
        /\ At(Warn, Note("connect-failed")) \in F /\ ExceptionLines(None) \in Seq(F)
    BY <1>2, NotesFit DEF Kinds
  <2> HIDE DEF F
  <2>2. /\ <<At(Info, Note("connected"))>> \in Seq(F)
        /\ <<At(Warn, Note("diagnostic")), At(Warn, Note("connect-failed"))>> \in Seq(F)
        /\ ExceptionLines(None) \o <<At(Warn, Note("connect-failed"))>> \in Seq(F)
    BY <2>1, PartsOfLines
  <2>3. CASE o = "connected"
    BY <2>2, <2>3 DEF NetworkResult
  <2>4. CASE o = "failed"
    BY <2>2, <2>4 DEF NetworkResult
  <2>5. CASE o = "raised"
    BY <2>2, <2>5 DEF NetworkResult
  <2> QED
    BY <2>3, <2>4, <2>5
<1>4. LogFits' /\ Truthful(ring', Spoken', Said')
  BY <1>1, <1>2, <1>3, NotesLogged
<1>5. Recorded("network") \/ UNCHANGED errors
  BY DEF NetworkResult
<1>6. Settled' /\ RowsFit'
  BY <1>1, <1>5, ErrorKept DEF LogInv, Settled, RowsFit
<1> QED
  BY <1>4, <1>6 DEF LogInv

LEMMA PressFits ==
  ASSUME LogInv, NEW changed \in BOOLEAN, Press(changed)
  PROVE  LogInv'
<1>1. UNCHANGED <<link, now, upSince, level, base, debug, errors, results, lastError, signatures, runs, pending, hushed>>
  BY DEF Press, Works, table
<1> DEFINE F == Fitting(Spoken, Said)
           lines == <<At(Info, Note("press")), IF changed THEN At(Info, Note("action")) ELSE At(Debug, Note("noop"))>>
<1>2. Spoken \in SUBSET Checks /\ level \in Levels
  BY DEF Spoken, LogInv, Settled
<1>3. lines \in Seq(F)
  <2>1. At(Info, Note("press")) \in F /\ At(Info, Note("action")) \in F /\ At(Debug, Note("noop")) \in F
    BY <1>2, NotesFit DEF Kinds
  <2> HIDE DEF F
  <2> QED
    BY <2>1, PartsOfLines
<1>4. Logged(lines, level)
  BY DEF Press
<1> HIDE DEF lines
<1>5. LogFits' /\ Truthful(ring', Spoken', Said')
  BY <1>1, <1>2, <1>3, <1>4, NotesLogged
<1>6. Settled' /\ RowsFit'
  BY <1>1 DEF LogInv, Settled, RowsFit
<1> QED
  BY <1>5, <1>6 DEF LogInv

(* A step that leaves the log alone.                                       *)
LEMMA SilentStep ==
  ASSUME LogInv, UNCHANGED <<ring, sink, silentAt, link, now, upSince, results, hushed>>
  PROVE  LogFits' /\ Truthful(ring', Spoken', Said')
<1>1. Spoken' = Spoken /\ Said' = Said
  BY DEF Spoken, Said
<1>2. LogFits'
  BY DEF LogInv, LogFits, SinkFits, SilenceFits, ComplaintFits
<1> QED
  BY <1>1, <1>2 DEF LogInv

LEMMA SetLogLevelFits ==
  ASSUME LogInv, NEW lv \in Levels, SetLogLevel(lv)
  PROVE  LogInv'
<1>1. /\ UNCHANGED <<link, now, upSince, debug, errors, results, lastError, signatures, runs, pending, hushed>>
      /\ UNCHANGED <<ring, sink, silentAt>>
      /\ base' = lv /\ level' = IF debug THEN level ELSE lv
  BY DEF SetLogLevel, Works, table, log
<1>2. LogFits' /\ Truthful(ring', Spoken', Said')
  BY <1>1, SilentStep
<1>3. Settled' /\ RowsFit'
  BY <1>1 DEF LogInv, Settled, RowsFit
<1> QED
  BY <1>2, <1>3 DEF LogInv

LEMMA SetDebugModeFits ==
  ASSUME LogInv, NEW enabled \in BOOLEAN, SetDebugMode(enabled)
  PROVE  LogInv'
<1>1. /\ UNCHANGED <<link, now, upSince, base, errors, results, lastError, signatures, runs, pending, hushed>>
      /\ debug' = enabled /\ level' = (IF enabled THEN Debug ELSE base)
      /\ Logged(<<At(Info, Note("debug-mode"))>>, level')
  BY DEF SetDebugMode, Works, table
<1>2. Spoken \in SUBSET Checks /\ level' \in Levels
  BY <1>1 DEF Spoken, LogInv, Settled, Levels
<1>3. <<At(Info, Note("debug-mode"))>> \in Seq(Fitting(Spoken, Said))
  BY <1>2, NotesFit, PartsOfLines DEF Kinds
<1>4. LogFits' /\ Truthful(ring', Spoken', Said')
  BY <1>1, <1>2, <1>3, NotesLogged
<1>5. Settled' /\ RowsFit'
  BY <1>1, <1>2 DEF LogInv, Settled, RowsFit
<1> QED
  BY <1>4, <1>5 DEF LogInv

LEMMA ResetStateFits == LogInv /\ ResetState => LogInv'
<1> SUFFICES ASSUME LogInv, ResetState PROVE LogInv'
  OBVIOUS
<1> USE SettingsOfCapacity
<1>1. /\ UNCHANGED <<link, now, upSince, level, base, debug>>
      /\ results' = NoTimes(Pending) /\ lastError' = NoTimes(None) /\ runs' = NoTimes(0)
      /\ pending' = NoTimes(None) /\ hushed' = NoTimes(TRUE) /\ errors' = NewRing(ErrorCapacity)
      /\ Logged(<<At(Info, Note("reset"))>>, level)
  BY DEF ResetState, Works
<1>2. Pending \in [status : Shown, details : Details \cup {"pending", "executor exception"}] /\ Pending.status # "OK"
  BY DEF Pending, Shown
<1>3. level \in Levels /\ {} \in SUBSET Checks /\ Truthful(ring, {}, Said)
  BY DEF LogInv, Settled, Truthful
<1>4. <<At(Info, Note("reset"))>> \in Seq(Fitting({}, Said))
  BY NotesFit, PartsOfLines DEF Kinds
<1>5. LogFits'
  BY <1>1, <1>3, <1>4, LoggedFits
<1>6. Spoken' = {}
  BY <1>1 DEF Spoken, NoTimes
<1>7. Truthful(ring', Spoken', Said')
  BY <1>6 DEF Truthful
<1>8. RowsFit'
  BY <1>1, <1>2 DEF RowsFit, NoTimes
<1>9. Settled'
  <2>1. IsRing(errors', ErrorCapacity, {"startup", "check", "display", "network"})
    BY <1>1, NewRingFits
  <2> QED
    BY <1>1, <2>1 DEF LogInv, Settled
<1> QED
  BY <1>5, <1>7, <1>8, <1>9 DEF LogInv

LEMMA TimeFits == LogInv /\ (Tick \/ LinkChanges) => LogInv'
<1> SUFFICES ASSUME LogInv, Tick \/ LinkChanges PROVE LogInv'
  OBVIOUS
<1> USE SettingsOfCapacity
<1>1. /\ UNCHANGED <<level, base, debug, errors, ring, sink, silentAt>>
      /\ UNCHANGED <<results, lastError, signatures, runs, pending, hushed>>
  BY DEF Tick, LinkChanges, log, table
<1>2. RowsFit'
  BY <1>1 DEF LogInv, RowsFit
<1>3. Truthful(ring', Spoken', Said')
  <2>1. Spoken' = Spoken /\ Said' = Said
    BY <1>1 DEF Spoken, Said
  <2> QED
    BY <1>1, <2>1 DEF LogInv
<1>4. \/ now < MaxNow /\ now' = now + 1 /\ link' = link /\ upSince' = upSince
      \/ /\ now' = now /\ link' \in {"up", "noroute", "nodns"}
         /\ upSince' = IF link' = "up" THEN now ELSE upSince
  BY DEF Tick, LinkChanges
<1>5. Settled'
  BY <1>1, <1>4 DEF LogInv, Settled
<1>6. SinkFits(sink)' /\ SilenceFits(sink, silentAt)'
  BY <1>1, <1>4 DEF LogInv, LogFits, Settled, SinkFits, SilenceFits, Sinks
<1>7. LogFits'
  BY <1>1, <1>6 DEF LogInv, LogFits, ComplaintFits
<1> QED
  BY <1>2, <1>3, <1>5, <1>7 DEF LogInv

(* What every step keeps.                                                  *)
LEMMA LogInvKept == LogInv /\ [LogNext]_logVars => LogInv'
<1> SUFFICES ASSUME LogInv, [LogNext]_logVars PROVE LogInv'
  OBVIOUS
<1>1. CASE UNCHANGED logVars
  <2>1. UNCHANGED <<ring, sink, silentAt, link, now, upSince, level, base, debug, errors,
                    results, lastError, signatures, runs, pending, hushed>>
    BY <1>1 DEF logVars, log, table
  <2> QED
    BY <2>1, SilentStep DEF LogInv, Settled, RowsFit
<1>2. CASE LogNext
  BY <1>2, SerialLineFits, ReadyFits, ProbeEndsFits, ProbeRaisesFits, DrawnFits, DrawFailsFits,
     NetworkResultFits, PressFits, SetLogLevelFits, SetDebugModeFits, ResetStateFits, TimeFits DEF LogNext
<1> QED
  BY <1>1, <1>2

LEMMA LogInvImplies == LogInv => LogTypeOK /\ DumpTellsStatus /\ SilenceIsShort
<1> SUFFICES ASSUME LogInv PROVE LogTypeOK /\ DumpTellsStatus /\ SilenceIsShort
  OBVIOUS
<1>1. LogTypeOK
  <2>1. sink = None \/ (sink \in Sinks /\ sink.retryAt <= MaxNow + Retry)
    BY SettingsOfCapacity DEF LogInv, LogFits, SinkFits, Settled, Sinks
  <2>2. silentAt \in 0 .. now \cup {None}
    BY DEF LogInv, LogFits, SilenceFits
  <2> QED
    BY <2>1, <2>2 DEF LogTypeOK, LogInv, Settled, RowsFit, LogFits
<1>2. DumpTellsStatus
  <2>1. \A c \in Checks : ~ hushed[c] => \A i \in Newest(AllItems(ring), c) : AllItems(ring)[i].status = results[c].status
    BY DEF LogInv, Truthful, Spoken, Said
  <2> QED
    BY <1>1, <2>1 DEF DumpTellsStatus, LogInv, RowsFit
<1>3. SilenceIsShort
  BY DEF SilenceIsShort, LogInv, LogFits, SilenceFits, ComplaintFits
<1> QED
  BY <1>1, <1>2, <1>3

LEMMA LogInvAlways == LogSpec => []LogInv
BY StartFits, LogInvKept, PTL DEF LogSpec

(* However many lines the level, the summaries and the ring held back: the *)
(* newest line of a dump that names a check's status names the status of   *)
(* its last result, unless its last change came above level WARN or before *)
(* a reset, and the error beside a check is there exactly when its last    *)
(* result was not OK (_record_result, _track_status_transition,            *)
(* _log_display_propagation, RingBuffer), for every number of checks and   *)
(* every capacity.                                                         *)
THEOREM DumpsTellStatus == LogSpec => []DumpTellsStatus
BY LogInvAlways, LogInvImplies, PTL

(* Once the way to the syslog server is free it misses lines for less than *)
(* one retry interval, for every interval, and the log complains of a      *)
(* silent server at most once (UdpSyslogSink.emit).                        *)
THEOREM SilencesAreShort == LogSpec => []SilenceIsShort
BY LogInvAlways, LogInvImplies, PTL
===============================================================================
