--------------------------- MODULE DeviceLoopProofs ---------------------------
(***************************************************************************)
(* Proofs about DeviceLoop: the watchdog is fed in time, the probes of a   *)
(* host keep their gap, and what fails in a startup is on the screen.      *)
(***************************************************************************)
EXTENDS DeviceLoop, FiniteSetTheorems, TLAPS

(* The types that TypeOK leaves out, the batch, which is empty until there *)
(* are definitions, and the check that runs, which is not in it.           *)
MoreTypes ==
  /\ config.wdt \in BOOLEAN
  /\ phase \in {"config", "display", "logo", "reader", "checks"} => batch = {}
  /\ stage = "start" => cur \in batch
  /\ stage \in {"run", "session", "end"} => cur \in Checks \ batch

(* How long the watchdog has gone unfed, in the phases that have nothing   *)
(* to do with probes.                                                      *)
UnfedBetween ==
  /\ phase \in {"config", "display", "logo", "reader", "checks", "network", "first",
                "sleep"} => unfed = 0
  /\ phase \in {"selftest", "bootwait"} => unfed <= 1
  /\ phase = "connect" => unfed <= (IF conn.left = None THEN LongestUnfed ELSE 1)
  /\ phase = "tick" => unfed <= LongestUnfed

(* And while probes run: together with the time the probes that are left   *)
(* may take, it is never more than all checks of the device may take.      *)
UnfedInBatch ==
  phase \in {"prime", "run", "console"} =>
    /\ stage = "choose" => unfed + Load(batch) <= Load(Checks)
    /\ stage = "start" => unfed + Load(batch) <= Load(Checks) + Gap
    /\ stage = "run" => unfed + Load(batch) + LookupT + QuietEnd(cur) <= Load(Checks)
    /\ stage = "session" => unfed + Load(batch) + QuietEnd(cur) <= Load(Checks)
    /\ stage = "end" => unfed + Load(batch) <= Load(Checks)

FeedBound == UnfedBetween /\ UnfedInBatch

(* The clock that the code keeps agrees with the one the property is about,*)
(* and a check that has waited for its slot finds the gap over.            *)
SlotIsFree ==
  /\ sinceDone = sinceEnd
  /\ stage = "start" => sinceEnd[HostOf[cur]] \in {None, Gap}

(* Every failure has its line, and from the application on a failure has   *)
(* brought up the screen, until the loop runs and somebody may leave it.   *)
BeforeLoop == phase \in {"network", "bootwait", "prime"}
                \/ (phase = "connect" /\ conn.by = "startup")

FaultsAreShown ==
  /\ faults \subseteq lines
  /\ BeforeLoop /\ faults # {} => mode = "diagnostics"

IInv == TypeOK /\ MoreTypes /\ FeedBound /\ SlotIsFree /\ FaultsAreShown

-----------------------------------------------------------------------------
(* Types.                                                                  *)

(* Time that passes leaves every age in its range.                         *)
LEMMA AgesStayInRange ==
  ASSUME TypeOK, NEW n \in Nat, Elapse(n)
  PROVE  /\ sinceStart' \in [Checks -> 0..Due \cup {None}]
         /\ {sinceDone, sinceEnd}' \subseteq [Hosts -> 0..Gap \cup {None}]
         /\ link' \in BOOLEAN
<1>1. \A age, cap \in Nat : age <= cap => Older(age, n, cap) \in 0..cap \cup {None}
  BY DEF Older, Smaller
<1>2. \A cap : Older(None, n, cap) = None
  BY DEF Older
<1>3. Due \in Nat /\ Gap \in Nat
  BY TimesAssumption
<1>4. sinceStart' \in [Checks -> 0..Due \cup {None}]
  <2>1. \A c \in Checks : Older(sinceStart[c], n, Due) \in 0..Due \cup {None}
    BY <1>1, <1>2, <1>3 DEF TypeOK
  <2> QED
    BY <2>1 DEF Elapse
<1>5. {sinceDone, sinceEnd}' \subseteq [Hosts -> 0..Gap \cup {None}]
  <2>1. \A h \in Hosts : /\ Older(sinceDone[h], n, Gap) \in 0..Gap \cup {None}
                         /\ Older(sinceEnd[h], n, Gap) \in 0..Gap \cup {None}
    BY <1>1, <1>2, <1>3 DEF TypeOK
  <2> QED
    BY <2>1 DEF Elapse
<1> QED
  BY <1>4, <1>5 DEF Elapse

(* What a feed does to the watchdog's age, and time without one.           *)
LEMMA FeedStaysInRange ==
  /\ \A n \in Nat : Fed(n) => unfed' \in {0, n} /\ unfed' \in Nat
  /\ Fed(0) => unfed' = 0 /\ unfed' \in Nat
  /\ Fed(1) => unfed' \in {0, 1} /\ unfed' \in Nat
  /\ FedByConnector => unfed' = 0 /\ unfed' \in Nat
BY DEF Fed, FedByConnector

LEMMA UnfedStaysInRange ==
  ASSUME unfed \in Nat, NEW n \in Nat, Unfed(n)
  PROVE  unfed' \in Nat /\ unfed' <= unfed + n
BY DEF Unfed

(* The connector's record stays one.                                       *)
LEMMA ConnectorsBegin ==
  /\ Idle \in Connectors
  /\ \A by \in Callers : Asked(by) \in Connectors
<1>1. ConnectT \in Nat /\ Attempts \in Nat
  BY TimesAssumption DEF Attempts
<1> QED
  BY <1>1 DEF Connectors, Idle, Asked, Callers

LEMMA ConnectorsAttempt ==
  ASSUME NEW c \in Connectors, NEW a \in 0..Attempts, NEW l \in 0..ConnectT \cup {None}
  PROVE  /\ [c EXCEPT !.attempt = a, !.left = l] \in Connectors
         /\ [c EXCEPT !.attempt = a, !.left = l].by = c.by
         /\ [c EXCEPT !.attempt = a, !.left = l].left = l
BY DEF Connectors

LEMMA ConnectorsWait ==
  ASSUME NEW c \in Connectors, NEW l \in 0..ConnectT \cup {None}, NEW t \in 0..ConnectT
  PROVE  /\ [c EXCEPT !.left = l, !.total = t] \in Connectors
         /\ [c EXCEPT !.left = l, !.total = t].by = c.by
         /\ [c EXCEPT !.left = l, !.total = t].left = l
BY DEF Connectors

(* An age that starts again is in its range.                               *)
LEMMA AgesRestart ==
  ASSUME NEW f \in [Hosts -> 0..Gap \cup {None}], NEW h
  PROVE  [f EXCEPT ![h] = 0] \in [Hosts -> 0..Gap \cup {None}]
<1>1. 0 \in 0..Gap \cup {None}
  BY TimesAssumption
<1> QED
  BY <1>1

(* A quiet end takes its time.                                             *)
LEMMA QuietEndsAreFinite == \A c : QuietEnd(c) \in Nat
BY TimesAssumption DEF QuietEnd

(* A check waits for its host no longer than the gap.                      *)
LEMMA RemainingIsBounded ==
  ASSUME TypeOK, NEW c \in Checks
  PROVE  Remaining(c) \in 0..Gap
<1>1. Gap \in Nat /\ HostOf[c] \in Hosts
  BY TimesAssumption DEF Hosts
<1>2. sinceDone[HostOf[c]] \in 0..Gap \cup {None}
  BY <1>1 DEF TypeOK
<1> QED
  BY <1>1, <1>2 DEF Remaining

(* Every step keeps the types.                                             *)
LEMMA TypesStep ==
  ASSUME TypeOK, MoreTypes, [Next]_vars
  PROVE  TypeOK' /\ MoreTypes'
<1> USE DEF TypeOK, MoreTypes, Loops, built, report, ages, probe
<1>0. /\ ConnectT \in Nat \ {0} /\ {Gap, Due, Watchdog, LookupT, SessionT} \subseteq Nat
  BY TimesAssumption
<1>1. CASE LoadConfig
  BY <1>1 DEF LoadConfig, Works, Fails
<1>2. CASE BuildDisplay
  <2>1. family' \in {"oled", "eink"}
    BY <1>2 DEF BuildDisplay, DisplayWithFallback, Builds, FamilyOf
  <2>2. armed' \in BOOLEAN /\ unfed' = 0
    BY <1>2 DEF BuildDisplay, BootstrapWatchdog
  <2> QED
    <3>1. /\ phase = "display" /\ phase' = "logo"
          /\ UNCHANGED <<config, known, reader, defs, link, conn, batch, cur, stage, ages>>
      BY <1>2 DEF BuildDisplay
    <3>2. /\ batch' \subseteq defs' /\ batch' = {} /\ stage' = "choose"
          /\ cur' \in Checks \cup {None} /\ defs' \subseteq Checks
      BY <3>1
    <3>3. {known, reader, link, armed}' \subseteq BOOLEAN /\ unfed' \in Nat
      BY <1>0, <2>2, <3>1
    <3>4. MoreTypes'
      BY <3>1, <3>2
    <3> QED
      BY <2>1, <3>1, <3>2, <3>3, <3>4
<1>3. CASE ShowLogo
  BY <1>0, <1>3, FeedStaysInRange DEF ShowLogo
<1>4. CASE BuildButtonReader
  BY <1>0, <1>4 DEF BuildButtonReader, Works, Fails
<1>5. CASE BuildChecks
  <2>1. defs' \subseteq Checks
    BY <1>5 DEF BuildChecks, SafeBuildDefinitions, Configured
  <2> QED
    BY <1>0, <1>5, <2>1 DEF BuildChecks
<1>6. CASE SelfTest
  BY <1>0, <1>6, AgesStayInRange, FeedStaysInRange, UnfedStaysInRange DEF SelfTest
<1>7. CASE BuildApp
  BY <1>0, <1>7, FeedStaysInRange DEF BuildApp
<1>8. CASE StartupNetwork
  <2>1. conn' = conn \/ conn' = Asked("startup")
    BY <1>8 DEF StartupNetwork, ConnectNetwork
  <2> QED
    BY <1>0, <1>8, <2>1, ConnectorsBegin, FeedStaysInRange
       DEF StartupNetwork, ConnectNetwork, Callers, Connectors, Asked
<1>9. CASE WaitForBootLogo
  BY <1>0, <1>9, AgesStayInRange, FeedStaysInRange, UnfedStaysInRange DEF WaitForBootLogo
<1>10. CASE EnterLoop
  BY <1>0, <1>10, FeedStaysInRange DEF EnterLoop, DueChecks, Unstarted
<1>11. CASE Attempt
  <2>1. PICK a \in 0..Attempts, l \in 0..ConnectT \cup {None} :
          conn' = [conn EXCEPT !.attempt = a, !.left = l]
    <3>1. conn.attempt + 1 \in 0..Attempts
      BY <1>11 DEF Attempt, Attempts, Connectors
    <3>2. conn.total \div (Attempts - conn.attempt) \in 0..ConnectT
      <4>1. conn.total \in 0..ConnectT /\ Attempts - conn.attempt \in {1, 2, 3}
        BY <1>11 DEF Attempt, Attempts, Connectors
      <4> QED
        BY <1>0, <4>1
    <3>3. Greater(1, conn.total \div (Attempts - conn.attempt)) \in 0..ConnectT
      BY <1>0, <3>2 DEF Greater
    <3> QED
      BY <1>11, <3>1, <3>3 DEF Attempt
  <2>2. conn' \in Connectors /\ conn'.by = conn.by
    <3>1. conn \in Connectors
      OBVIOUS
    <3> QED
      BY ONLY <2>1, <3>1, ConnectorsAttempt
  <2> QED
    BY <1>0, <1>11, <2>2, FeedStaysInRange DEF Attempt
<1>12. CASE Poll
  <2>1. PICK l \in 0..ConnectT, t \in 0..ConnectT : conn' = [conn EXCEPT !.left = l, !.total = t]
    <3>1. conn.left - 1 \in 0..ConnectT /\ Greater(0, conn.total - 1) \in 0..ConnectT
      BY <1>0, <1>12 DEF Poll, Greater, Connectors
    <3> QED
      BY <1>12, <3>1 DEF Poll, Connectors
  <2>2. conn' \in Connectors /\ conn'.by = conn.by
    <3>1. conn \in Connectors
      OBVIOUS
    <3> QED
      BY ONLY <2>1, <3>1, ConnectorsWait
  <2> QED
    BY <1>0, <1>12, <2>2, AgesStayInRange, FeedStaysInRange DEF Poll, Connectors
<1>13. CASE Backoff
  <2>1. PICK n \in Nat : /\ conn' = [conn EXCEPT !.left = None, !.total = Greater(0, @ - n)]
                         /\ Elapse(n) /\ Unfed(n)
    <3>1. conn.attempt \in {1, 2}
      BY <1>13 DEF Backoff, Attempts
    <3>2. 2 ^ 0 \in Nat /\ 2 ^ 1 \in Nat
      OBVIOUS
    <3>3. 2 ^ (conn.attempt - 1) \in Nat
      <4>1. conn.attempt - 1 \in {0, 1}
        BY <3>1
      <4> QED
        BY <3>2, <4>1
    <3> QED
      BY <1>13, <3>3 DEF Backoff
  <2>2. PICK l \in 0..ConnectT \cup {None}, t \in 0..ConnectT :
          conn' = [conn EXCEPT !.left = l, !.total = t]
    <3>1. Greater(0, conn.total - n) \in 0..ConnectT
      BY <1>0 DEF Greater, Connectors
    <3> QED
      BY <2>1, <3>1 DEF Connectors
  <2>3. conn' \in Connectors /\ conn'.by = conn.by
    <3>1. conn \in Connectors
      OBVIOUS
    <3> QED
      BY ONLY <2>2, <3>1, ConnectorsWait
  <2> QED
    BY <1>0, <1>13, <2>1, <2>3, AgesStayInRange, UnfedStaysInRange DEF Backoff
<1>14. CASE ConnectReturns
  <2>1. conn' = Idle /\ phase' = After(conn.by) /\ FedByConnector
    BY <1>14 DEF ConnectReturns, Connected, NotConnected
  <2> QED
    BY <1>0, <1>14, <2>1, ConnectorsBegin, FeedStaysInRange
       DEF ConnectReturns, Connected, NotConnected, After, Connectors, Callers, Idle
<1>15. CASE CheckNetwork
  <2>1. batch' \subseteq defs
    BY <1>15 DEF CheckNetwork, DueChecks, Unstarted
  <2>2. CASE ~Online /\ IntervalOver
    <3>1. conn' = Asked("tick") /\ phase' = "connect" /\ link' = FALSE /\ stage' = "choose"
      BY <1>15, <2>2 DEF CheckNetwork, Reconnect
    <3>2. conn' \in Connectors /\ conn'.by = "tick"
      BY <3>1, ConnectorsBegin DEF Callers, Asked
    <3>3. unfed' \in Nat
      BY <1>15, <2>2, FeedStaysInRange DEF CheckNetwork
    <3>4. /\ UNCHANGED <<config, built, cur, armed, sinceStart, sinceDone, sinceEnd>>
      BY <1>15, <2>2 DEF CheckNetwork
    <3>5. MoreTypes'
      BY <3>1, <3>4
    <3> QED
      BY <2>1, <3>1, <3>2, <3>3, <3>4, <3>5
  <2>3. CASE ~(~Online /\ IntervalOver)
    BY <1>0, <1>15, <2>1, <2>3, FeedStaysInRange DEF CheckNetwork
  <2> QED
    BY <2>2, <2>3
<1>16. ASSUME NEW c \in Checks, WaitForProbeSlot(c) PROVE TypeOK' /\ MoreTypes'
  <2>1. PICK n \in 0..Gap : n = Remaining(c)
    BY RemainingIsBounded
  <2> QED
    BY <1>0, <1>16, <2>1, AgesStayInRange, FeedStaysInRange, UnfedStaysInRange, ChecksAssumption DEF WaitForProbeSlot
<1>17. CASE StartProbe
  BY <1>0, <1>17 DEF StartProbe
<1>18. CASE LookUp \/ RunSession
  <2>1. CASE LookUp
    BY <1>0, <2>1, AgesStayInRange, UnfedStaysInRange DEF LookUp
  <2>2. CASE RunSession
    <3>1. PICK n \in 0..SessionT, quiet \in 0..QuietEnd(cur) :
            Elapse(n + quiet) /\ IF n = 0 THEN Unfed(quiet) ELSE Fed(1 + quiet)
      BY <2>2 DEF RunSession
    <3>2. quiet \in Nat /\ 1 + quiet \in Nat /\ n + quiet \in Nat
      BY <1>0, QuietEndsAreFinite
    <3>3. unfed' \in Nat
      BY <3>1, <3>2, FeedStaysInRange, UnfedStaysInRange
    <3> QED
      BY <2>2, <3>1, <3>2, <3>3, AgesStayInRange DEF RunSession
  <2> QED
    BY <1>18, <2>1, <2>2
<1>19. CASE ProbeEnds
  <2>1. {sinceDone', sinceEnd'} \subseteq [Hosts -> 0..Gap \cup {None}]
    BY <1>0, <1>19, AgesRestart DEF ProbeEnds, MarkProbeComplete
  <2> QED
    BY <1>0, <1>19, <2>1 DEF ProbeEnds
<1>20. CASE EndPrime \/ TickEnds
  BY <1>0, <1>20, FeedStaysInRange DEF EndPrime, TickEnds
<1>21. CASE ConsoleReturns
  BY <1>0, <1>21, AgesStayInRange, FeedStaysInRange, UnfedStaysInRange DEF ConsoleReturns
<1>22. CASE Sleep
  BY <1>0, <1>22, AgesStayInRange, FeedStaysInRange, UnfedStaysInRange DEF Sleep
<1>23. CASE LeaveDiagnostics
  BY <1>0, <1>23 DEF LeaveDiagnostics
<1>24. CASE ResetRuntimeState
  BY <1>0, <1>24 DEF ResetRuntimeState, Never
<1>25. CASE ReconnectNetwork
  BY <1>0, <1>25, ConnectorsBegin, FeedStaysInRange
     DEF ReconnectNetwork, Reconnect, Callers, Connectors, Asked
<1>26. CASE RunAllChecks
  BY <1>0, <1>26 DEF RunAllChecks
<1>27. CASE StartupAborts
  BY <1>0, <1>27 DEF StartupAborts
<1>28. CASE TickRaises
  BY <1>0, <1>28, FeedStaysInRange DEF TickRaises
<1>29. CASE RequestReset \/ WatchdogBites
  <2>1. PowersUp
    BY <1>29 DEF RequestReset, WatchdogBites
  <2>2. conn' \in Connectors /\ conn'.by = "none"
    BY <2>1, ConnectorsBegin DEF PowersUp, Idle
  <2>3. /\ sinceStart' \in [Checks -> 0..Due \cup {None}]
        /\ {sinceDone, sinceEnd}' \subseteq [Hosts -> 0..Gap \cup {None}]
    BY <2>1 DEF PowersUp, Never
  <2>4. /\ phase' = "config" /\ family' = "oled" /\ {known, reader, link, armed}' \subseteq BOOLEAN
        /\ batch' = {} /\ defs' = {} /\ cur' = None /\ stage' = "choose" /\ unfed' = 0
    BY <2>1 DEF PowersUp
  <2>5. MoreTypes'
    BY <2>1, <2>4 DEF PowersUp
  <2> QED
    BY <1>0, <2>2, <2>3, <2>4, <2>5
<1>30. CASE UNCHANGED vars
  BY <1>0, <1>30 DEF vars
<1> QED
  BY <1>1, <1>2, <1>3, <1>4, <1>5, <1>6, <1>7, <1>8, <1>9, <1>10, <1>11, <1>12, <1>13, <1>14,
     <1>15, <1>16, <1>17, <1>18, <1>19, <1>20, <1>21, <1>22, <1>23, <1>24, <1>25, <1>26, <1>27,
     <1>28, <1>29, <1>30 DEF Next, Device, Startup, Connect, Tick, Console

-----------------------------------------------------------------------------
(* The watchdog.                                                           *)

(* Products, for the solver.                                               *)
LEMMA Distribution ==
  ASSUME NEW a \in Nat, NEW b \in Nat, NEW s \in Nat
  PROVE  /\ a * s \in Nat /\ (a + 1) * s = a * s + s
         /\ a <= b => a * s <= b * s
OBVIOUS

(* The load of a set of checks: bounded by that of all, and a check less   *)
(* takes its slot and its quiet end off.                                   *)
LEMMA LoadIs ==
  ASSUME NEW S \in SUBSET Checks
  PROVE  /\ Load(S) \in Nat /\ Load(S) <= Load(Checks)
         /\ \A c \in S : Load(S) = Load(S \ {c}) + Slot + QuietEnd(c)
         /\ \A c \in Checks \ S : Load(S) + Slot + QuietEnd(c) <= Load(Checks)
<1> DEFINE Q(T) == T \cap Quiet
<1>1. Slot \in Nat /\ QuietT \in Nat
  BY TimesAssumption DEF Slot
<1>2. ASSUME NEW T \in SUBSET Checks
      PROVE  /\ IsFiniteSet(T) /\ IsFiniteSet(Q(T))
             /\ Cardinality(T) \in Nat /\ Cardinality(Q(T)) \in Nat
  <2>1. IsFiniteSet(T)
    BY FS_Subset, ChecksAssumption
  <2>2. IsFiniteSet(Q(T))
    BY <2>1, FS_Subset
  <2> QED
    BY <2>1, <2>2, FS_CardinalityType
<1>3. ASSUME NEW T \in SUBSET Checks, NEW U \in SUBSET Checks, T \subseteq U
      PROVE  Load(T) \in Nat /\ Load(T) <= Load(U)
  <2>1. /\ Cardinality(T) <= Cardinality(U)
        /\ Cardinality(Q(T)) <= Cardinality(Q(U))
    BY <1>2, <1>3, FS_Subset
  <2>2. Cardinality(T) * Slot <= Cardinality(U) * Slot
    BY <1>1, <1>2, <2>1, Distribution
  <2>3. Cardinality(Q(T)) * QuietT <= Cardinality(Q(U)) * QuietT
    BY <1>1, <1>2, <2>1, Distribution
  <2>4. /\ Cardinality(T) * Slot \in Nat /\ Cardinality(U) * Slot \in Nat
        /\ Cardinality(Q(T)) * QuietT \in Nat /\ Cardinality(Q(U)) * QuietT \in Nat
    BY <1>1, <1>2, Distribution
  <2> QED
    BY <2>2, <2>3, <2>4 DEF Load
<1>4. ASSUME NEW T \in SUBSET Checks, NEW c \in Checks \ T
      PROVE  Load(T \cup {c}) = Load(T) + Slot + QuietEnd(c)
  <2>1. Cardinality(T \cup {c}) = Cardinality(T) + 1
    BY <1>2, FS_AddElement
  <2>2. Cardinality(T \cup {c}) * Slot = Cardinality(T) * Slot + Slot
    BY <1>1, <1>2, <2>1, Distribution
  <2>3. Cardinality(Q(T \cup {c})) * QuietT = Cardinality(Q(T)) * QuietT + QuietEnd(c)
    <3>1. CASE c \in Quiet
      <4>1. Q(T \cup {c}) = Q(T) \cup {c} /\ c \notin Q(T)
        BY <3>1
      <4>2. Cardinality(Q(T \cup {c})) = Cardinality(Q(T)) + 1
        BY <1>2, <4>1, FS_AddElement
      <4>3. (Cardinality(Q(T)) + 1) * QuietT = Cardinality(Q(T)) * QuietT + QuietT
        BY <1>1, <1>2, Distribution
      <4>4. QuietEnd(c) = QuietT
        BY <3>1 DEF QuietEnd
      <4> HIDE DEF Q
      <4>5. Cardinality(Q(T \cup {c})) * QuietT = (Cardinality(Q(T)) + 1) * QuietT
        BY ONLY <4>2
      <4> QED
        BY ONLY <4>3, <4>4, <4>5
    <3>2. CASE c \notin Quiet
      <4>1. Q(T \cup {c}) = Q(T)
        BY <3>2
      <4>2. Cardinality(Q(T)) * QuietT \in Nat
        BY <1>1, <1>2, Distribution
      <4>3. QuietEnd(c) = 0
        BY <3>2 DEF QuietEnd
      <4>4. Cardinality(Q(T \cup {c})) * QuietT = Cardinality(Q(T)) * QuietT
        BY ONLY <4>1
      <4> HIDE DEF Q
      <4> QED
        BY ONLY <4>2, <4>3, <4>4
    <3> QED
      BY <3>1, <3>2
  <2>4. /\ Cardinality(T) * Slot \in Nat /\ Cardinality(Q(T)) * QuietT \in Nat
        /\ QuietEnd(c) \in Nat
    BY <1>1, <1>2, Distribution, QuietEndsAreFinite
  <2> QED
    BY <1>1, <2>2, <2>3, <2>4 DEF Load
<1>5. ASSUME NEW c \in S PROVE Load(S) = Load(S \ {c}) + Slot + QuietEnd(c)
  <2>1. (S \ {c}) \cup {c} = S /\ S \ {c} \in SUBSET Checks /\ c \in Checks \ (S \ {c})
    OBVIOUS
  <2>2. Load((S \ {c}) \cup {c}) = Load(S \ {c}) + Slot + QuietEnd(c)
    BY <1>4, <2>1
  <2> QED
    BY <2>1, <2>2
<1>6. ASSUME NEW c \in Checks \ S PROVE Load(S) + Slot + QuietEnd(c) <= Load(Checks)
  <2>1. S \cup {c} \in SUBSET Checks
    OBVIOUS
  <2>2. Load(S \cup {c}) <= Load(Checks)
    BY <1>3, <2>1
  <2> QED
    BY <1>4, <2>2
<1> QED
  BY <1>3, <1>5, <1>6

(* The probes of all checks fit, and so does a wait between two attempts.  *)
LEMMA EverythingFits ==
  /\ Load(Checks) \in Nat /\ Load(Checks) + 1 <= LongestUnfed
  /\ LongestUnfed \in Nat /\ 1 <= LongestUnfed
  /\ 2 ^ 0 + 1 <= LongestUnfed /\ 2 ^ 1 + 1 <= LongestUnfed
<1>1. Load(Checks) \in Nat
  BY LoadIs
<1>2. Attempts - 2 = 1
  BY DEF Attempts
<1>3. 2 ^ 0 <= 2 ^ 1 /\ 2 ^ 0 \in Nat /\ 2 ^ 1 \in Nat
  OBVIOUS
<1>4. LongestUnfed = Greater(Load(Checks), 2 ^ 1) + 1
  BY <1>2 DEF LongestUnfed
<1> HIDE DEF Load
<1> QED
  BY <1>1, <1>3, <1>4 DEF Greater

(* Every step keeps the bound on the time without a feed: what goes        *)
(* unfed in a probe is taken out of the load of the checks that are left,  *)
(* and the phases between the batches feed.                                *)
LEMMA FeedStep ==
  ASSUME TypeOK, MoreTypes, FeedBound, [Next]_vars
  PROVE  FeedBound'
<1> USE DEF FeedBound, UnfedBetween, built, report, ages, probe
<1> HIDE DEF UnfedInBatch
<1>0. unfed \in Nat /\ batch \in SUBSET Checks
  BY DEF TypeOK
<1>1. CASE LoadConfig
  BY <1>1 DEF LoadConfig, UnfedInBatch
<1>2. CASE BuildDisplay
  BY <1>2 DEF BuildDisplay, BootstrapWatchdog, UnfedInBatch
<1>3. CASE ShowLogo
  BY <1>3, FeedStaysInRange DEF ShowLogo, UnfedInBatch
<1>4. CASE BuildButtonReader
  BY <1>4 DEF BuildButtonReader, UnfedInBatch
<1>5. CASE BuildChecks
  BY <1>5 DEF BuildChecks, UnfedInBatch
<1>6. CASE SelfTest
  BY <1>6, FeedStaysInRange DEF SelfTest, UnfedInBatch
<1>7. CASE BuildApp
  BY <1>7, FeedStaysInRange DEF BuildApp, UnfedInBatch
<1>8. CASE StartupNetwork
  BY <1>8, FeedStaysInRange, EverythingFits
     DEF StartupNetwork, ConnectNetwork, UnfedInBatch
<1>9. CASE WaitForBootLogo
  BY <1>9, FeedStaysInRange DEF WaitForBootLogo, UnfedInBatch
<1>10. CASE EnterLoop
  <2>1. DueChecks \in SUBSET Checks /\ stage = "choose"
    BY <1>10 DEF EnterLoop, DueChecks, Unstarted, TypeOK
  <2> QED
    <3>1. CASE family = "eink"
      BY <1>0, <1>10, <3>1, EverythingFits DEF EnterLoop, UnfedInBatch
    <3>2. CASE family # "eink"
      <4>1. /\ phase' = "prime" /\ unfed' = 0 /\ stage' = "choose" /\ batch' \in SUBSET Checks
        BY <1>10, <2>1, <3>2, FeedStaysInRange DEF EnterLoop
      <4> QED
        BY <4>1, EverythingFits, LoadIs DEF UnfedInBatch
    <3> QED
      BY <3>1, <3>2
<1>11. CASE Attempt
  BY <1>11, FeedStaysInRange, EverythingFits DEF Attempt, UnfedInBatch
<1>12. CASE Poll
  BY <1>12, FeedStaysInRange, EverythingFits DEF Poll, UnfedInBatch
<1>13. CASE Backoff
  <2>1. conn.attempt \in {1, 2} /\ conn.left = 0 /\ None # 0 /\ unfed <= 1
    BY <1>13, ChecksAssumption DEF Backoff, Attempts
  <2>2. PICK n \in Nat : n = 2 ^ (conn.attempt - 1) /\ n + 1 <= LongestUnfed
    <3>1. 2 ^ 0 \in Nat /\ 2 ^ 1 \in Nat
      OBVIOUS
    <3>2. conn.attempt - 1 \in {0, 1}
      BY <2>1
    <3> QED
      BY <3>1, <3>2, EverythingFits
  <2>3. Unfed(n) /\ phase' = "connect" /\ conn'.left = None
    BY <1>13, <2>2 DEF Backoff, TypeOK, Connectors
  <2>4. unfed' <= LongestUnfed
    BY <1>0, <2>1, <2>2, <2>3, EverythingFits, UnfedStaysInRange
  <2> QED
    BY <2>3, <2>4 DEF UnfedInBatch
<1>14. CASE ConnectReturns
  <2>1. unfed' = 0 /\ phase' \in {"bootwait", "run", "sleep"} /\ stage' = "choose" /\ batch' = batch
    BY <1>14, FeedStaysInRange
       DEF ConnectReturns, Connected, NotConnected, After, TypeOK
  <2> QED
    BY <1>0, <2>1, LoadIs, EverythingFits DEF UnfedInBatch
<1>15. CASE CheckNetwork
  <2>1. unfed' = 0 /\ phase' \in {"connect", "run"} /\ stage' = "choose" /\ batch' \in SUBSET Checks
    BY <1>15, FeedStaysInRange DEF CheckNetwork, Reconnect, DueChecks, Unstarted, TypeOK
  <2> QED
    BY <2>1, LoadIs, EverythingFits DEF UnfedInBatch
<1>16. ASSUME NEW c \in Checks, WaitForProbeSlot(c) PROVE FeedBound'
  <2>1. PICK n \in 0..Gap : n = Remaining(c)
    BY RemainingIsBounded
  <2>2. Unfed(n) /\ phase' = phase /\ phase \in {"prime", "run", "console"}
        /\ stage = "choose" /\ stage' = "start" /\ batch' = batch
    BY <1>16, <2>1 DEF WaitForProbeSlot
  <2>3. unfed' <= unfed + n /\ n <= Gap /\ unfed' \in Nat /\ Gap \in Nat
    BY <1>0, <2>2, UnfedStaysInRange, TimesAssumption
  <2>4. unfed' + Load(batch) <= Load(Checks) + Gap
    BY <1>0, <2>2, <2>3, LoadIs, EverythingFits DEF UnfedInBatch
  <2> QED
    BY <2>2, <2>4 DEF UnfedInBatch
<1>17. CASE StartProbe
  <2>1. /\ phase \in {"prime", "run", "console"} /\ phase' = phase
        /\ stage = "start" /\ stage' = "run"
        /\ cur \in batch /\ batch' = batch \ {cur} /\ unfed' = unfed
    BY <1>17 DEF StartProbe, TypeOK, MoreTypes
  <2>2. Load(batch) = Load(batch') + Slot + QuietEnd(cur) /\ Load(batch') \in Nat
    BY <1>0, <2>1, LoadIs
  <2>3. LookupT \in Nat /\ Gap \in Nat /\ QuietEnd(cur) \in Nat /\ cur' = cur
    BY <1>17, TimesAssumption, QuietEndsAreFinite DEF StartProbe
  <2>4. unfed' + Load(batch') + LookupT + QuietEnd(cur) <= Load(Checks)
    BY <1>0, <2>1, <2>2, <2>3, EverythingFits DEF UnfedInBatch, Slot
  <2> QED
    BY <2>1, <2>3, <2>4 DEF UnfedInBatch, QuietEnd
<1>18. CASE LookUp \/ RunSession
  <2>1. /\ phase \in {"prime", "run", "console"} /\ phase' = phase
        /\ batch' = batch /\ cur' = cur /\ cur \in Checks \ batch
    BY <1>18 DEF LookUp, RunSession, TypeOK, MoreTypes
  <2>2. LookupT \in Nat /\ QuietEnd(cur) \in Nat /\ QuietEnd(cur') = QuietEnd(cur)
        /\ Load(batch) \in Nat /\ Load(Checks) \in Nat /\ Load(batch') = Load(batch)
    BY <1>0, <2>1, TimesAssumption, QuietEndsAreFinite, LoadIs, EverythingFits
  <2>3. CASE LookUp
    <3>1. stage = "run" /\ stage' \in {"session", "end"}
      BY <2>3 DEF LookUp
    <3>2. unfed' \in Nat /\ unfed' <= unfed + LookupT
      BY <1>0, <2>2, <2>3, UnfedStaysInRange DEF LookUp
    <3>3. unfed' + Load(batch) + QuietEnd(cur) <= Load(Checks)
      BY <1>0, <2>1, <2>2, <3>1, <3>2 DEF UnfedInBatch
    <3> QED
      BY <2>1, <2>2, <3>1, <3>2, <3>3 DEF UnfedInBatch
  <2>4. CASE RunSession
    <3>1. stage = "session" /\ stage' = "end"
      BY <2>4 DEF RunSession
    <3>2. PICK quiet \in 0..QuietEnd(cur) : Unfed(quiet) \/ Fed(1 + quiet)
      BY <2>4 DEF RunSession
    <3>3. CASE Unfed(quiet)
      <4>1. unfed' \in Nat /\ unfed' <= unfed + QuietEnd(cur)
        BY <1>0, <2>2, <3>2, <3>3, UnfedStaysInRange
      <4>2. unfed' + Load(batch) <= Load(Checks)
        BY <1>0, <2>1, <2>2, <3>1, <4>1 DEF UnfedInBatch
      <4> QED
        BY <2>1, <2>2, <3>1, <4>1, <4>2 DEF UnfedInBatch
    <3>4. CASE Fed(1 + quiet)
      <4>1. Slot \in Nat /\ Slot >= 1
        BY TimesAssumption DEF Slot
      <4>2. unfed' \in Nat /\ unfed' <= 1 + QuietEnd(cur)
        <5>1. 1 + quiet \in Nat
          BY <2>2
        <5>2. unfed' \in {0, 1 + quiet}
          BY <3>4, <5>1, FeedStaysInRange
        <5> QED
          BY <2>2, <5>1, <5>2
      <4>3. Load(batch) + Slot + QuietEnd(cur) <= Load(Checks)
        BY <1>0, <2>1, LoadIs
      <4>4. unfed' + Load(batch) <= Load(Checks)
        BY <2>2, <4>1, <4>2, <4>3
      <4> QED
        BY <2>1, <2>2, <3>1, <4>4 DEF UnfedInBatch
    <3> QED
      BY <3>2, <3>3, <3>4
  <2> QED
    BY <1>18, <2>3, <2>4
<1>19. CASE ProbeEnds
  BY <1>19 DEF ProbeEnds, UnfedInBatch, TypeOK, MoreTypes
<1>20. CASE EndPrime \/ TickEnds
  BY <1>20, FeedStaysInRange DEF EndPrime, TickEnds, UnfedInBatch
<1>21. CASE ConsoleReturns
  <2>1. Unfed(1) /\ phase' = "tick" /\ unfed + Load(batch) <= Load(Checks)
    BY <1>21 DEF ConsoleReturns, UnfedInBatch
  <2>2. unfed' <= LongestUnfed
    BY <1>0, <2>1, UnfedStaysInRange, LoadIs, EverythingFits
  <2> QED
    BY <2>1, <2>2 DEF UnfedInBatch
<1>22. CASE Sleep
  BY <1>22, FeedStaysInRange, EverythingFits DEF Sleep, UnfedInBatch
<1>23. CASE LeaveDiagnostics
  BY <1>23 DEF LeaveDiagnostics, UnfedInBatch
<1>24. CASE ResetRuntimeState
  BY <1>24 DEF ResetRuntimeState, UnfedInBatch
<1>25. CASE ReconnectNetwork
  BY <1>25, FeedStaysInRange, EverythingFits DEF ReconnectNetwork, Reconnect, UnfedInBatch
<1>26. CASE RunAllChecks
  <2>1. /\ unfed' = 0 /\ phase' = "console" /\ stage' = "choose" /\ batch' \in SUBSET Checks
    BY <1>26 DEF RunAllChecks, TypeOK
  <2> QED
    BY <2>1, LoadIs, EverythingFits DEF UnfedInBatch
<1>27. CASE StartupAborts
  BY <1>27 DEF StartupAborts, UnfedInBatch
<1>28. CASE TickRaises
  BY <1>28, FeedStaysInRange DEF TickRaises, UnfedInBatch
<1>29. CASE RequestReset \/ WatchdogBites
  BY <1>29 DEF RequestReset, WatchdogBites, PowersUp, UnfedInBatch
<1>30. CASE UNCHANGED vars
  BY <1>30 DEF vars, UnfedInBatch
<1> QED
  BY <1>1, <1>2, <1>3, <1>4, <1>5, <1>6, <1>7, <1>8, <1>9, <1>10, <1>11, <1>12, <1>13, <1>14,
     <1>15, <1>16, <1>17, <1>18, <1>19, <1>20, <1>21, <1>22, <1>23, <1>24, <1>25, <1>26, <1>27,
     <1>28, <1>29, <1>30 DEF Next, Device, Startup, Connect, Tick, Console

-----------------------------------------------------------------------------
(* The gap and the startup's faults.                                       *)

(* The code's clock and the history of ends start again together, and the  *)
(* wait before a probe is what is missing of the gap.                      *)
LEMMA SlotStep ==
  ASSUME TypeOK, MoreTypes, SlotIsFree, [Next]_vars
  PROVE  SlotIsFree'
<1> USE DEF SlotIsFree, built, report, ages, probe
<1>1. CASE UNCHANGED <<sinceDone, sinceEnd, cur, stage>>
  BY <1>1
<1>2. CASE stage # "start" /\ stage' # "start" /\ (\E n \in Nat : Elapse(n))
  BY <1>2 DEF Elapse
<1>3. ASSUME NEW c \in Checks, WaitForProbeSlot(c) PROVE SlotIsFree'
  <2>1. PICK n \in 0..Gap : n = Remaining(c)
    BY RemainingIsBounded
  <2>2. Elapse(n) /\ cur' = c
    BY <1>3, <2>1 DEF WaitForProbeSlot
  <2>3. sinceDone' = sinceEnd'
    BY <2>2 DEF Elapse
  <2>4. sinceEnd'[HostOf[c]] \in {None, Gap}
    <3>1. HostOf[c] \in Hosts /\ Gap \in Nat
      BY TimesAssumption DEF Hosts
    <3>2. sinceEnd'[HostOf[c]] = Older(sinceEnd[HostOf[c]], n, Gap)
      BY <2>2, <3>1 DEF Elapse
    <3>3. sinceEnd[HostOf[c]] \in 0..Gap \cup {None}
      BY <3>1 DEF TypeOK
    <3> QED
      BY <2>1, <3>1, <3>2, <3>3 DEF Older, Smaller, Remaining
  <2> QED
    BY <2>2, <2>3, <2>4
<1>4. CASE ProbeEnds
  BY <1>4 DEF ProbeEnds, MarkProbeComplete
<1>5. CASE StartProbe
  BY <1>5 DEF StartProbe
<1>6. CASE LookUp \/ RunSession
  <2>1. \E n \in Nat : Elapse(n)
    <3>1. CASE LookUp
      BY <3>1, TimesAssumption DEF LookUp
    <3>2. CASE RunSession
      <4>1. \A n \in 0..SessionT, quiet \in 0..QuietEnd(cur) : n + quiet \in Nat
        BY TimesAssumption, QuietEndsAreFinite
      <4> QED
        BY <3>2, <4>1 DEF RunSession
    <3> QED
      BY <1>6, <3>1, <3>2
  <2> QED
    BY <1>2, <1>6, <2>1 DEF LookUp, RunSession
<1>7. CASE SelfTest \/ WaitForBootLogo \/ Poll \/ Backoff \/ ConsoleReturns \/ Sleep
  BY <1>7 DEF SelfTest, WaitForBootLogo, Poll, Backoff, ConsoleReturns, Sleep, Elapse, TypeOK
<1>8. CASE ResetRuntimeState \/ RequestReset \/ WatchdogBites
  BY <1>8 DEF ResetRuntimeState, RequestReset, WatchdogBites, PowersUp, TypeOK
<1>9. CASE LoadConfig \/ BuildDisplay \/ ShowLogo \/ BuildButtonReader \/ BuildChecks \/ BuildApp
             \/ StartupNetwork \/ StartupAborts \/ Attempt \/ ConnectReturns
  BY <1>1, <1>9 DEF LoadConfig, BuildDisplay, ShowLogo, BuildButtonReader, BuildChecks, BuildApp,
     StartupNetwork, StartupAborts, Attempt, ConnectReturns, Connected, NotConnected
<1>10. CASE EnterLoop \/ CheckNetwork \/ EndPrime \/ TickEnds \/ TickRaises
             \/ LeaveDiagnostics \/ ReconnectNetwork \/ RunAllChecks
  BY <1>10 DEF EnterLoop, CheckNetwork, Reconnect, EndPrime, TickEnds, TickRaises,
     LeaveDiagnostics, ReconnectNetwork, RunAllChecks, TypeOK
<1>11. CASE UNCHANGED vars
  BY <1>1, <1>11 DEF vars
<1> QED
  BY <1>3, <1>4, <1>5, <1>6, <1>7, <1>8, <1>9, <1>10, <1>11
     DEF Next, Device, Startup, Connect, Tick, Console

(* A failure of the startup has its line as soon as it is one.             *)
LEMMA FaultsStep ==
  ASSUME TypeOK, FaultsAreShown, [Next]_vars
  PROVE  FaultsAreShown'
<1> USE DEF FaultsAreShown, BeforeLoop, built, report, ages, probe
<1>1. CASE LoadConfig \/ BuildDisplay \/ ShowLogo \/ BuildButtonReader \/ BuildChecks
  <2>1. \/ UNCHANGED <<faults, lines>>
        \/ \E events : faults' = faults \cup events /\ lines' = lines \cup events
    BY <1>1 DEF LoadConfig, BuildDisplay, DisplayWithFallback, ShowLogo, SafeShowBootLogo,
       BuildButtonReader, BuildChecks, SafeBuildDefinitions, Works, Fails
  <2>2. ~BeforeLoop'
    BY <1>1 DEF LoadConfig, BuildDisplay, ShowLogo, BuildButtonReader, BuildChecks
  <2> QED
    BY <2>1, <2>2
<1>2. CASE BuildApp
  BY <1>2 DEF BuildApp, Works, ModeAfter
<1>3. CASE SelfTest \/ StartupAborts
  BY <1>3 DEF SelfTest, StartupAborts
<1>4. CASE StartupNetwork
  BY <1>4 DEF StartupNetwork, ConnectNetwork, Asked
<1>5. CASE WaitForBootLogo \/ EnterLoop
  BY <1>5 DEF WaitForBootLogo, EnterLoop
<1>6. CASE Attempt \/ Poll \/ Backoff
  <2>1. conn'.by = conn.by
    BY <1>6 DEF Attempt, Poll, Backoff, TypeOK, Connectors
  <2> QED
    BY <1>6, <2>1 DEF Attempt, Poll, Backoff
<1>7. CASE ConnectReturns
  <2>1. faults' = faults /\ lines \subseteq lines' /\ phase' = After(conn.by) /\ phase = "connect"
    BY <1>7 DEF ConnectReturns, Connected, NotConnected, WithLine
  <2>2. mode' \in {mode, "diagnostics"}
    BY <1>7 DEF ConnectReturns, Connected, NotConnected, ModeAfter
  <2> QED
    BY <2>1, <2>2 DEF After
<1>8. CASE CheckNetwork \/ ReconnectNetwork
  BY <1>8 DEF CheckNetwork, ReconnectNetwork, Reconnect, Asked
<1>9. ASSUME NEW c \in Checks, WaitForProbeSlot(c) PROVE FaultsAreShown'
  BY <1>9 DEF WaitForProbeSlot
<1>10. CASE StartProbe \/ LookUp \/ RunSession \/ ProbeEnds
  BY <1>10 DEF StartProbe, LookUp, RunSession, ProbeEnds
<1>11. CASE EndPrime \/ TickEnds \/ TickRaises \/ ConsoleReturns \/ Sleep
  BY <1>11 DEF EndPrime, TickEnds, TickRaises, ConsoleReturns, Sleep
<1>12. CASE LeaveDiagnostics \/ ResetRuntimeState \/ RunAllChecks
  BY <1>12 DEF LeaveDiagnostics, ResetRuntimeState, RunAllChecks
<1>13. CASE RequestReset \/ WatchdogBites
  BY <1>13 DEF RequestReset, WatchdogBites, PowersUp
<1>14. CASE UNCHANGED vars
  BY <1>14 DEF vars
<1> QED
  BY <1>1, <1>2, <1>3, <1>4, <1>5, <1>6, <1>7, <1>8, <1>9, <1>10, <1>11, <1>12, <1>13, <1>14
     DEF Next, Device, Startup, Connect, Tick, Console

-----------------------------------------------------------------------------

(* The invariant is inductive and holds from the power-up on.              *)
LEMMA InvariantHolds == Spec => []IInv
<1>1. Init => IInv
  <2> SUFFICES ASSUME Init PROVE IInv
    OBVIOUS
  <2>1. TypeOK /\ MoreTypes
    <3>1. conn \in Connectors /\ conn.by = "none" /\ phase = "config"
      BY ConnectorsBegin DEF Init, Idle
    <3>2. /\ sinceStart \in [Checks -> 0..Due \cup {None}]
          /\ {sinceDone, sinceEnd} \subseteq [Hosts -> 0..Gap \cup {None}]
      BY DEF Init, Never
    <3>3. unfed \in Nat
      BY DEF Init
    <3> QED
      BY <3>1, <3>2, <3>3 DEF Init, TypeOK, MoreTypes
  <2>2. FeedBound /\ SlotIsFree /\ FaultsAreShown
    BY DEF Init, FeedBound, UnfedBetween, UnfedInBatch, SlotIsFree, FaultsAreShown, Never,
       BeforeLoop
  <2> QED
    BY <2>1, <2>2 DEF IInv
<1>2. IInv /\ [Next]_vars => IInv'
  BY TypesStep, FeedStep, SlotStep, FaultsStep DEF IInv
<1> QED
  BY <1>1, <1>2, PTL DEF Spec

(* Wherever the program is, the watchdog is left unfed no longer than the  *)
(* lookups, the gaps and the quiet reads of one batch may take, for every  *)
(* number of checks, all their hosts and all times (_feed_watchdog and the *)
(* places that call it).                                                   *)
THEOREM WatchdogIsFedInTime == Spec => []FedInTime
<1>1. IInv => FedInTime
  <2> SUFFICES ASSUME IInv, phase # "stopped" PROVE unfed <= LongestUnfed
    BY DEF IInv, FedInTime
  <2> USE EverythingFits DEF IInv, FeedBound, UnfedBetween
  <2>1. unfed \in Nat /\ batch \in SUBSET Checks
    BY DEF TypeOK
  <2>2. CASE phase \in {"prime", "run", "console"}
    <3>1. LookupT \in Nat /\ Gap \in Nat /\ Slot = LookupT + Gap /\ QuietEnd(cur) \in Nat
      BY TimesAssumption, QuietEndsAreFinite DEF Slot
    <3>2. CASE stage = "start"
      <4>1. cur \in batch
        BY <3>2 DEF MoreTypes
      <4>2. Load(batch) >= Slot
        <5>1. batch \ {cur} \in SUBSET Checks
          BY <2>1
        <5>2. Load(batch \ {cur}) \in Nat
          BY <5>1, LoadIs
        <5>3. Load(batch) = Load(batch \ {cur}) + Slot + QuietEnd(cur)
          BY <2>1, <4>1, LoadIs
        <5> QED
          BY ONLY <3>1, <5>2, <5>3
      <4> QED
        BY <2>1, <2>2, <3>1, <3>2, <4>2, LoadIs DEF UnfedInBatch
    <3>3. CASE stage \in {"choose", "run", "session", "end"}
      BY <2>1, <2>2, <3>1, <3>3, LoadIs DEF UnfedInBatch
    <3> QED
      BY <3>2, <3>3 DEF TypeOK
  <2>3. CASE phase \notin {"prime", "run", "console"}
    BY <2>1, <2>3 DEF TypeOK, Loops
  <2> QED
    BY <2>2, <2>3
<1> QED
  BY <1>1, InvariantHolds, PTL

(* A device whose watchdog has room for that is reset by it only when its  *)
(* program has stopped, after a startup that was aborted.                  *)
THEOREM RunningDevicesAreNotReset ==
  ASSUME LongestUnfed <= Watchdog
  PROVE  Spec => [][WatchdogBites => phase = "stopped"]_vars
<1>1. FedInTime => (WatchdogBites => phase = "stopped")
  <2> SUFFICES ASSUME FedInTime, phase # "stopped" PROVE ~(unfed > Watchdog)
    BY DEF WatchdogBites
  <2>1. unfed \in Nat /\ unfed <= LongestUnfed
    BY DEF FedInTime, TypeOK
  <2>2. LongestUnfed \in Nat /\ Watchdog \in Nat
    BY EverythingFits, TimesAssumption
  <2> QED
    BY ONLY <2>1, <2>2, LongestUnfed <= Watchdog
<1>2. FedInTime => [WatchdogBites => phase = "stopped"]_vars
  BY <1>1
<1> QED
  BY <1>2, WatchdogIsFedInTime, PTL

(* A probe starts no sooner than the gap after the last one of its host    *)
(* ended (_wait_for_probe_slot, _mark_probe_complete).                     *)
THEOREM HostsAreLeftTheGap == Spec => GapIsKept
<1>1. IInv /\ [Next]_vars
        => [stage = "start" /\ stage' = "run" => sinceEnd[HostOf[cur]] \in {None, Gap}]_vars
  BY DEF IInv, SlotIsFree
<1> QED
  BY <1>1, InvariantHolds, PTL DEF Spec, GapIsKept

(* Whatever failed in a startup is on the diagnostics screen, which the    *)
(* startup has brought up when its loop begins (_boot_diagnostic,          *)
(* inject_diagnostics).                                                    *)
THEOREM StartupFaultsAreReported == Spec => []StartupIsReported
<1>1. IInv => StartupIsReported
  BY DEF IInv, FaultsAreShown, BeforeLoop, StartupIsReported
<1> QED
  BY <1>1, InvariantHolds, PTL
=============================================================================
