-------------------------- MODULE DisplayLoopProofs --------------------------
(***************************************************************************)
(* What DisplayLoop promises, for any number of checks, any intervals, any *)
(* limits on failures and any bounds on time, probes and failed draws.     *)
(***************************************************************************)
EXTENDS DisplayLoop, NaturalsInduction, WellFoundedInduction, TLAPS

Statuses == {"?", "OK", "DEG", "FAIL"}
Configs == [family : {"oled", "eink"}, watchdog : BOOLEAN, heartbeat : BOOLEAN,
            failuresToFailed : {1, 2}, visible : BOOLEAN]

(* The types TypeOK leaves out. *)
MoreTypes ==
  /\ config \in Configs
  /\ now \in 0..MaxTime /\ nextPeriodic \in Int
  /\ cycleStarted \in Nat \cup {None}
  /\ lastRenderAt \in (0..now) \cup {None}
  /\ retryAt \in Int \cup {None}
  /\ failures \in Nat /\ loopFailures \in Nat

(* Only the OLED loop renders between its steps. *)
PhaseFits == phase \in {"progress", "done"} => ~Eink

(* The frame that was drawn last is on the glass unless a draw has failed. *)
GlassIsShown == shown # None /\ retryAt = None => panel = shown

(* A status is what the probe reported, but for the misses that are not     *)
(* enough for an outage yet.                                                *)
StatusFits ==
  \A c \in Checks :
    \/ status[c] = reported[c]
    \/ config.failuresToFailed = 2 /\ status[c] = "DEG" /\ reported[c] = "FAIL"

(* A row of the e-paper panel that is out of date belongs to a check whose *)
(* change is pending.                                                      *)
RowsFit ==
  Eink /\ shown # None
    => /\ shown.rows \in [Checks -> Statuses]
       /\ AsReported => \A c \in Checks \ pending : DisplayStatus(status[c]) = shown.rows[c]

(* The period counts from the last draw or from a later attempt. *)
PeriodFits ==
  Eink /\ shown # None
    => lastRenderAt # None /\ nextPeriodic >= lastRenderAt + RefreshInterval

(* The cycle a change waits for began before the panel went out of date.   *)
CycleFits == cycleStarted # None => \A c \in Checks : cycleStarted <= completed[c]
BehindFits ==
  Eink /\ AsReported /\ IsBehind
    => \A c \in Checks : cycleStarted + behind[c] <= completed[c]

IInv ==
  /\ TypeOK /\ MoreTypes /\ PhaseFits /\ GlassIsShown /\ StatusFits
  /\ RowsFit /\ PeriodFits /\ CycleFits /\ BehindFits
  /\ PanelIsCurrent /\ StaleOnlyWhileGated
-----------------------------------------------------------------------------
(* The least of a set of natural numbers. *)

LEMMA LeastExists ==
  ASSUME NEW T \in SUBSET Nat, T # {}
  PROVE  Least(T) \in T /\ \A m \in T : Least(T) <= m
<1>1. IsWellFoundedOn(OpToRel(<, Nat), Nat)
  BY NatLessThanWellFounded
<1>2. PICK n \in T : \A m \in T : ~(<<m, n>> \in OpToRel(<, Nat))
  BY <1>1, WFMin
<1>3. \A m \in T : ~(m < n)
  BY <1>2 DEF OpToRel
<1>4. \A m \in T : n <= m
  BY <1>3
<1> QED
  BY <1>4 DEF Least

LEMMA CyclesFit ==
  ASSUME TypeOK
  PROVE  /\ CompletedCycles \in Nat
         /\ \A c \in Checks : CompletedCycles <= completed[c]
         /\ \E c \in Checks : CompletedCycles = completed[c]
<1> DEFINE T == {completed[c] : c \in Checks}
<1>1. T \in SUBSET Nat /\ T # {}
  BY ConstantsAssumption DEF TypeOK
<1>2. Least(T) \in T /\ \A m \in T : Least(T) <= m
  BY <1>1, LeastExists
<1>3. CompletedCycles = Least(T)
  BY DEF CompletedCycles
<1> QED
  BY <1>1, <1>2, <1>3

(* What the panel of an e-paper device is compared with. *)
LEMMA SummaryFits ==
  ASSUME TypeOK
  PROVE  /\ SummaryChecks \in [Checks -> Statuses]
         /\ \A c \in Checks : SummaryChecks[c] = DisplayStatus(status[c])
BY DEF TypeOK, SummaryChecks, DisplayStatus, Statuses

LEMMA ChangeIsPending ==
  ASSUME TypeOK, RowsFit
  PROVE  ChangeIsKnown
<1> SUFFICES ASSUME Eink, AsReported, IsBehind, pending = {}
             PROVE  FALSE
  BY DEF ChangeIsKnown
<1>1. /\ shown.rows \in [Checks -> Statuses]
      /\ \A c \in Checks : DisplayStatus(status[c]) = shown.rows[c]
  BY DEF RowsFit, IsBehind
<1>2. /\ SummaryChecks \in [Checks -> Statuses]
      /\ \A c \in Checks : SummaryChecks[c] = DisplayStatus(status[c])
  BY SummaryFits
<1>3. SummaryChecks = shown.rows
  BY <1>1, <1>2
<1> QED
  BY <1>3 DEF IsBehind, SameSummary

LEMMA DelayIsInteger ==
  ASSUME NEW count \in Nat \ {0}
  PROVE  RetryDelay(count) \in Int
<1>1. \A n \in Nat : 2 ^ n \in Int
  OBVIOUS
<1>2. count - 1 \in Nat
  OBVIOUS
<1> QED
  BY <1>1, <1>2, ConstantsAssumption DEF RetryDelay, Smaller

-----------------------------------------------------------------------------
LEMMA InitOK == Init => IInv
<1> SUFFICES ASSUME Init PROVE IInv
  OBVIOUS
<1>1. VisibleDegraded(None) \in BOOLEAN /\ VisibleDegraded(TRUE) \in BOOLEAN
      /\ VisibleDegraded(FALSE) \in BOOLEAN
  BY DEF VisibleDegraded
<1>2. TypeOK
  BY ConstantsAssumption DEF Init, TypeOK, Fresh, Zero
<1>3. config \in Configs
  BY <1>1 DEF Init, Configs
<1>4. MoreTypes
  BY <1>3, ConstantsAssumption DEF Init, MoreTypes
<1> QED
  BY <1>2, <1>4 DEF Init, IInv, PhaseFits, GlassIsShown, StatusFits, RowsFit, PeriodFits,
     CycleFits, BehindFits, IsBehind, PanelIsCurrent, StaleOnlyWhileGated,
     Fresh

(* What a restart and a reset leave behind. *)
LEMMA ForgetOK ==
  ASSUME IInv, Forget, config' = config, now' = now,
         lastRenderAt' \in {lastRenderAt, None}, nextPeriodic' \in {nextPeriodic, now},
         loopFailures' \in {loopFailures, 0}, phase' \in {"step", "sleep"}
  PROVE  IInv'
<1>1. TypeOK'
  BY ConstantsAssumption DEF IInv, TypeOK, Forget, Fresh, Zero
<1>2. MoreTypes'
  BY DEF IInv, MoreTypes, Forget
<1> QED
  BY <1>1, <1>2 DEF Forget, IInv, PhaseFits, GlassIsShown, StatusFits, RowsFit,
     PeriodFits, CycleFits, BehindFits, IsBehind, PanelIsCurrent, StaleOnlyWhileGated, Fresh

LEMMA RestartOK == ASSUME IInv, Restart PROVE IInv'
BY ForgetOK DEF Restart

LEMMA ResetOK == ASSUME IInv, ResetRuntimeState PROVE IInv'
BY ForgetOK DEF ResetRuntimeState

(* Steps that change only where the loop is, the time or its failures.     *)
LEMMA NothingChanges ==
  ASSUME UNCHANGED <<config, state, progress, drawn, display, behind>>
  PROVE  /\ Frame' = Frame /\ IsBehind' = IsBehind /\ Eink' = Eink
         /\ AsReported' = AsReported
BY DEF state, progress, drawn, display, Frame, IsBehind, SameSummary, Eink, AsReported,
   SummaryChecks, DisplayState, DisplayStatus

LEMMA QuietOK ==
  ASSUME IInv, UNCHANGED <<config, state, progress, drawn, display, nextPeriodic, behind>>,
         now' \in {now, now + 1}, now' <= MaxTime, loopFailures' \in Nat,
         phase' \in {"step", "sleep", "stopped"},
         StaleOnlyWhileGated'
  PROVE  IInv'
<1>1. TypeOK'
  BY DEF IInv, TypeOK, state, progress, drawn, display
<1>2. MoreTypes'
  BY DEF IInv, MoreTypes, state, progress, drawn, display
<1>3. /\ Frame' = Frame /\ IsBehind' = IsBehind /\ Eink' = Eink /\ AsReported' = AsReported
  BY NothingChanges
<1>4. RowsFit'
  BY <1>3 DEF IInv, RowsFit, DisplayStatus, state, progress, drawn, display
<1>5. BehindFits' /\ CycleFits' /\ PeriodFits'
  BY <1>3 DEF IInv, BehindFits, CycleFits, PeriodFits, state, progress, drawn, display
<1>6. PhaseFits' /\ GlassIsShown' /\ StatusFits' /\ PanelIsCurrent'
  BY <1>1 DEF IInv, PhaseFits, GlassIsShown, StatusFits, PanelIsCurrent,
     state, progress, drawn, display
<1> QED
  BY <1>1, <1>2, <1>4, <1>5, <1>6 DEF IInv

LEMMA TickEndsOK == ASSUME IInv, TickEnds PROVE IInv'
<1>1. CASE DisplayGaveUp /\ config.watchdog
  BY <1>1, RestartOK DEF TickEnds
<1>2. CASE ~(DisplayGaveUp /\ config.watchdog)
  <2>1. /\ UNCHANGED <<config, now, state, progress, drawn, display, nextPeriodic, behind>>
        /\ loopFailures' = 0 /\ phase' = "sleep" /\ phase = "done"
    BY <1>2 DEF TickEnds
  <2>2. ~Eink' /\ failures' = failures /\ config' = config
    BY <2>1 DEF IInv, PhaseFits, Eink, display
  <2>3. StaleOnlyWhileGated'
    BY <1>2, <2>2, ConstantsAssumption
    DEF StaleOnlyWhileGated, DisplayGaveUp, IInv, MoreTypes
  <2> QED
    BY <2>1, <2>3, QuietOK DEF IInv, MoreTypes
<1> QED
  BY <1>1, <1>2

LEMMA TickRaisesOK == ASSUME IInv, TickRaises PROVE IInv'
<1>1. CASE loopFailures + 1 >= MaxLoopFailures /\ config.watchdog
  BY <1>1, RestartOK DEF TickRaises
<1>2. CASE ~(loopFailures + 1 >= MaxLoopFailures /\ config.watchdog)
  <2>1. /\ UNCHANGED <<config, now, state, progress, drawn, display, nextPeriodic, behind>>
        /\ loopFailures' = Smaller(loopFailures + 1, MaxLoopFailures) /\ phase' = "sleep"
        /\ ~Eink
    BY <1>2 DEF TickRaises
  <2>2. loopFailures' \in Nat \ {0}
    BY <2>1, ConstantsAssumption DEF IInv, MoreTypes, Smaller
  <2>3. StaleOnlyWhileGated'
    BY <2>1, <2>2 DEF StaleOnlyWhileGated, Eink
  <2> QED
    BY <2>1, <2>2, <2>3, QuietOK DEF IInv, MoreTypes
<1> QED
  BY <1>1, <1>2

LEMMA StepRaisesOK == ASSUME IInv, StepRaises PROVE IInv'
<1>1. StaleOnlyWhileGated'
  BY DEF StepRaises, StaleOnlyWhileGated
<1> QED
  BY <1>1, QuietOK DEF StepRaises, IInv, MoreTypes

LEMMA SleepOK == ASSUME IInv, Sleep PROVE IInv'
<1>1. StaleOnlyWhileGated'
  BY DEF Sleep, StaleOnlyWhileGated
<1>2. now' \in {now, now + 1} /\ now' <= MaxTime
  BY ConstantsAssumption DEF Sleep, Smaller, IInv, MoreTypes
<1> QED
  BY <1>1, <1>2, QuietOK DEF Sleep, IInv, MoreTypes

(* The overview replaces the diagnostics screen of the OLED panel. *)
LEMMA LeaveDiagnosticsOK == ASSUME IInv, LeaveDiagnostics PROVE IInv'
<1>1. /\ phase = "step" /\ ~Eink /\ mode' = "overview"
      /\ UNCHANGED <<config, now, status, reported, lines, nextPeriodic, loopFailures, phase, behind>>
      /\ UNCHANGED <<beat, completed, pending, cycleStarted>>
      /\ UNCHANGED <<shown, lastRenderAt, panel, failures, retryAt>>
  BY DEF LeaveDiagnostics, progress, drawn, display
<1>2. TypeOK'
  BY <1>1 DEF IInv, TypeOK
<1>3. MoreTypes'
  BY <1>1 DEF IInv, MoreTypes
<1>4. ~Eink'
  BY <1>1 DEF Eink
<1>5. RowsFit' /\ PeriodFits' /\ CycleFits' /\ BehindFits'
  BY <1>1, <1>4 DEF IInv, RowsFit, PeriodFits, CycleFits, BehindFits
<1>6. GlassIsShown' /\ StatusFits' /\ PhaseFits'
  BY <1>1 DEF IInv, GlassIsShown, StatusFits, PhaseFits
<1>7. PanelIsCurrent' /\ StaleOnlyWhileGated'
  BY <1>1, <1>2 DEF PanelIsCurrent, StaleOnlyWhileGated
<1> QED
  BY <1>2, <1>3, <1>5, <1>6, <1>7 DEF IInv

-----------------------------------------------------------------------------
(* What drawing preserves, without the claims about the end of a tick.     *)

Core ==
  /\ TypeOK /\ MoreTypes /\ GlassIsShown /\ StatusFits /\ RowsFit /\ CycleFits /\ BehindFits

LEMMA DrawFailsOK ==
  ASSUME IInv, DrawFails, UNCHANGED <<config, now, loopFailures>>,
         nextPeriodic' \in {nextPeriodic, now + RefreshInterval},
         phase' \in {"step", "done", "sleep"}
  PROVE  Core' /\ retryAt' # None /\ PeriodFits'
<1>1. /\ UNCHANGED <<config, now, loopFailures, status, reported, shown, lastRenderAt, behind>>
      /\ UNCHANGED <<beat, completed, pending, cycleStarted>>
      /\ mode' = "diagnostics"
      /\ failures' = failures + 1
      /\ retryAt' = now + RetryDelay(failures')
  BY DEF DrawFails, progress
<1>2. failures' \in Nat \ {0}
  BY <1>1 DEF IInv, MoreTypes
<1>3. retryAt' \in Int /\ retryAt' # None
  BY <1>1, <1>2, DelayIsInteger, ConstantsAssumption DEF IInv, MoreTypes
<1>4. TypeOK'
  BY <1>1, <1>2, <1>3 DEF IInv, TypeOK
<1>5. MoreTypes'
  BY <1>1, <1>2, <1>3, ConstantsAssumption DEF IInv, MoreTypes
<1>6. Eink' = Eink /\ AsReported' = AsReported /\ IsBehind' = IsBehind
  BY <1>1 DEF Eink, AsReported, IsBehind, SameSummary, SummaryChecks, DisplayStatus
<1>7. RowsFit' /\ CycleFits' /\ BehindFits'
  BY <1>1, <1>6 DEF IInv, RowsFit, CycleFits, BehindFits, DisplayStatus
<1>8. PeriodFits'
  BY <1>1, <1>6, ConstantsAssumption DEF IInv, MoreTypes, PeriodFits
<1>9. GlassIsShown' /\ StatusFits'
  BY <1>1, <1>3 DEF IInv, GlassIsShown, StatusFits
<1> QED
  BY <1>3, <1>4, <1>5, <1>7, <1>8, <1>9 DEF Core

LEMMA DrawSucceedsOK ==
  ASSUME IInv, DrawSucceeds, UNCHANGED <<config, now, loopFailures>>,
         nextPeriodic' \in {nextPeriodic, now + RefreshInterval},
         Eink => nextPeriodic' = now + RefreshInterval,
         phase' \in {"step", "done", "sleep"}
  PROVE  Core' /\ panel' = Frame' /\ failures' = 0 /\ ~(Eink' /\ IsBehind') /\ PeriodFits'
<1>1. /\ UNCHANGED <<config, now, loopFailures, status, reported, mode, lines, beat, completed>>
      /\ panel' = Frame /\ shown' = Frame /\ lastRenderAt' = now
      /\ failures' = 0 /\ retryAt' = None /\ pending' = {} /\ cycleStarted' = None
      /\ behind' = Zero
  BY DEF DrawSucceeds, DisplayRecovers, Propagated, state
<1>2. TypeOK'
  BY <1>1, ConstantsAssumption DEF IInv, TypeOK, Zero
<1>3. MoreTypes'
  BY <1>1, ConstantsAssumption DEF IInv, MoreTypes
<1>4. Frame' = Frame /\ Eink' = Eink /\ AsReported' = AsReported /\ SummaryChecks' = SummaryChecks
  BY <1>1 DEF Frame, Eink, AsReported, SummaryChecks, DisplayState, DisplayStatus
<1>5. Eink => shown'.rows = SummaryChecks
  BY <1>1 DEF Frame
<1>6. ~(Eink' /\ IsBehind')
  BY <1>4, <1>5 DEF IsBehind, SameSummary
<1>7. RowsFit'
  <2>1. \A c \in Checks : DisplayStatus(status[c])' = DisplayStatus(status[c])
    BY <1>1 DEF DisplayStatus
  <2> QED
    BY <1>4, <1>5, <2>1, SummaryFits DEF RowsFit, IInv
<1>8. CycleFits' /\ BehindFits'
  BY <1>1, <1>6 DEF CycleFits, BehindFits
<1>9. GlassIsShown' /\ StatusFits'
  BY <1>1 DEF IInv, GlassIsShown, StatusFits
<1>10. PeriodFits'
  BY <1>1, <1>4, ConstantsAssumption DEF IInv, MoreTypes, PeriodFits
<1> QED
  BY <1>1, <1>2, <1>3, <1>4, <1>6, <1>7, <1>8, <1>9, <1>10 DEF Core

LEMMA NothingDrawnOK ==
  ASSUME IInv, NothingDrawn, UNCHANGED <<config, now, loopFailures>>,
         nextPeriodic' \in {nextPeriodic, now + RefreshInterval},
         phase' \in {"step", "done", "sleep"}
  PROVE  Core' /\ PeriodFits' /\ Frame' = Frame /\ UNCHANGED <<shown, panel, retryAt, behind>>
<1>1. /\ UNCHANGED <<status, reported, mode, lines, beat, completed, pending, cycleStarted>>
      /\ UNCHANGED <<shown, lastRenderAt, panel, failures, retryAt, behind>>
  BY DEF NothingDrawn, state, progress, drawn, display
<1>2. TypeOK'
  BY <1>1 DEF IInv, TypeOK
<1>3. MoreTypes'
  BY <1>1, ConstantsAssumption DEF IInv, MoreTypes
<1>4. Frame' = Frame /\ IsBehind' = IsBehind /\ Eink' = Eink /\ AsReported' = AsReported
  BY NothingChanges DEF NothingDrawn
<1>5. RowsFit' /\ CycleFits' /\ BehindFits'
  BY <1>1, <1>4 DEF IInv, RowsFit, CycleFits, BehindFits, DisplayStatus
<1>6. PeriodFits'
  BY <1>1, <1>4, ConstantsAssumption DEF IInv, MoreTypes, PeriodFits
<1>7. GlassIsShown' /\ StatusFits'
  BY <1>1 DEF IInv, GlassIsShown, StatusFits
<1> QED
  BY <1>1, <1>2, <1>3, <1>4, <1>5, <1>6, <1>7 DEF Core

-----------------------------------------------------------------------------
(* The OLED loop draws. *)

LEMMA RenderOnceOK ==
  ASSUME IInv, RenderOnce, ~Eink, UNCHANGED <<config, now, nextPeriodic, loopFailures>>,
         phase' \in {"step", "done"}
  PROVE  IInv'
<1>1. ~Eink'
  BY DEF Eink
<1>2. Core' /\ PeriodFits' /\ (retryAt' = None => panel' = Frame')
  <2>1. CASE AlreadyDrawn \/ InBackoff
    <3>1. Core' /\ PeriodFits' /\ Frame' = Frame /\ UNCHANGED <<shown, panel, retryAt>>
      BY <2>1, NothingDrawnOK DEF RenderOnce
    <3>2. retryAt = None => shown # None /\ Frame = shown
      BY <2>1 DEF AlreadyDrawn, InBackoff
    <3> QED
      BY <3>1, <3>2 DEF IInv, GlassIsShown
  <2>2. CASE DrawFails
    BY <2>2, DrawFailsOK
  <2>3. CASE DrawSucceeds
    BY <2>3, DrawSucceedsOK
  <2> QED
    BY <2>1, <2>2, <2>3 DEF RenderOnce, Draw
<1>3. PhaseFits' /\ PanelIsCurrent' /\ StaleOnlyWhileGated'
  BY <1>1, <1>2 DEF PhaseFits, PanelIsCurrent, StaleOnlyWhileGated, Core
<1> QED
  BY <1>2, <1>3 DEF Core, IInv

LEMMA RenderOK == ASSUME IInv, Render PROVE IInv'
BY RenderOnceOK DEF Render

LEMMA RenderProgressOK == ASSUME IInv, RenderProgress PROVE IInv'
<1>1. ~Eink
  BY DEF RenderProgress, IInv, PhaseFits
<1> QED
  BY <1>1, RenderOnceOK DEF RenderProgress

-----------------------------------------------------------------------------
(* The e-paper loop draws, or leaves the panel. *)

(* No change to draw: what it waited for is forgotten. *)
LEMMA SameTextOK ==
  ASSUME IInv, Eink, SameSummary, Propagated,
         UNCHANGED <<config, now, loopFailures, state, beat, completed, drawn, display, behind>>,
         nextPeriodic' = now + RefreshInterval, phase' = "sleep"
  PROVE  IInv'
<1>1. /\ UNCHANGED <<status, reported, mode, lines, beat, completed, now, config, loopFailures>>
      /\ UNCHANGED <<shown, lastRenderAt, panel, failures, retryAt, behind>>
      /\ pending' = {} /\ cycleStarted' = None /\ phase' = "sleep"
  BY DEF Propagated, state, drawn, display
<1>2. Eink' = Eink /\ AsReported' = AsReported /\ SummaryChecks' = SummaryChecks
  BY <1>1 DEF Eink, AsReported, SummaryChecks, DisplayStatus
<1>3. ~IsBehind'
  BY <1>1, <1>2 DEF IsBehind, SameSummary
<1>4. TypeOK'
  BY <1>1 DEF IInv, TypeOK
<1>5. MoreTypes'
  BY <1>1, ConstantsAssumption DEF IInv, MoreTypes
<1>6. RowsFit'
  <2>1. \A c \in Checks : DisplayStatus(status[c])' = DisplayStatus(status[c])
    BY <1>1 DEF DisplayStatus
  <2>2. shown.rows = SummaryChecks
    BY DEF SameSummary
  <2> QED
    BY <1>1, <1>2, <2>1, <2>2, SummaryFits DEF RowsFit, IInv
<1>7. PeriodFits'
  BY <1>1, <1>2, ConstantsAssumption DEF IInv, MoreTypes, PeriodFits
<1>8. CycleFits' /\ BehindFits' /\ StaleOnlyWhileGated'
  BY <1>1, <1>3 DEF CycleFits, BehindFits, StaleOnlyWhileGated
<1>9. GlassIsShown' /\ StatusFits' /\ PhaseFits'
  BY <1>1 DEF IInv, GlassIsShown, StatusFits, PhaseFits
<1>10. PanelIsCurrent'
  BY <1>1, <1>2, <1>4 DEF PanelIsCurrent
<1> QED
  BY <1>4, <1>5, <1>6, <1>7, <1>8, <1>9, <1>10 DEF IInv

(* While a change waits, one of its gates is closed. *)
LEMMA GateIsClosed ==
  ASSUME IInv, Eink, AsReported, IsBehind, RefreshReason = "none"
  PROVE  ~GatesOpen
<1>1. shown # None /\ pending # {}
  BY ChangeIsPending DEF IInv, IsBehind, ChangeIsKnown
<1>2. ~StateRefreshReady
  BY <1>1 DEF RefreshReason
<1>3. cycleStarted \in Nat /\ lastRenderAt \in Nat /\ now \in Nat
  BY <1>1 DEF IInv, TypeOK, MoreTypes, PeriodFits
<1>4. cycleStarted # None /\ lastRenderAt # None
  BY <1>3, ConstantsAssumption
<1>5. CASE ~(CompletedCycles >= cycleStarted + CyclesPerRefresh)
  <2>1. PICK c \in Checks : CompletedCycles = completed[c]
    BY CyclesFit DEF IInv
  <2>2. cycleStarted + behind[c] <= completed[c]
    BY DEF IInv, BehindFits
  <2>3. behind[c] \in Nat /\ completed[c] \in Nat
    BY DEF IInv, TypeOK
  <2>4. ~(behind[c] >= CyclesPerRefresh)
    BY <1>3, <1>5, <2>1, <2>2, <2>3, ConstantsAssumption
  <2> QED
    BY <2>4 DEF GatesOpen
<1>6. CASE CompletedCycles >= cycleStarted + CyclesPerRefresh
  BY <1>2, <1>4, <1>6 DEF StateRefreshReady, Policy, GatesOpen
<1> QED
  BY <1>5, <1>6

LEMMA RefreshOK == ASSUME IInv, Refresh PROVE IInv'
<1>1. Eink /\ Eink' /\ phase' = "sleep" /\ UNCHANGED <<config, now, loopFailures>>
  BY DEF Refresh, Eink
<1>2. SUFFICES ASSUME Core', PeriodFits', StaleOnlyWhileGated'
               PROVE  IInv'
  <2>1. CASE RefreshReason = "none" \/ InBackoff
    <3>1. NothingDrawn /\ UNCHANGED nextPeriodic
      BY <2>1 DEF Refresh
    <3>2. Core' /\ PeriodFits' /\ UNCHANGED <<shown, panel, retryAt, behind>>
      BY <1>1, <3>1, NothingDrawnOK
    <3>3. IsBehind' = IsBehind /\ AsReported' = AsReported
      BY <1>1, <3>1, NothingChanges DEF NothingDrawn
    <3>4. lastRenderAt' = lastRenderAt
      BY <3>1 DEF NothingDrawn, drawn
    <3>5. GatesOpen' = GatesOpen
      BY <1>1, <3>2, <3>4 DEF GatesOpen
    <3>6. StaleOnlyWhileGated'
      BY <1>1, <2>1, <3>2, <3>3, <3>5, GateIsClosed DEF StaleOnlyWhileGated, InBackoff
    <3> QED
      BY <1>2, <3>2, <3>6
  <2>2. CASE ~(RefreshReason = "none" \/ InBackoff)
    <3>1. RefreshPanel(RefreshReason) /\ nextPeriodic' = now + RefreshInterval
      BY <2>2 DEF Refresh
    <3>2. CASE RefreshReason = "state" /\ SameSummary
      BY <1>1, <3>1, <3>2, SameTextOK DEF RefreshPanel
    <3>3. CASE RefreshReason # "state" /\ AlreadyDrawn
      <4>1. NothingDrawn
        BY <3>1, <3>3 DEF RefreshPanel
      <4>2. Core' /\ PeriodFits'
        BY <1>1, <3>1, <4>1, NothingDrawnOK
      <4>3. ~IsBehind
        BY <1>1, <3>3 DEF AlreadyDrawn, Frame, IsBehind, SameSummary
      <4>4. ~IsBehind'
        BY <1>1, <4>1, <4>3, NothingChanges DEF NothingDrawn
      <4> QED
        BY <1>2, <4>2, <4>4 DEF StaleOnlyWhileGated
    <3>4. CASE Draw
      <4>1. CASE DrawFails
        <5>1. Core' /\ retryAt' # None /\ PeriodFits'
          BY <1>1, <3>1, <4>1, DrawFailsOK
        <5> QED
          BY <1>2, <5>1 DEF StaleOnlyWhileGated
      <4>2. CASE DrawSucceeds
        <5>1. Core' /\ ~(Eink' /\ IsBehind') /\ PeriodFits'
          BY <1>1, <3>1, <4>2, DrawSucceedsOK
        <5> QED
          BY <1>2, <5>1 DEF StaleOnlyWhileGated
      <4> QED
        BY <3>4, <4>1, <4>2 DEF Draw
    <3> QED
      BY <3>1, <3>2, <3>3, <3>4 DEF RefreshPanel
  <2> QED
    BY <2>1, <2>2
<1>3. PhaseFits' /\ PanelIsCurrent'
  BY <1>1, <1>2 DEF PhaseFits, PanelIsCurrent, Core
<1> QED
  BY <1>2, <1>3 DEF Core, IInv

-----------------------------------------------------------------------------
(* A result reaches the state. *)

LEMMA NextStatusFits ==
  ASSUME NEW c \in Checks, NEW result \in ProbeResults, TypeOK, MoreTypes, StatusFits
  PROVE  /\ NextStatus(c, result) \in Statuses
         /\ \/ NextStatus(c, result) = result
            \/ /\ config.failuresToFailed = 2
               /\ NextStatus(c, result) = "DEG" /\ result = "FAIL"
         /\ AsReported /\ ~IsTransition(c, result)
              => DisplayStatus(NextStatus(c, result)) = DisplayStatus(status[c])
<1>1. config.failuresToFailed \in {1, 2} /\ config.visible \in BOOLEAN
  BY DEF MoreTypes, Configs
<1>2. /\ NextStatus(c, result) \in Statuses
      /\ \/ NextStatus(c, result) = result
         \/ /\ config.failuresToFailed = 2
            /\ NextStatus(c, result) = "DEG" /\ result = "FAIL"
  BY <1>1 DEF NextStatus, Statuses, ProbeResults
<1>3. ASSUME AsReported, ~IsTransition(c, result)
      PROVE  DisplayStatus(NextStatus(c, result)) = DisplayStatus(status[c])
  <2>1. reported[c] = result /\ NextStatus(c, result) = result
    BY <1>3 DEF IsTransition, NextStatus
  <2>2. CASE status[c] = reported[c]
    BY <2>1, <2>2
  <2>3. CASE status[c] # reported[c]
    <3>1. ~config.visible /\ status[c] = "DEG" /\ result = "FAIL"
      BY <1>1, <1>3, <2>1, <2>3 DEF StatusFits, AsReported
    <3> QED
      BY <2>1, <3>1 DEF DisplayStatus
  <2> QED
    BY <2>2, <2>3
<1> QED
  BY <1>2, <1>3

LEMMA BeatFits ==
  ASSUME TypeOK
  PROVE  (beat + 1) % Slots \in 0..(Slots - 1)
<1>1. beat + 1 \in Nat /\ Slots \in Nat \ {0}
  BY ConstantsAssumption DEF TypeOK
<1>2. \A n \in Nat, s \in Nat \ {0} : n % s \in 0..(s - 1)
  OBVIOUS
<1> QED
  BY <1>1, <1>2

(* What is left of the cycles that a stale panel has waited for. *)
LEMMA BehindAfterFits ==
  ASSUME IInv, NEW c \in Checks
  PROVE  /\ BehindAfter(c) \in [Checks -> 0..CyclesPerRefresh]
         /\ \A d \in Checks \ {c} :
              BehindAfter(c)[d] = 0 \/ (IsBehind /\ BehindAfter(c)[d] = behind[d])
         /\ BehindAfter(c)[c] <= 1 \/ (IsBehind /\ BehindAfter(c)[c] <= behind[c] + 1)
<1>1. behind \in [Checks -> 0..CyclesPerRefresh] /\ CyclesPerRefresh \in Nat \ {0}
  BY ConstantsAssumption DEF IInv, TypeOK
<1>2. CASE ~IsBehind'
  BY <1>1, <1>2 DEF BehindAfter, Zero
<1>3. CASE IsBehind' /\ IsBehind
  <2>1. BehindAfter(c) = [behind EXCEPT ![c] = Smaller(CyclesPerRefresh, @ + 1)]
    BY <1>3 DEF BehindAfter
  <2> QED
    BY <1>1, <1>3, <2>1 DEF Smaller
<1>4. CASE IsBehind' /\ ~IsBehind
  <2>1. BehindAfter(c) = [Zero EXCEPT ![c] = Smaller(CyclesPerRefresh, @ + 1)]
    BY <1>4 DEF BehindAfter
  <2> QED
    BY <1>1, <2>1 DEF Smaller, Zero
<1> QED
  BY <1>2, <1>3, <1>4

LEMMA ApplyResultOK ==
  ASSUME IInv, NEW c \in Checks, NEW result \in ProbeResults,
         ApplyResult(c, result)
  PROVE  IInv'
<1>1. /\ phase = "step" /\ completed[c] < MaxProbes
      /\ status' = [status EXCEPT ![c] = NextStatus(c, result)]
      /\ reported' = [reported EXCEPT ![c] = result]
      /\ completed' = [completed EXCEPT ![c] = @ + 1]
      /\ beat' = IF config.heartbeat THEN (beat + 1) % Slots ELSE beat
      /\ phase' = IF config.heartbeat /\ ~Eink THEN "progress" ELSE "step"
      /\ UNCHANGED <<config, now, mode, lines, nextPeriodic, loopFailures>>
      /\ UNCHANGED <<shown, lastRenderAt, panel, failures, retryAt>>
      /\ behind' = IF Eink THEN BehindAfter(c) ELSE behind
  BY DEF ApplyResult, drawn, display
<1>2. IF IsTransition(c, result)
      THEN /\ pending' = pending \cup {c}
           /\ cycleStarted' = IF cycleStarted = None THEN CompletedCycles ELSE cycleStarted
      ELSE UNCHANGED <<pending, cycleStarted>>
  BY DEF ApplyResult, CycleBeforeProbe
<1>3. TypeOK /\ MoreTypes /\ StatusFits
  BY DEF IInv
<1>4. /\ NextStatus(c, result) \in Statuses
      /\ \/ NextStatus(c, result) = result
         \/ /\ config.failuresToFailed = 2
            /\ NextStatus(c, result) = "DEG" /\ result = "FAIL"
      /\ AsReported /\ ~IsTransition(c, result)
           => DisplayStatus(NextStatus(c, result)) = DisplayStatus(status[c])
  BY <1>3, NextStatusFits
<1>5. /\ CompletedCycles \in Nat
      /\ \A d \in Checks : CompletedCycles <= completed[d]
  BY <1>3, CyclesFit
<1>6. completed \in [Checks -> 0..MaxProbes]
  BY <1>3 DEF TypeOK
<1>7. completed' \in [Checks -> 0..MaxProbes] /\ \A d \in Checks : completed[d] <= completed'[d]
  BY <1>1, <1>6, ConstantsAssumption
<1>8. cycleStarted' \in Nat \cup {None}
  BY <1>2, <1>3, <1>5 DEF MoreTypes
<1>9. pending' \subseteq Checks /\ (pending' = {}) = (cycleStarted' = None)
  <2>1. CompletedCycles # None
    BY <1>5, ConstantsAssumption
  <2>2. pending \subseteq Checks /\ (pending = {}) = (cycleStarted = None)
    BY <1>3 DEF TypeOK
  <2> QED
    BY <1>2, <2>1, <2>2
<1>10. behind' \in [Checks -> 0..CyclesPerRefresh]
  BY <1>1, <1>3, BehindAfterFits DEF TypeOK
<1>11. TypeOK'
  <2>1. status' \in [Checks -> {"?", "OK", "DEG", "FAIL"}]
    BY <1>1, <1>3, <1>4 DEF TypeOK, Statuses
  <2>4. reported' \in [Checks -> {"?", "OK", "DEG", "FAIL"}]
    BY <1>1, <1>3 DEF TypeOK, ProbeResults
  <2>2. beat' \in 0..(Slots - 1)
    BY <1>1, <1>3, BeatFits DEF TypeOK
  <2>3. phase' \in {"step", "progress"}
    BY <1>1
  <2> QED
    BY <1>1, <1>3, <1>7, <1>9, <1>10, <2>1, <2>2, <2>3, <2>4 DEF TypeOK
<1>12. MoreTypes'
  BY <1>1, <1>3, <1>8 DEF MoreTypes
<1>13. Eink' = Eink /\ AsReported' = AsReported
  BY <1>1 DEF Eink, AsReported
<1>14. StatusFits'
  BY <1>1, <1>3, <1>4 DEF StatusFits, TypeOK
<1>15. RowsFit'
  <2>1. \A s \in Statuses : DisplayStatus(s)' = DisplayStatus(s)
    BY <1>1 DEF DisplayStatus
  <2>2. SUFFICES ASSUME Eink, shown # None, AsReported, NEW d \in Checks \ pending'
                 PROVE  DisplayStatus(status[d])' = shown.rows[d]
    BY <1>1, <1>13 DEF RowsFit, IInv
  <2>3. d \in Checks \ pending
    BY <1>2, <2>2
  <2>4. DisplayStatus(status[d]) = shown.rows[d]
    BY <2>2, <2>3 DEF IInv, RowsFit
  <2>5. CASE d = c
    <3>1. ~IsTransition(c, result)
      BY <1>2, <2>2, <2>5
    <3>2. status'[d] = NextStatus(c, result)
      BY <1>1, <1>3, <2>5 DEF TypeOK
    <3>3. DisplayStatus(NextStatus(c, result)) = DisplayStatus(status[d])
      BY <1>4, <2>2, <2>5, <3>1
    <3> QED
      BY <1>1, <2>4, <3>2, <3>3 DEF DisplayStatus
  <2>6. CASE d # c
    <3>1. status'[d] = status[d]
      BY <1>1, <1>3, <2>3, <2>6 DEF TypeOK
    <3> QED
      BY <1>1, <2>4, <3>1 DEF DisplayStatus
  <2> QED
    BY <2>5, <2>6
<1>16. CycleFits'
  <2>1. ASSUME cycleStarted' # None, NEW d \in Checks
        PROVE  cycleStarted' <= completed'[d]
    <3>1. cycleStarted' \in Nat
      BY <1>8, <2>1
    <3>2. cycleStarted' <= completed[d]
      BY <1>2, <1>5, <2>1 DEF IInv, CycleFits
    <3>3. completed[d] \in Nat /\ completed'[d] \in Nat /\ completed[d] <= completed'[d]
      BY <1>6, <1>7
    <3> QED
      BY <3>1, <3>2, <3>3
  <2> QED
    BY <2>1 DEF CycleFits
<1>17. BehindFits'
  <2>1. SUFFICES ASSUME Eink, AsReported, IsBehind', NEW d \in Checks
                 PROVE  cycleStarted' + behind'[d] <= completed'[d]
    BY <1>13 DEF BehindFits
  <2>2. pending' # {}
    <3>1. (TypeOK /\ RowsFit => ChangeIsKnown)'
      BY ChangeIsPending, PTL
    <3> QED
      BY <1>11, <1>13, <1>15, <2>1, <3>1 DEF ChangeIsKnown
  <2>3. cycleStarted' \in Nat
    BY <1>8, <1>9, <2>2
  <2>4. cycleStarted' <= completed[d]
    <3>1. CASE cycleStarted' = cycleStarted
      BY <2>3, <3>1, ConstantsAssumption DEF IInv, CycleFits
    <3>2. CASE cycleStarted' # cycleStarted
      BY <1>2, <1>5, <3>2
    <3> QED
      BY <3>1, <3>2
  <2>5. IsBehind => cycleStarted' = cycleStarted
    <3>1. IsBehind => pending # {}
      BY <1>3, <2>1, ChangeIsPending DEF IInv, ChangeIsKnown
    <3>2. pending # {} => cycleStarted # None
      BY <1>3 DEF TypeOK
    <3> QED
      BY <1>2, <3>1, <3>2
  <2>6. IsBehind => cycleStarted' + behind[d] <= completed[d]
    BY <2>1, <2>5 DEF IInv, BehindFits
  <2>7. behind' = BehindAfter(c)
    BY <1>1, <2>1
  <2>8. behind[d] \in Nat /\ behind'[d] \in Nat /\ completed[d] \in Nat /\ completed'[d] \in Nat
    BY <1>3, <1>6, <1>7, <1>10 DEF TypeOK
  <2>9. CASE d # c
    <3>1. completed'[d] = completed[d]
      BY <1>1, <1>6, <2>9
    <3>2. behind'[d] = 0 \/ (IsBehind /\ behind'[d] = behind[d])
      BY <2>7, <2>9, BehindAfterFits
    <3> QED
      BY <2>3, <2>4, <2>6, <2>8, <3>1, <3>2
  <2>10. CASE d = c
    <3>1. completed'[d] = completed[d] + 1
      BY <1>1, <1>6, <2>10
    <3>2. behind'[d] <= 1 \/ (IsBehind /\ behind'[d] <= behind[d] + 1)
      BY <2>7, <2>10, BehindAfterFits
    <3> QED
      BY <2>3, <2>4, <2>6, <2>8, <3>1, <3>2
  <2> QED
    BY <2>9, <2>10
<1>18. GlassIsShown' /\ PeriodFits' /\ PhaseFits'
  BY <1>1, <1>13 DEF IInv, GlassIsShown, PeriodFits, PhaseFits
<1>19. PanelIsCurrent' /\ StaleOnlyWhileGated'
  BY <1>1, <1>11 DEF PanelIsCurrent, StaleOnlyWhileGated
<1> QED
  BY <1>11, <1>12, <1>14, <1>15, <1>16, <1>17, <1>18, <1>19 DEF IInv

-----------------------------------------------------------------------------
LEMMA StepOK == IInv /\ [Next]_vars => IInv'
<1> SUFFICES ASSUME IInv, [Next]_vars PROVE IInv'
  OBVIOUS
<1>1. CASE Results
  BY <1>1, ApplyResultOK DEF Results
<1>2. CASE OledNext
  BY <1>2, LeaveDiagnosticsOK, RenderProgressOK, RenderOK, TickEndsOK, TickRaisesOK DEF OledNext
<1>3. CASE EinkNext
  BY <1>3, RefreshOK, StepRaisesOK, RestartOK DEF EinkNext, WatchdogBites
<1>4. CASE Sleep
  BY <1>4, SleepOK
<1>5. CASE ResetRuntimeState
  BY <1>5, ResetOK
<1>6. CASE UNCHANGED vars
  <2>1. UNCHANGED <<config, now, status, reported, mode, lines, beat, completed, pending, cycleStarted,
                    shown, lastRenderAt, panel, failures, retryAt, nextPeriodic,
                    loopFailures, phase, behind>>
    BY <1>6 DEF vars, state, progress, drawn, display
  <2>2. Frame' = Frame /\ IsBehind' = IsBehind /\ Eink' = Eink /\ AsReported' = AsReported
    BY <2>1, NothingChanges DEF state, progress, drawn, display
  <2>3. TypeOK' /\ MoreTypes'
    BY <2>1 DEF IInv, TypeOK, MoreTypes
  <2>4. RowsFit' /\ CycleFits' /\ BehindFits' /\ PeriodFits'
    BY <2>1, <2>2 DEF IInv, RowsFit, CycleFits, BehindFits, PeriodFits, DisplayStatus
  <2>5. GlassIsShown' /\ StatusFits' /\ PhaseFits'
    BY <2>1, <2>2 DEF IInv, GlassIsShown, StatusFits, PhaseFits
  <2>6. PanelIsCurrent' /\ StaleOnlyWhileGated'
    BY <2>1, <2>2, <2>3
    DEF IInv, PanelIsCurrent, StaleOnlyWhileGated, GatesOpen
  <2> QED
    BY <2>3, <2>4, <2>5, <2>6 DEF IInv
<1> QED
  BY <1>1, <1>2, <1>3, <1>4, <1>5, <1>6 DEF Next

THEOREM IInvHolds == Spec => []IInv
BY InitOK, StepOK, PTL DEF Spec

(* When a tick of the OLED loop ends and no draw waits for its retry, the   *)
(* glass shows the current frame (render_once, docs/spec.md:739); with the  *)
(* types of the variables.                                                  *)
THEOREM PanelStaysCurrent == Spec => []PanelIsCurrent
<1>1. IInv => PanelIsCurrent
  BY DEF IInv
<1> QED
  BY <1>1, IInvHolds, PTL

(* The e-paper loop knows of every change its panel does not show           *)
(* (_track_status_transition, _log_display_propagation): no change waits    *)
(* for the periodic refresh.                                                *)
THEOREM ChangesStayKnown == Spec => []ChangeIsKnown
<1>1. IInv => ChangeIsKnown
  BY ChangeIsPending DEF IInv
<1> QED
  BY <1>1, IInvHolds, PTL

(* An e-paper panel is out of date only as long as the cycles or the        *)
(* interval it waits for are not over (_eink_state_refresh_ready), or a     *)
(* failed draw waits for its retry.                                         *)
THEOREM PanelIsStaleOnlyWhileGated == Spec => []StaleOnlyWhileGated
<1>1. IInv => StaleOnlyWhileGated
  BY DEF IInv
<1> QED
  BY <1>1, IInvHolds, PTL

-----------------------------------------------------------------------------
(* Refreshes that draw. *)

LEMMA RefreshIsSpaced ==
  ASSUME IInv, Refresh, shown # None, panel' \notin {panel, Torn}
  PROVE  now >= lastRenderAt + (IF pending # {} THEN MinInterval ELSE RefreshInterval)
<1>1. /\ now \in Nat /\ lastRenderAt \in Nat /\ nextPeriodic \in Int
      /\ nextPeriodic >= lastRenderAt + RefreshInterval
  BY ConstantsAssumption DEF Refresh, IInv, MoreTypes, PeriodFits
<1>2. lastRenderAt # None
  BY DEF Refresh, IInv, PeriodFits
<1>3. RefreshReason # "none"
  BY DEF Refresh, NothingDrawn, drawn
<1>4. CASE pending # {}
  <2>1. StateRefreshReady /\ cycleStarted # None
    BY <1>3, <1>4 DEF RefreshReason, IInv, TypeOK
  <2> QED
    BY <1>2, <1>4, <2>1 DEF StateRefreshReady, Policy
<1>5. CASE pending = {}
  <2>1. now >= nextPeriodic
    BY <1>3, <1>5 DEF RefreshReason
  <2> QED
    BY <1>1, <1>5, <2>1, ConstantsAssumption
<1> QED
  BY <1>4, <1>5

LEMMA OnlyRefreshDraws ==
  ASSUME IInv, [Next]_vars, Eink, panel' # panel
  PROVE  Refresh
<1>1. ~Sleep /\ ~ResetRuntimeState /\ ~StepRaises /\ ~UNCHANGED vars /\ ~LeaveDiagnostics
  BY DEF Sleep, ResetRuntimeState, StepRaises, LeaveDiagnostics, vars, drawn
<1>2. ~Results /\ ~WatchdogBites
  BY DEF Results, ApplyResult, WatchdogBites, Restart, drawn
<1>3. ~RenderProgress /\ ~Render /\ ~TickEnds /\ ~TickRaises
  BY DEF RenderProgress, Render, TickEnds, TickRaises, IInv, PhaseFits
<1> QED
  BY <1>1, <1>2, <1>3 DEF Next, OledNext, EinkNext

(* A refresh that shows a change the e-paper loop knows of comes no sooner  *)
(* than min_interval_s after the last, any other no sooner than the period  *)
(* (_run_eink_refresh_loop); only the first frame after a start or a reset  *)
(* does not wait.                                                           *)
THEOREM RefreshesStaySpaced == Spec => RefreshesAreSpaced
<1> DEFINE A == Eink /\ shown # None /\ panel' \notin {panel, Torn}
                  => now >= lastRenderAt
                              + (IF pending # {} THEN MinInterval ELSE RefreshInterval)
<1>1. IInv /\ [Next]_vars => [A]_vars
  BY OnlyRefreshDraws, RefreshIsSpaced
<1> QED
  BY <1>1, IInvHolds, PTL DEF Spec, RefreshesAreSpaced

=============================================================================
